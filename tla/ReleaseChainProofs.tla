-------------------------- MODULE ReleaseChainProofs --------------------------
(***************************************************************************)
(* What ReleaseChain promises for any number of commits, releases, builds, *)
(* changes of files and crashes.                                           *)
(***************************************************************************)
EXTENDS ReleaseChain, TLAPS

-----------------------------------------------------------------------------
(* The inductive invariant *)

(* The Flat installation served these reports at some moment. *)
Served(reports) == \E i \in instants : reports = Staged("page", i["page"])

(* The application, the assets and the identity of a Candidate are of one   *)
(* commit.                                                                  *)
OneCommit(man) ==
    man.files.app = man.identity.commit /\ man.files.assets = AssetsOf(man.identity.commit)

(* What a writer publishes from. *)
Genuine(w, man) ==
    /\ w = "publisher" => Served(man.files.reports) /\ OneCommit(man)
    /\ w = "adopter" => \E i \in instants : /\ man.files.reports = Staged("page", i["page"])
                                            /\ man.files.assets = i["asset"]

(* A writer at p, whose Candidate is c. *)
Fine(w, p, c) ==
    /\ p.pc \in {"verify", "copy", "rename"} => c # None /\ (p.s = 0 <=> w = "adopter")
    /\ p.pc = "rename" => p.copy # None /\ Genuine(w, p.copy.man)
    /\ p.pc = "record" => Valid(p.s)
    /\ c # None => Genuine(w, c.man)

PubInv == \A w \in Writers : Fine(w, pub[w], cands[w])

RelInv == ReportsAreAdopted /\ OneSource

(* Nothing is recorded of a stamp that is still to come, and what is        *)
(* recorded of the present one is so.                                       *)
RecordInv ==
    /\ current # None => rel[current] # None
    /\ api.pc = "check" => /\ api.key \in Sessions \X Nat /\ rel[api.key[1]] # None
                           /\ api.key[2] <= rel[api.key[1]].stamp
    /\ \A k \in cache : /\ rel[k[1]] # None /\ k[2] <= rel[k[1]].stamp
                        /\ k[2] = rel[k[1]].stamp => Valid(k[1])
    /\ \A s \in Sessions : side[s] # None => /\ rel[s] # None /\ side[s] <= rel[s].stamp
                                             /\ side[s] = rel[s].stamp => Valid(s)

(* A build reads from the release it is bound to, and from a checkout that  *)
(* only moves on.                                                           *)
BuildInv ==
    /\ build.pc # "idle" =>
          /\ build.bind # None /\ rel[build.bind.session] # None
          /\ Served(build.bind.tree[1].reports)
          /\ rel[build.bind.session].payload.reports \in {build.bind.tree[1].reports, Bad}
    /\ build.pc \in {"copy", "app", "assets", "seal"} =>
          /\ build.identity # None /\ build.identity.commit <= head
          /\ build.identity.assets = AssetsOf(build.identity.commit)
    /\ build.pc \in {"app", "assets", "seal"} =>
          \/ build.payload.reports = build.bind.tree[1].reports
          \/ build.payload.reports = Bad /\ rel[build.bind.session].payload.reports = Bad
    /\ build.pc \in {"assets", "seal"} /\ clean /\ head = build.identity.commit =>
          build.payload.app = build.identity.commit

(* Files only move on: what was scanned, and is found again, was there      *)
(* together when the scan ended.                                            *)
FlatInv ==
    /\ flat \in instants
    /\ ad.pc = "scan" => \A f \in FlatFiles : ad.read[f] # None => ad.read[f] <= flat[f]
    /\ ad.pc \in {"copy", "rescan"} =>
          \E i \in instants : \A f \in FlatFiles :
              /\ ad.scan[f] # None /\ ad.scan[f] <= i[f] /\ i[f] <= flat[f]
              /\ ad.pc = "rescan" /\ ad.read[f] # None => i[f] <= ad.read[f]
    /\ ad.pc \in {"check", "recheck", "build"} => ad.scan \in instants

Inv == TypeOK /\ PubInv /\ RelInv /\ RecordInv /\ BuildInv /\ FlatInv

-----------------------------------------------------------------------------
(* Types *)

Progress == [pc : PubPlaces, s : Sessions, switch : BOOLEAN,
             man : Manifest \cup {None}, copy : Copy \cup {None}]
Adopter == [pc : Passes \cup {"idle", "build"},
            read : [FlatFiles -> Nat \cup {None}], plan : [FlatFiles -> Nat \cup {None}],
            scan : [FlatFiles -> Nat \cup {None}],
            stage : [page : Reports, asset : Nat \cup {None}]]
Builder == [pc : BuildPlaces, bind : Binding \cup {None},
            identity : Identity \cup {None}, payload : Payload]

LEMMA SessionsNat == Sessions \subseteq Nat /\ 0 \in Sessions
  BY PublicationAssumption DEF Sessions

LEMMA AssetsType ==
    ASSUME NEW n \in Nat
    PROVE  AssetsOf(n) \in Nat
  BY DEF AssetsOf

LEMMA IdleTypes ==
    Idle \in Progress /\ AdopterIdle \in Adopter /\ BuilderIdle \in Builder
  <1>1. Idle \in Progress
    BY SessionsNat DEF Idle, Progress, PubPlaces
  <1>2. AdopterIdle \in Adopter
    BY DEF AdopterIdle, Adopter, NothingRead, Reports, FlatFiles
  <1>3. BuilderIdle \in Builder
    BY DEF BuilderIdle, Builder, BuildPlaces, NoPayload, Payload, Reports
  <1> QED
    BY <1>1, <1>2, <1>3

(* The parts of TypeOK. *)
LEMMA Typed ==
    ASSUME TypeOK
    PROVE  /\ head \in Nat
           /\ rel \in [Sessions -> Release \cup {None}] /\ side \in [Sessions -> Nat \cup {None}]
           /\ cands \in [Writers -> Candidate \cup {None}] /\ pub \in [Writers -> Progress]
           /\ ad \in Adopter /\ build \in Builder
           /\ \A s \in Sessions : rel[s] # None => rel[s] \in Release
           /\ \A w \in Writers : cands[w] # None => cands[w] \in Candidate
           /\ \A w \in Writers : pub[w] \in Progress
           /\ build.bind # None => build.bind \in Binding /\ build.bind.session \in Sessions
           /\ build.identity # None => build.identity \in Identity
           /\ current # None => current \in Sessions
           /\ \A k \in cache : k[1] \in Sessions /\ k[2] \in Nat
           /\ instants \subseteq [FlatFiles -> Nat] /\ flat \in [FlatFiles -> Nat]
  BY DEF TypeOK, Progress, Adopter, Builder, Binding

(* What belongs to a type belongs to something. *)
LEMMA NotNone ==
    /\ \A r \in Release : r # None
    /\ \A r \in Candidate : r # None
    /\ \A r \in Copy : r # None
    /\ \A r \in Binding : r # None
    /\ \A r \in Identity : r # None
    /\ \A n \in Nat : n # None
  BY NoneAssumption

(* The manifest of a Candidate covers exactly its payload. *)
LEMMA VerifiedFiles ==
    ASSUME NEW w, NEW payload, NEW man, NEW evidence, CandidateTrusted(w, payload, man, evidence)
    PROVE  man.files = payload
  BY DEF CandidateTrusted, VerifyManifest

(* Files of a release change, or are touched. *)
Altered(s, r) ==
    /\ rel[s] # None /\ r \in Release /\ rel' = [rel EXCEPT ![s] = r]
    /\ r.man = rel[s].man /\ r.declared = rel[s].declared /\ r.stamp = rel[s].stamp + 1
    /\ r.payload.reports \in {rel[s].payload.reports, Bad}
    /\ Recording(s) => r.payload = rel[s].payload
    /\ UNCHANGED <<side, current, cands, pub, apiVars>>

LEMMA AlteredOf ==
    ASSUME TypeOK, NEW s \in Sessions, Touch(s) \/ \E p \in TamperParts : Tamper(s, p)
    PROVE  \E r : Altered(s, r)
  <1>t. rel[s] \in Release /\ rel[s] # None
    BY Typed DEF Touch, Tamper
  <1>1. CASE Touch(s)
    <2>1. PICK r : r = [rel[s] EXCEPT !.stamp = rel[s].stamp + 1]
      OBVIOUS
    <2>2. /\ r \in Release /\ r.man = rel[s].man /\ r.declared = rel[s].declared
          /\ r.stamp = rel[s].stamp + 1 /\ r.payload = rel[s].payload
      BY <1>t, <2>1 DEF Release
    <2>3. rel' = [rel EXCEPT ![s] = r]
      BY <1>1, <2>1 DEF Touch
    <2>4. UNCHANGED <<side, current, cands, pub, apiVars>>
      BY <1>1 DEF Touch
    <2> QED
      BY <1>t, <2>2, <2>3, <2>4 DEF Altered
  <1>2. ASSUME NEW p \in TamperParts, Tamper(s, p)
        PROVE  \E r : Altered(s, r)
    <2>1. PICK y : y = [rel[s].payload EXCEPT ![p] = Bad]
      OBVIOUS
    <2>2. p \in {"reports", "assets", "app"}
      BY PublicationAssumption DEF Parts
    <2>3. y \in Payload /\ y.reports \in {rel[s].payload.reports, Bad}
      <3>1. rel[s].payload \in Payload
        BY <1>t DEF Release
      <3> QED
        BY <2>1, <2>2, <3>1 DEF Payload, Reports
    <2>4. PICK r : r = [rel[s] EXCEPT !.payload = y, !.stamp = rel[s].stamp + 1]
      OBVIOUS
    <2>5. /\ r \in Release /\ r.man = rel[s].man /\ r.declared = rel[s].declared
          /\ r.stamp = rel[s].stamp + 1 /\ r.payload = y
      <3>1. rel[s].stamp + 1 \in Nat
        BY <1>t DEF Release
      <3>2. PICK n : n = rel[s].stamp + 1
        OBVIOUS
      <3>3. /\ r.man = rel[s].man /\ r.declared = rel[s].declared
            /\ r.stamp = n /\ r.payload = y
        BY <1>t, <2>4, <3>2 DEF Release
      <3>4. r \in Release
        BY <1>t, <2>3, <2>4, <3>1, <3>2 DEF Release
      <3> QED
        BY <3>2, <3>3, <3>4
    <2>6. rel' = [rel EXCEPT ![s] = r]
      BY <1>2, <1>t, <2>1, <2>4, Typed DEF Tamper
    <2>7. ~Recording(s) /\ UNCHANGED <<side, current, cands, pub, apiVars>>
      BY <1>2 DEF Tamper
    <2> QED
      BY <1>t, <2>3, <2>5, <2>6, <2>7 DEF Altered
  <1> QED
    BY <1>1, <1>2

-----------------------------------------------------------------------------
(* The types by component *)

SourceType == head \in Nat /\ clean \in BOOLEAN
DiskType == /\ rel \in [Sessions -> Release \cup {None}]
            /\ side \in [Sessions -> Nat \cup {None}]
            /\ current \in Sessions \cup {None}
            /\ cands \in [Writers -> Candidate \cup {None}]
PubType == pub \in [Writers -> Progress]
ApiType == /\ cache \subseteq Sessions \X Nat
           /\ api \in [pc : {"idle", "check"}, key : (Sessions \X Nat) \cup {None}]
FlatType == /\ flat \in [FlatFiles -> Nat] /\ instants \subseteq [FlatFiles -> Nat]
            /\ ad \in Adopter
BuildType == build \in Builder

Types == SourceType /\ DiskType /\ PubType /\ ApiType /\ FlatType /\ BuildType

LEMMA TypesAreTypeOK == TypeOK <=> Types
  BY DEF Types, TypeOK, SourceType, DiskType, PubType, ApiType, FlatType, BuildType,
         Progress, Adopter, Builder

LEMMA TypesAreTypeOKNext == TypeOK' <=> Types'
  BY DEF Types, TypeOK, SourceType, DiskType, PubType, ApiType, FlatType, BuildType,
         Progress, Adopter, Builder

LEMMA TypesKept ==
    ASSUME Types
    PROVE  /\ UNCHANGED sourceVars => SourceType'
           /\ UNCHANGED diskVars => DiskType'
           /\ UNCHANGED pub => PubType'
           /\ UNCHANGED apiVars => ApiType'
           /\ UNCHANGED adoptionVars => FlatType'
           /\ UNCHANGED build => BuildType'
  BY DEF Types, SourceType, DiskType, PubType, ApiType, FlatType, BuildType,
         sourceVars, diskVars, apiVars, adoptionVars

-----------------------------------------------------------------------------
(* What a step leaves alone *)

(* Every step: releases stay, and their reports are what they were or       *)
(* foreign bytes; the checkout only moves on; moments are not forgotten.    *)
RelKept ==
    \A s \in Sessions : rel[s] # None =>
        rel'[s] # None /\ rel'[s].payload.reports \in {rel[s].payload.reports, Bad}
SourceKept == head <= head' /\ (clean' => clean)
Remembered == instants \subseteq instants'

LEMMA SameIsKept ==
    /\ UNCHANGED rel => RelKept
    /\ TypeOK /\ UNCHANGED sourceVars => SourceKept
    /\ UNCHANGED instants => Remembered
  BY Typed DEF RelKept, SourceKept, Remembered, sourceVars

(* Valid is about the files of the release. *)
LEMMA ValidSame ==
    ASSUME NEW s, rel'[s] = rel[s]
    PROVE  Valid(s)' <=> Valid(s)
  BY DEF Valid, Declared, VerifyManifest, TrustedProvenance, ReleaseAssetsMatch, ApplicationValid

LEMMA ServedKept ==
    ASSUME Remembered, NEW reports, Served(reports)
    PROVE  Served(reports)'
  BY DEF Remembered, Served

LEMMA GenuineKept ==
    ASSUME Remembered, NEW w, NEW man, Genuine(w, man)
    PROVE  Genuine(w, man)'
  BY DEF Remembered, Served, Genuine, OneCommit

LEMMA FrameBuild ==
    ASSUME TypeOK, TypeOK', BuildInv, RelKept, SourceKept, Remembered, UNCHANGED build
    PROVE  BuildInv'
  <1>k. head \in Nat /\ head' \in Nat
    BY DEF TypeOK
  <1> DEFINE b == build.bind.session
  <1>1. build.pc # "idle" =>
          /\ build.bind # None /\ b \in Sessions /\ rel[b] # None /\ rel'[b] # None
          /\ rel'[b].payload.reports \in {rel[b].payload.reports, Bad}
    BY Typed DEF BuildInv, RelKept
  <1>2. ASSUME build.pc # "idle"
        PROVE  /\ Served(build.bind.tree[1].reports)'
               /\ rel'[b].payload.reports \in {build.bind.tree[1].reports, Bad}
    <2>1. PICK reports : reports = build.bind.tree[1].reports
      OBVIOUS
    <2>2. Served(reports)'
      BY <1>2, <2>1, ServedKept DEF BuildInv
    <2> QED
      BY <1>1, <1>2, <2>1, <2>2 DEF BuildInv
  <1>3. ASSUME build.pc \in {"copy", "app", "assets", "seal"}
        PROVE  /\ build.identity # None /\ build.identity.commit <= head'
               /\ build.identity.assets = AssetsOf(build.identity.commit)
    <2>1. build.identity # None /\ build.identity.commit <= head
          /\ build.identity.assets = AssetsOf(build.identity.commit)
      BY <1>3 DEF BuildInv
    <2>2. build.identity.commit \in Nat
      BY <2>1, Typed DEF Identity
    <2> QED
      BY <1>k, <2>1, <2>2 DEF SourceKept
  <1>4. ASSUME build.pc \in {"app", "assets", "seal"}
        PROVE  \/ build.payload.reports = build.bind.tree[1].reports
               \/ build.payload.reports = Bad /\ rel'[b].payload.reports = Bad
    BY <1>1, <1>4 DEF BuildInv
  <1>5. ASSUME build.pc \in {"assets", "seal"}, clean', head' = build.identity.commit
        PROVE  build.payload.app = build.identity.commit
    <2>1. build.identity # None /\ build.identity.commit <= head
      BY <1>5 DEF BuildInv
    <2>2. build.identity.commit \in Nat
      BY <2>1, Typed DEF Identity
    <2>3. head = build.identity.commit /\ clean
      BY <1>k, <1>5, <2>1, <2>2 DEF SourceKept
    <2> QED
      BY <1>5, <2>3 DEF BuildInv
  <1> QED
    BY <1>1, <1>2, <1>3, <1>4, <1>5 DEF BuildInv, Served

LEMMA FineAt ==
    ASSUME NEW w \in Writers, NEW p, NEW c, pub'[w] = p, cands'[w] = c, Fine(w, p, c)'
    PROVE  Fine(w, pub[w], cands[w])'
  BY DEF Fine, Genuine, Served, OneCommit, Valid, Declared, VerifyManifest, TrustedProvenance,
         ReleaseAssetsMatch, ApplicationValid

LEMMA FineKept ==
    ASSUME Remembered, NEW w, NEW p, NEW c, Fine(w, p, c), p.pc = "record" => Valid(p.s)'
    PROVE  Fine(w, p, c)'
  <1>1. /\ p.pc = "rename" => Genuine(w, p.copy.man)'
        /\ c # None => Genuine(w, c.man)'
    BY GenuineKept DEF Fine
  <1> QED
    BY <1>1 DEF Fine

(* A writer that a step leaves alone. *)
LEMMA FrameWriter ==
    ASSUME PubInv, Remembered, NEW w \in Writers, pub'[w] = pub[w], cands'[w] = cands[w],
           \A s : s = pub[w].s /\ pub[w].pc = "record" /\ Valid(s) => Valid(s)'
    PROVE  Fine(w, pub[w], cands[w])'
  <1>1. PICK p : p = pub[w]
    OBVIOUS
  <1>2. PICK c : c = cands[w]
    OBVIOUS
  <1>3. PICK s : s = p.s
    OBVIOUS
  <1>4. Fine(w, p, c)
    BY <1>1, <1>2 DEF PubInv
  <1>5. p.pc = "record" => Valid(s)
    BY <1>3, <1>4 DEF Fine
  <1>6. p.pc = "record" => Valid(s)'
    BY <1>1, <1>3, <1>5
  <1>7. Fine(w, p, c)'
    BY <1>3, <1>4, <1>6, FineKept
  <1> QED
    BY <1>1, <1>2, <1>7, FineAt

LEMMA FramePub ==
    ASSUME PubInv, Remembered, UNCHANGED <<pub, cands>>,
           \A w \in Writers : \A s : s = pub[w].s /\ pub[w].pc = "record" /\ Valid(s) => Valid(s)'
    PROVE  PubInv'
  BY FrameWriter DEF PubInv

LEMMA FrameRel ==
    ASSUME RelInv, Remembered, UNCHANGED rel
    PROVE  RelInv'
  BY DEF RelInv, ReportsAreAdopted, OneSource, Remembered

LEMMA FrameRecord ==
    ASSUME RecordInv, UNCHANGED <<rel, side, current, apiVars>>
    PROVE  RecordInv'
  <1>1. \A s : Valid(s)' <=> Valid(s)
    BY ValidSame
  <1> QED
    BY <1>1 DEF RecordInv, apiVars

LEMMA FrameFlat ==
    ASSUME FlatInv, UNCHANGED adoptionVars
    PROVE  FlatInv'
  BY DEF FlatInv, adoptionVars

-----------------------------------------------------------------------------
(* The builder *)

(* A step of the builder alone. *)
LEMMA BuilderAlone ==
    ASSUME Inv, UNCHANGED otherVars, build' \in Builder, BuildInv'
    PROVE  Inv'
  <1>u. UNCHANGED <<sourceVars, diskVars, pub, apiVars, adoptionVars>>
    BY DEF otherVars, publicationVars
  <1>1. Types'
    BY <1>u, TypesAreTypeOK, TypesKept DEF Inv, Types, BuildType
  <1>2. TypeOK'
    BY <1>1, TypesAreTypeOKNext
  <1>r. UNCHANGED <<rel, side, current, cands, instants>> /\ Remembered
    BY <1>u DEF diskVars, adoptionVars, Remembered
  <1>3. PubInv'
    <2>1. \A s : Valid(s) => Valid(s)'
      BY <1>r, ValidSame
    <2> QED
      BY <1>u, <1>r, <2>1, FramePub DEF Inv
  <1>4. RelInv'
    BY <1>r, FrameRel DEF Inv
  <1>5. RecordInv'
    BY <1>u, <1>r, FrameRecord DEF Inv
  <1>6. FlatInv'
    BY <1>u, FrameFlat DEF Inv
  <1> QED
    BY <1>2, <1>3, <1>4, <1>5, <1>6 DEF Inv

LEMMA IdleBuildInv ==
    ASSUME build' = BuilderIdle
    PROVE  build' \in Builder /\ BuildInv'
  BY IdleTypes DEF BuildInv, BuilderIdle

(* What the bound release declares was served, and its payload is that. *)
LEMMA BoundIsServed ==
    ASSUME Inv, CurrentIsBindable
    PROVE  /\ current \in Sessions /\ rel[current] \in Release
           /\ Served(rel[current].payload.reports)
  <1>1. current \in Sessions /\ rel[current] # None /\ rel[current] \in Release
    BY Typed DEF Inv, CurrentIsBindable, Valid
  <1>2. rel[current].declared.reports = rel[current].payload.reports
    BY DEF CurrentIsBindable, Valid, Declared
  <1>3. \E i \in instants : rel[current].declared.reports = Staged("page", i["page"])
    BY <1>1 DEF Inv, RelInv, ReportsAreAdopted
  <1> QED
    BY <1>1, <1>2, <1>3 DEF Served

LEMMA BindStep ==
    ASSUME Inv, BindServedRoot
    PROVE  Inv'
  <1>1. /\ current \in Sessions /\ rel[current] \in Release /\ rel[current] # None
        /\ Served(rel[current].payload.reports) /\ UNCHANGED otherVars
    BY BoundIsServed, NotNone DEF BindServedRoot
  <1>2. PICK b : b = ServedRootBinding
    OBVIOUS
  <1>3. b \in Binding
    <2>1. side[current] \in Nat \cup {None}
      BY <1>1, Typed DEF Inv
    <2>2. /\ rel[current].payload \in Payload /\ rel[current].man \in Manifest
          /\ rel[current].man.identity.commit \in Nat
      BY <1>1 DEF Release, Manifest, Identity
    <2> QED
      BY <1>1, <1>2, <2>1, <2>2 DEF ServedRootBinding, Binding, ServedTree
  <1>4. /\ build' \in Builder /\ build'.pc = "identity" /\ build'.bind = b
    <2>1. build' = [BuilderIdle EXCEPT !.pc = "identity", !.bind = b]
      BY <1>2 DEF BindServedRoot
    <2> QED
      BY <1>3, <2>1, IdleTypes DEF Builder, BuildPlaces
  <1>5. /\ b # None /\ b.session = current /\ b.tree[1] = rel[current].payload
    BY <1>2, <1>3, NotNone DEF ServedRootBinding, ServedTree
  <1>6. rel' = rel /\ instants' = instants
    BY <1>1 DEF otherVars, publicationVars, diskVars, adoptionVars
  <1>7. BuildInv'
    BY <1>1, <1>4, <1>5, <1>6 DEF BuildInv, Served
  <1> QED
    BY <1>1, <1>4, <1>7, BuilderAlone

LEMMA IdentityStep ==
    ASSUME Inv, MakeIdentity
    PROVE  Inv'
  <1>u. UNCHANGED otherVars
    BY DEF MakeIdentity
  <1>1. CASE build' = BuilderIdle
    BY <1>u, <1>1, IdleBuildInv, BuilderAlone
  <1>2. CASE build' # BuilderIdle
    <2>1. build.pc = "identity" /\ build' = [build EXCEPT !.pc = "copy", !.identity = GenerateIdentity]
      BY <1>2 DEF MakeIdentity, FailBuild
    <2>2. PICK y : y = GenerateIdentity
      OBVIOUS
    <2>3. y \in Identity /\ y.commit = head /\ y.assets = AssetsOf(head) /\ head \in Nat
      BY <2>2, Typed, AssetsType DEF Inv, GenerateIdentity, IdentityOf, Identity, Assets
    <2>4. /\ build' \in Builder /\ build'.pc = "copy" /\ build'.identity = y
          /\ build'.bind = build.bind
      BY <2>1, <2>2, <2>3, Typed DEF Inv, Builder, BuildPlaces
    <2>5. rel' = rel /\ instants' = instants /\ head' = head
      BY <1>u DEF otherVars, publicationVars, diskVars, adoptionVars, sourceVars
    <2>6. y # None
      BY <2>3, NotNone
    <2>7. BuildInv'
      BY <2>1, <2>3, <2>4, <2>5, <2>6 DEF Inv, BuildInv, Served
    <2> QED
      BY <1>u, <2>4, <2>7, BuilderAlone
  <1> QED
    BY <1>1, <1>2

LEMMA CopyRootStep ==
    ASSUME Inv, CopyServedRoot
    PROVE  Inv'
  <1>u. UNCHANGED otherVars
    BY DEF CopyServedRoot
  <1>1. CASE build' = BuilderIdle
    BY <1>u, <1>1, IdleBuildInv, BuilderAlone
  <1>2. CASE build' # BuilderIdle
    <2>1. PICK x : x = rel[build.bind.session].payload.reports
      OBVIOUS
    <2>2. /\ build.pc = "copy" /\ build' = [build EXCEPT !.pc = "app", !.payload.reports = x]
      BY <1>2, <2>1 DEF CopyServedRoot, FailBuild
    <2>3. x \in Reports /\ x \in {build.bind.tree[1].reports, Bad}
      <3>1. rel[build.bind.session] # None /\ build.bind # None /\ x \in {build.bind.tree[1].reports, Bad}
        BY <2>1, <2>2 DEF Inv, BuildInv
      <3>2. rel[build.bind.session] \in Release
        BY <3>1, Typed DEF Inv
      <3> QED
        BY <2>1, <3>1, <3>2 DEF Release, Payload
    <2>4. /\ build' \in Builder /\ build'.pc = "app" /\ build'.identity = build.identity
          /\ build'.bind = build.bind /\ build'.payload.reports = x
      <3>1. PICK y : y = [build.payload EXCEPT !.reports = x]
        OBVIOUS
      <3>2. build \in Builder
        BY Typed DEF Inv
      <3>3. y \in Payload /\ y.reports = x
        BY <2>3, <3>1, <3>2 DEF Builder, Payload
      <3>4. build' = [build EXCEPT !.pc = "app", !.payload = y]
        BY <2>2, <3>1, <3>2 DEF Builder
      <3> QED
        BY <3>2, <3>3, <3>4 DEF Builder, BuildPlaces
    <2>5. rel' = rel /\ instants' = instants /\ head' = head
      BY <1>u DEF otherVars, publicationVars, diskVars, adoptionVars, sourceVars
    <2>7. BuildInv'
      BY <2>1, <2>2, <2>3, <2>4, <2>5 DEF Inv, BuildInv, Served
    <2> QED
      BY <1>u, <2>4, <2>7, BuilderAlone
  <1> QED
    BY <1>1, <1>2

LEMMA CopyAppStep ==
    ASSUME Inv, CopyApplication
    PROVE  Inv'
  <1>u. UNCHANGED otherVars
    BY DEF CopyApplication
  <1>1. CASE build' = BuilderIdle
    BY <1>u, <1>1, IdleBuildInv, BuilderAlone
  <1>2. CASE build' # BuilderIdle
    <2>1. PICK x : x = Tree
      OBVIOUS
    <2>2. /\ build.pc = "app" /\ build' = [build EXCEPT !.pc = "assets", !.payload.app = x]
      BY <1>2, <2>1 DEF CopyApplication, FailBuild
    <2>3. x \in Nat \cup {None, Bad, Dirty} /\ (clean => x = head)
      BY <2>1, Typed DEF Inv, Tree
    <2>4. /\ build' \in Builder /\ build'.pc = "assets" /\ build'.identity = build.identity
          /\ build'.bind = build.bind /\ build'.payload.reports = build.payload.reports
          /\ build'.payload.app = x
      <3>1. PICK y : y = [build.payload EXCEPT !.app = x]
        OBVIOUS
      <3>2. build \in Builder
        BY Typed DEF Inv
      <3>3. y \in Payload /\ y.reports = build.payload.reports /\ y.app = x
        BY <2>3, <3>1, <3>2 DEF Builder, Payload
      <3>4. build' = [build EXCEPT !.pc = "assets", !.payload = y]
        BY <2>2, <3>1, <3>2 DEF Builder
      <3> QED
        BY <3>2, <3>3, <3>4 DEF Builder, BuildPlaces
    <2>5. rel' = rel /\ instants' = instants /\ head' = head /\ clean' = clean
      BY <1>u DEF otherVars, publicationVars, diskVars, adoptionVars, sourceVars
    <2>7. BuildInv'
      BY <2>2, <2>3, <2>4, <2>5 DEF Inv, BuildInv, Served
    <2> QED
      BY <1>u, <2>4, <2>7, BuilderAlone
  <1> QED
    BY <1>1, <1>2

LEMMA RefreshStep ==
    ASSUME Inv, RefreshAssets
    PROVE  Inv'
  <1>u. UNCHANGED otherVars
    BY DEF RefreshAssets
  <1>1. CASE build' = BuilderIdle
    BY <1>u, <1>1, IdleBuildInv, BuilderAlone
  <1>2. CASE build' # BuilderIdle
    <2>1. PICK x : x = Assets
      OBVIOUS
    <2>2. /\ build.pc = "assets" /\ build' = [build EXCEPT !.pc = "seal", !.payload.assets = x]
      BY <1>2, <2>1 DEF RefreshAssets, FailBuild
    <2>3. x \in Nat
      BY <2>1, Typed, AssetsType DEF Inv, Assets
    <2>4. /\ build' \in Builder /\ build'.pc = "seal" /\ build'.identity = build.identity
          /\ build'.bind = build.bind /\ build'.payload.reports = build.payload.reports
          /\ build'.payload.app = build.payload.app
      <3>1. PICK y : y = [build.payload EXCEPT !.assets = x]
        OBVIOUS
      <3>2. build \in Builder
        BY Typed DEF Inv
      <3>3. y \in Payload /\ y.reports = build.payload.reports /\ y.app = build.payload.app
        BY <2>3, <3>1, <3>2 DEF Builder, Payload
      <3>4. build' = [build EXCEPT !.pc = "seal", !.payload = y]
        BY <2>2, <3>1, <3>2 DEF Builder
      <3> QED
        BY <3>2, <3>3, <3>4 DEF Builder, BuildPlaces
    <2>5. rel' = rel /\ instants' = instants /\ head' = head /\ clean' = clean
      BY <1>u DEF otherVars, publicationVars, diskVars, adoptionVars, sourceVars
    <2>7. BuildInv'
      BY <2>2, <2>4, <2>5 DEF Inv, BuildInv, Served
    <2> QED
      BY <1>u, <2>4, <2>7, BuilderAlone
  <1> QED
    BY <1>1, <1>2

(* What is sealed: the reports of the release CURRENT still names, and the  *)
(* application and the assets of the commit the checkout is still on.       *)
LEMMA SealedIsGenuine ==
    ASSUME Inv, build.pc = "seal", ServedRootUnchanged, GitProvenanceHolds(build.identity),
           NEW prov \in Provenance, prov.class = OFFLINE,
           CanBuildManifest(build.payload, build.identity, prov)
    PROVE  /\ build.payload \in Payload /\ build.identity \in Identity
           /\ Served(build.payload.reports)
           /\ build.payload.app = build.identity.commit
           /\ build.payload.assets = AssetsOf(build.identity.commit)
  <1>1. /\ build.payload \in Payload /\ build.identity # None /\ build.identity \in Identity
    BY Typed DEF Inv, BuildInv, Builder
  <1>2. rel[build.bind.session].payload = build.bind.tree[1]
    BY DEF ServedRootUnchanged, ServedTree
  <1>3. build.payload.reports = build.bind.tree[1].reports
    BY <1>2 DEF Inv, BuildInv
  <1>4. Served(build.payload.reports)
    BY <1>3 DEF Inv, BuildInv
  <1>5. build.payload.app = build.identity.commit
    BY DEF Inv, BuildInv, GitProvenanceHolds
  <1>6. build.payload.assets = AssetsOf(build.identity.commit)
    BY DEF Inv, BuildInv, CanBuildManifest, ReleaseAssetsMatch, OFFLINE, BOOTSTRAP
  <1> QED
    BY <1>1, <1>4, <1>5, <1>6

LEMMA DiesStep ==
    ASSUME Inv, BuilderDies
    PROVE  Inv'
  BY IdleBuildInv, BuilderAlone DEF BuilderDies, FailBuild, Inv, otherVars, publicationVars

(* A step of a writer, or of whoever makes its Candidate, that changes no   *)
(* release.                                                                 *)
LEMMA WriterStep ==
    ASSUME Inv, UNCHANGED <<sourceVars, rel, apiVars, flat, instants>>,
           side' \in [Sessions -> Nat \cup {None}], current' \in Sessions \cup {None},
           cands' \in [Writers -> Candidate \cup {None}], pub' \in [Writers -> Progress],
           ad' \in Adopter, FlatInv', PubInv', RecordInv', build' \in Builder, build' = build \/ build' = BuilderIdle
    PROVE  Inv'
  <1>1. DiskType'
    BY TypesAreTypeOK DEF Inv, Types, DiskType
  <1>2. Types'
    BY <1>1, TypesAreTypeOK, TypesKept DEF Inv, Types, BuildType, PubType, FlatType
  <1>3. TypeOK'
    BY <1>2, TypesAreTypeOKNext
  <1>4. RelKept /\ SourceKept /\ Remembered
    BY SameIsKept DEF Inv
  <1>5. BuildInv'
    BY <1>3, <1>4, FrameBuild, IdleBuildInv DEF Inv
  <1>6. RelInv'
    BY <1>4, FrameRel DEF Inv
  <1> QED
    BY <1>3, <1>5, <1>6 DEF Inv

LEMMA SealStep ==
    ASSUME Inv, SealCandidate
    PROVE  Inv'
  <1>u. /\ UNCHANGED <<sourceVars, rel, side, current, pub, apiVars, adoptionVars>>
        /\ build' = BuilderIdle /\ build.pc = "seal" /\ pub["publisher"].pc = "idle"
    BY DEF SealCandidate, FailBuild
  <1>r. Remembered /\ \A s : Valid(s) => Valid(s)'
    BY <1>u, SameIsKept, ValidSame DEF adoptionVars
  <1>t. /\ build' \in Builder /\ pub' \in [Writers -> Progress]
        /\ side' \in [Sessions -> Nat \cup {None}] /\ current' \in Sessions \cup {None}
        /\ UNCHANGED <<flat, instants>> /\ ad' \in Adopter
    BY <1>u, IdleTypes, Typed DEF Inv, adoptionVars
  <1>f. FlatInv' /\ RecordInv'
    BY <1>u, FrameFlat, FrameRecord DEF Inv
  <1>1. CASE cands' = cands
    <2>1. PubInv'
      BY <1>u, <1>r, <1>1, FramePub DEF Inv
    <2>2. cands' \in [Writers -> Candidate \cup {None}]
      BY <1>1, Typed DEF Inv
    <2> QED
      BY <1>u, <1>t, <1>f, <2>1, <2>2, WriterStep
  <1>2. CASE cands' # cands
    <2>1. PICK prov : prov = GitProvenance(build.identity, build.bind)
      OBVIOUS
    <2>2. PICK man : man = BuildManifest(build.payload, build.identity, prov)
      OBVIOUS
    <2>3. PICK c : c = [payload |-> build.payload, identity |-> build.identity, man |-> man,
                        evidence |-> OfflineEvidence(man)]
      OBVIOUS
    <2>4. /\ ServedRootUnchanged /\ GitProvenanceHolds(build.identity)
          /\ CanBuildManifest(build.payload, build.identity, prov)
          /\ cands' = [cands EXCEPT !["publisher"] = c]
      BY <1>2, <2>1, <2>2, <2>3 DEF SealCandidate
    <2>5. prov \in Provenance /\ prov.class = OFFLINE
      <3>1. build.identity \in Identity /\ build.bind \in Binding
        BY <1>u, Typed DEF Inv, BuildInv
      <3>2. /\ build.identity.commit \in Nat /\ build.bind.session \in Sessions
            /\ build.bind.commit \in Nat
        BY <3>1 DEF Identity, Binding
      <3> QED
        BY <2>1, <3>2 DEF GitProvenance, Provenance
    <2>6. /\ build.payload \in Payload /\ build.identity \in Identity
          /\ Served(build.payload.reports)
          /\ build.payload.app = build.identity.commit
          /\ build.payload.assets = AssetsOf(build.identity.commit)
      BY <1>u, <2>4, <2>5, SealedIsGenuine
    <2>7. man \in Manifest /\ man.files = build.payload /\ man.identity = build.identity
      BY <2>2, <2>5, <2>6 DEF BuildManifest, Manifest
    <2>8. OfflineEvidence(man) \in [commit : Nat, files : Payload]
      <3>1. man.prov.commit \in Nat /\ man.files \in Payload
        BY <2>7 DEF Manifest, Provenance
      <3> QED
        BY <3>1 DEF OfflineEvidence
    <2>9. c \in Candidate /\ c.man = man
      BY <2>3, <2>6, <2>7, <2>8 DEF Candidate
    <2>10. cands' \in [Writers -> Candidate \cup {None}]
      BY <2>4, <2>9, Typed DEF Inv
    <2>11. Genuine("publisher", man)
      BY <2>6, <2>7 DEF Genuine, OneCommit
    <2>12. PubInv'
      <3> SUFFICES ASSUME NEW w \in Writers
                   PROVE  Fine(w, pub[w], cands[w])'
        BY DEF PubInv
      <3>1. CASE w = "adopter"
        <4>1. cands'[w] = cands[w] /\ pub'[w] = pub[w]
          BY <1>u, <2>4, <3>1, Typed DEF Inv
        <4> QED
          BY <1>r, <4>1, FrameWriter DEF Inv
      <3>2. CASE w = "publisher"
        <4>1. PICK p : p = pub[w]
          OBVIOUS
        <4>2. p.pc = "idle" /\ pub'[w] = p /\ cands'[w] = c
          BY <1>u, <2>4, <3>2, <4>1, Typed DEF Inv, Writers
        <4>3. Genuine(w, c.man)'
          BY <1>r, <2>9, <2>11, <3>2, GenuineKept
        <4>4. Fine(w, p, c)'
          BY <4>2, <4>3 DEF Fine
        <4> QED
          BY <4>2, <4>4, FineAt
      <3> QED
        BY <3>1, <3>2 DEF Writers
    <2> QED
      BY <1>u, <1>t, <1>f, <2>10, <2>12, WriterStep
  <1> QED
    BY <1>1, <1>2

LEMMA BuildStep ==
    ASSUME Inv, Build
    PROVE  Inv'
  BY BindStep, IdentityStep, CopyRootStep, CopyAppStep, RefreshStep, SealStep, DiesStep DEF Build

-----------------------------------------------------------------------------
(* The adopter *)

LEMMA AdopterAlone ==
    ASSUME Inv, UNCHANGED <<sourceVars, diskVars, pub, apiVars, build>>, Remembered,
           flat' \in [FlatFiles -> Nat], instants' \subseteq [FlatFiles -> Nat], ad' \in Adopter,
           FlatInv'
    PROVE  Inv'
  <1>1. Types'
    BY TypesAreTypeOK, TypesKept DEF Inv, Types, FlatType
  <1>2. TypeOK'
    BY <1>1, TypesAreTypeOKNext
  <1>r. UNCHANGED <<rel, side, current, cands>>
    BY DEF diskVars
  <1>3. PubInv'
    <2>1. \A s : Valid(s) => Valid(s)'
      BY <1>r, ValidSame
    <2> QED
      BY <1>r, <2>1, FramePub DEF Inv
  <1>4. RelInv'
    BY <1>r, FrameRel DEF Inv
  <1>5. RecordInv'
    BY <1>r, FrameRecord DEF Inv
  <1>6. BuildInv'
    BY <1>2, <1>r, SameIsKept, FrameBuild DEF Inv
  <1> QED
    BY <1>2, <1>3, <1>4, <1>5, <1>6 DEF Inv

(* The adopter gives up, or begins. *)
LEMMA AdopterAt ==
    ASSUME Inv, UNCHANGED <<flat, instants>>, ad'.pc \in {"idle", "plan"}
    PROVE  FlatInv'
  BY DEF Inv, FlatInv

LEMMA FlatStep ==
    ASSUME Inv, NEW f \in FlatFiles, FlatChanges(f), UNCHANGED build
    PROVE  Inv'
  <1>u. UNCHANGED <<sourceVars, diskVars, pub, apiVars, ad>>
    BY DEF FlatChanges, publicationVars
  <1>t. /\ flat \in [FlatFiles -> Nat] /\ instants \subseteq [FlatFiles -> Nat]
        /\ ad \in Adopter
    BY Typed DEF Inv
  <1>1. PICK n : n = flat[f] + 1
    OBVIOUS
  <1>2. n \in Nat /\ flat[f] <= n
    BY <1>t, <1>1
  <1>3. flat' = [flat EXCEPT ![f] = n] /\ instants' = instants \cup {flat'}
    BY <1>1 DEF FlatChanges
  <1>4. flat' \in [FlatFiles -> Nat] /\ instants' \subseteq [FlatFiles -> Nat] /\ Remembered
    BY <1>t, <1>2, <1>3 DEF Remembered
  <1>5. \A g \in FlatFiles : flat[g] \in Nat /\ flat'[g] \in Nat /\ flat[g] <= flat'[g]
    BY <1>t, <1>2, <1>3
  <1>6. ASSUME ad.pc = "scan", NEW g \in FlatFiles, ad.read[g] # None
        PROVE  ad.read[g] <= flat'[g]
    <2>1. ad.read[g] <= flat[g]
      BY <1>6 DEF Inv, FlatInv
    <2>2. ad.read[g] \in Nat
      BY <1>t, <1>6 DEF Adopter
    <2> QED
      BY <1>5, <2>1, <2>2
  <1>7. ASSUME ad.pc \in {"copy", "rescan"}
        PROVE  \E i \in instants' : \A g \in FlatFiles :
                   /\ ad.scan[g] # None /\ ad.scan[g] <= i[g] /\ i[g] <= flat'[g]
                   /\ ad.pc = "rescan" /\ ad.read[g] # None => i[g] <= ad.read[g]
    <2>1. PICK i \in instants : \A g \in FlatFiles :
              /\ ad.scan[g] # None /\ ad.scan[g] <= i[g] /\ i[g] <= flat[g]
              /\ ad.pc = "rescan" /\ ad.read[g] # None => i[g] <= ad.read[g]
      BY <1>7 DEF Inv, FlatInv
    <2>2. \A g \in FlatFiles : i[g] \in Nat
      BY <1>t
    <2>3. \A g \in FlatFiles : i[g] <= flat'[g]
      BY <1>5, <2>1, <2>2
    <2> QED
      BY <1>3, <2>1, <2>3
  <1>8. ad.pc \in {"check", "recheck", "build"} => ad.scan \in instants'
    BY <1>3 DEF Inv, FlatInv
  <1>9. FlatInv'
    BY <1>u, <1>3, <1>6, <1>7, <1>8 DEF FlatInv
  <1> QED
    BY <1>u, <1>t, <1>4, <1>9, AdopterAlone

LEMMA ReadStep ==
    ASSUME Inv, NEW f \in FlatFiles, ReadFile(f), UNCHANGED build
    PROVE  Inv'
  <1>u. UNCHANGED <<sourceVars, diskVars, pub, apiVars, flat, instants>>
    BY DEF ReadFile, publicationVars
  <1>t. /\ flat \in [FlatFiles -> Nat] /\ instants \subseteq [FlatFiles -> Nat]
        /\ ad \in Adopter /\ flat[f] \in Nat
    BY Typed DEF Inv
  <1>r. Remembered
    BY <1>u, SameIsKept
  <1>1. CASE ad' = AdopterIdle
    <2>1. ad' \in Adopter /\ ad'.pc = "idle"
      BY <1>1, IdleTypes DEF AdopterIdle
    <2> QED
      BY <1>u, <1>t, <1>r, <2>1, AdopterAt, AdopterAlone
  <1>2. CASE ad' # AdopterIdle
    <2>1. PICK x : x = IF ad.pc = "copy" THEN Staged(f, flat[f]) ELSE ad.stage[f]
      OBVIOUS
    <2>2. ad' = [ad EXCEPT !.read[f] = flat[f], !.stage[f] = x]
      BY <1>2, <2>1 DEF ReadFile, GiveUp
    <2>3. PICK read : read = [ad.read EXCEPT ![f] = flat[f]]
      OBVIOUS
    <2>4. PICK stage : stage = [ad.stage EXCEPT ![f] = x]
      OBVIOUS
    <2>5. read \in [FlatFiles -> Nat \cup {None}] /\ read[f] = flat[f]
          /\ \A g \in FlatFiles : g # f => read[g] = ad.read[g]
      BY <1>t, <2>3 DEF Adopter
    <2>6. stage \in [page : Reports, asset : Nat \cup {None}]
      <3>1. ad.stage \in [page : Reports, asset : Nat \cup {None}]
        BY <1>t DEF Adopter
      <3>2. (f = "page" => x \in Reports) /\ (f = "asset" => x \in Nat \cup {None})
        BY <1>t, <2>1, <3>1 DEF Staged, Reports
      <3> QED
        BY <2>4, <3>1, <3>2 DEF FlatFiles
    <2>7. ad' = [ad EXCEPT !.read = read, !.stage = stage]
      BY <1>t, <2>2, <2>3, <2>4 DEF Adopter
    <2>8. /\ ad' \in Adopter /\ ad'.pc = ad.pc /\ ad'.read = read /\ ad'.scan = ad.scan
      BY <1>t, <2>5, <2>6, <2>7 DEF Adopter
    <2>9. ASSUME ad.pc = "scan", NEW g \in FlatFiles, read[g] # None
          PROVE  read[g] <= flat[g]
      <3>1. CASE g = f
        BY <1>t, <2>5, <3>1
      <3>2. CASE g # f
        BY <2>5, <2>9, <3>2 DEF Inv, FlatInv
      <3> QED
        BY <3>1, <3>2
    <2>10. ASSUME ad.pc \in {"copy", "rescan"}
           PROVE  \E i \in instants : \A g \in FlatFiles :
                      /\ ad.scan[g] # None /\ ad.scan[g] <= i[g] /\ i[g] <= flat[g]
                      /\ ad.pc = "rescan" /\ read[g] # None => i[g] <= read[g]
      <3>1. PICK i \in instants : \A g \in FlatFiles :
                /\ ad.scan[g] # None /\ ad.scan[g] <= i[g] /\ i[g] <= flat[g]
                /\ ad.pc = "rescan" /\ ad.read[g] # None => i[g] <= ad.read[g]
        BY <2>10 DEF Inv, FlatInv
      <3>2. \A g \in FlatFiles : ad.pc = "rescan" /\ read[g] # None => i[g] <= read[g]
        BY <2>5, <3>1
      <3> QED
        BY <3>1, <3>2
    <2>11. FlatInv'
      BY <1>u, <2>8, <2>9, <2>10 DEF Inv, FlatInv
    <2> QED
      BY <1>u, <1>t, <1>r, <2>8, <2>11, AdopterAlone
  <1> QED
    BY <1>1, <1>2

(* Every file was at its scanned version when the scan ended, for it was    *)
(* found there again.                                                       *)
LEMMA FoundAgain ==
    ASSUME Inv, ad.pc = "rescan", \A f \in FlatFiles : ad.read[f] # None, ad.read = ad.scan
    PROVE  ad.scan \in instants
  <1>1. PICK i \in instants : \A f \in FlatFiles :
            ad.scan[f] # None /\ ad.scan[f] <= i[f] /\ i[f] <= ad.scan[f]
    BY DEF Inv, FlatInv
  <1>2. /\ ad.scan \in [FlatFiles -> Nat \cup {None}] /\ i \in [FlatFiles -> Nat]
    BY Typed DEF Inv, Adopter
  <1>3. \A f \in FlatFiles : ad.scan[f] = i[f]
    <2>1. SUFFICES ASSUME NEW f \in FlatFiles
                   PROVE  ad.scan[f] = i[f]
      OBVIOUS
    <2>2. ad.scan[f] \in Nat /\ i[f] \in Nat
      BY <1>1, <1>2
    <2> QED
      BY <1>1, <2>2
  <1>4. ad.scan = i
    BY <1>2, <1>3
  <1> QED
    BY <1>1, <1>4

LEMMA EndStep ==
    ASSUME Inv, EndPass, UNCHANGED build
    PROVE  Inv'
  <1>u. UNCHANGED <<sourceVars, diskVars, pub, apiVars, flat, instants>>
    BY DEF EndPass, publicationVars
  <1>t. /\ flat \in [FlatFiles -> Nat] /\ instants \subseteq [FlatFiles -> Nat]
        /\ ad \in Adopter
    BY Typed DEF Inv
  <1>r. Remembered
    BY <1>u, SameIsKept
  <1>1. CASE ad' = AdopterIdle
    <2>1. ad' \in Adopter /\ ad'.pc = "idle"
      BY <1>1, IdleTypes DEF AdopterIdle
    <2> QED
      BY <1>u, <1>t, <1>r, <2>1, AdopterAt, AdopterAlone
  <1>2. CASE ad' # AdopterIdle
    <2>1. PICK plan : plan = IF ad.pc = "plan" THEN ad.read ELSE ad.plan
      OBVIOUS
    <2>2. PICK scan : scan = IF ad.pc = "scan" THEN ad.read ELSE ad.scan
      OBVIOUS
    <2>3. PICK pc : pc = PassAfter[ad.pc]
      OBVIOUS
    <2>4. /\ ad' = [ad EXCEPT !.pc = pc, !.read = NothingRead, !.plan = plan, !.scan = scan]
          /\ PassHolds /\ ad.pc \in Passes /\ \A f \in FlatFiles : ad.read[f] # None
      BY <1>2, <2>1, <2>2, <2>3 DEF EndPass, GiveUp
    <2>5. /\ ad.pc \in Passes
          /\ ad.pc = "plan" => pc = "scan"
          /\ ad.pc = "scan" => pc = "copy"
          /\ ad.pc = "copy" => pc = "rescan"
          /\ ad.pc = "rescan" => pc = "check"
          /\ ad.pc = "check" => pc = "recheck"
          /\ ad.pc = "recheck" => pc = "build"
      BY <2>3, <2>4 DEF Passes, PassAfter
    <2>6. /\ ad' \in Adopter /\ ad'.pc = pc /\ ad'.scan = scan /\ ad'.read = NothingRead
      <3>1. plan \in [FlatFiles -> Nat \cup {None}] /\ scan \in [FlatFiles -> Nat \cup {None}]
        BY <1>t, <2>1, <2>2 DEF Adopter
      <3>2. NothingRead \in [FlatFiles -> Nat \cup {None}]
        BY DEF NothingRead
      <3>3. pc \in Passes \cup {"idle", "build"}
        BY <2>5 DEF Passes
      <3> QED
        BY <1>t, <2>4, <3>1, <3>2, <3>3 DEF Adopter
    <2>7. \A f \in FlatFiles : ~(NothingRead[f] # None)
      BY DEF NothingRead
    <2>8. ASSUME ad.pc = "plan"
          PROVE  FlatInv'
      BY <1>u, <2>5, <2>6, <2>7, <2>8 DEF Inv, FlatInv
    <2>9. ASSUME ad.pc = "scan"
          PROVE  FlatInv'
      <3>1. \A f \in FlatFiles : scan[f] # None /\ scan[f] <= flat[f] /\ flat[f] <= flat[f]
        BY <1>t, <2>2, <2>4, <2>9 DEF Inv, FlatInv
      <3>2. flat \in instants
        BY DEF Inv, FlatInv
      <3> QED
        BY <1>u, <2>5, <2>6, <2>7, <2>9, <3>1, <3>2 DEF FlatInv
    <2>10. ASSUME ad.pc = "copy"
           PROVE  FlatInv'
      BY <1>u, <2>2, <2>5, <2>6, <2>7, <2>10 DEF Inv, FlatInv
    <2>11. ASSUME ad.pc = "rescan"
           PROVE  FlatInv'
      <3>1. scan \in instants
        BY <2>2, <2>4, <2>11, FoundAgain DEF PassHolds
      <3> QED
        BY <1>u, <2>5, <2>6, <2>11, <3>1 DEF Inv, FlatInv
    <2>12. ASSUME ad.pc \in {"check", "recheck"}
           PROVE  FlatInv'
      BY <1>u, <2>2, <2>5, <2>6, <2>12 DEF Inv, FlatInv
    <2>13. FlatInv'
      BY <2>5, <2>8, <2>9, <2>10, <2>11, <2>12 DEF Passes
    <2> QED
      BY <1>u, <1>t, <1>r, <2>6, <2>13, AdopterAlone
  <1> QED
    BY <1>1, <1>2

LEMMA QuietAdoptStep ==
    ASSUME Inv, PlanAdoption \/ AdopterDies \/ TamperStaging, UNCHANGED build
    PROVE  Inv'
  <1>u. UNCHANGED <<sourceVars, diskVars, pub, apiVars, flat, instants>>
    BY DEF PlanAdoption, AdopterDies, TamperStaging, publicationVars
  <1>t. /\ flat \in [FlatFiles -> Nat] /\ instants \subseteq [FlatFiles -> Nat]
        /\ ad \in Adopter
    BY Typed DEF Inv
  <1>r. Remembered
    BY <1>u, SameIsKept
  <1>1. CASE PlanAdoption \/ AdopterDies
    <2>1. ad' \in Adopter /\ ad'.pc \in {"idle", "plan"}
      BY <1>1, IdleTypes DEF PlanAdoption, AdopterDies, GiveUp, AdopterIdle, Adopter, Passes
    <2> QED
      BY <1>u, <1>t, <1>r, <2>1, AdopterAt, AdopterAlone
  <1>2. CASE TamperStaging
    <2>1. PICK stage : stage = [ad.stage EXCEPT !["page"] = Bad]
      OBVIOUS
    <2>2. stage \in [page : Reports, asset : Nat \cup {None}]
      BY <1>t, <2>1 DEF Adopter, Reports
    <2>3. ad' = [ad EXCEPT !.stage = stage] /\ ad.pc \in {"check", "recheck", "build"}
      BY <1>2, <1>t, <2>1 DEF TamperStaging, Adopter
    <2>4. ad' \in Adopter /\ ad'.pc = ad.pc /\ ad'.scan = ad.scan
      BY <1>t, <2>2, <2>3 DEF Adopter
    <2>5. FlatInv'
      BY <1>u, <2>3, <2>4 DEF Inv, FlatInv
    <2> QED
      BY <1>u, <1>t, <1>r, <2>4, <2>5, AdopterAlone
  <1> QED
    BY <1>1, <1>2

-----------------------------------------------------------------------------
(* The writers *)

(* A writer moves to p; its Candidate stays. *)
LEMMA WriterMoves ==
    ASSUME Inv, NEW w \in Writers, NEW p \in Progress, pub' = [pub EXCEPT ![w] = p],
           UNCHANGED <<sourceVars, rel, cands, apiVars, adoptionVars, build>>,
           side' \in [Sessions -> Nat \cup {None}], current' \in Sessions \cup {None},
           RecordInv', NEW c, c = cands[w], Fine(w, p, c)
    PROVE  Inv'
  <1>t. /\ pub \in [Writers -> Progress] /\ cands' \in [Writers -> Candidate \cup {None}]
        /\ UNCHANGED <<flat, instants>> /\ ad' \in Adopter /\ build' \in Builder
    BY Typed DEF Inv, adoptionVars
  <1>r. Remembered /\ \A s : Valid(s) => Valid(s)'
    BY <1>t, SameIsKept, ValidSame
  <1>1. FlatInv'
    BY FrameFlat DEF Inv
  <1>2. PubInv'
    <2> SUFFICES ASSUME NEW v \in Writers
                 PROVE  Fine(v, pub[v], cands[v])'
      BY DEF PubInv
    <2>1. CASE v = w
      <3>1. pub'[v] = p /\ cands'[v] = c
        BY <1>t, <2>1
      <3>2. PICK s : s = p.s
        OBVIOUS
      <3>3. p.pc = "record" => Valid(s)
        BY <3>2 DEF Fine
      <3>4. Fine(w, p, c)'
        BY <1>r, <3>2, <3>3, FineKept
      <3> QED
        BY <2>1, <3>1, <3>4, FineAt
    <2>2. CASE v # w
      <3>1. pub'[v] = pub[v] /\ cands'[v] = cands[v]
        BY <1>t, <2>2
      <3> QED
        BY <1>r, <3>1, FrameWriter DEF Inv
    <2> QED
      BY <2>1, <2>2
  <1>3. pub' \in [Writers -> Progress]
    BY <1>t
  <1> QED
    BY <1>t, <1>1, <1>2, <1>3, WriterStep

(* A writer that ends, whatever happened. *)
LEMMA WriterEnds ==
    ASSUME Inv, NEW w \in Writers, Abort(w),
           UNCHANGED <<sourceVars, rel, cands, apiVars, adoptionVars, build>>,
           side' \in [Sessions -> Nat \cup {None}], current' \in Sessions \cup {None}, RecordInv'
    PROVE  Inv'
  <1>1. PICK c : c = cands[w]
    OBVIOUS
  <1>2. Fine(w, Idle, c)
    <2>1. Fine(w, pub[w], cands[w])
      BY DEF Inv, PubInv
    <2> QED
      BY <1>1, <2>1 DEF Fine, Idle
  <1>3. pub' = [pub EXCEPT ![w] = Idle]
    BY DEF Abort
  <1> QED
    BY <1>1, <1>2, <1>3, IdleTypes, WriterMoves

LEMMA NothingRecorded ==
    ASSUME Inv, UNCHANGED <<diskVars, apiVars>>
    PROVE  /\ side' \in [Sessions -> Nat \cup {None}] /\ current' \in Sessions \cup {None}
           /\ RecordInv' /\ UNCHANGED <<rel, cands>>
  <1>1. UNCHANGED <<rel, side, current, cands>>
    BY DEF diskVars
  <1> QED
    BY <1>1, FrameRecord, Typed DEF Inv

LEMMA StartStep ==
    ASSUME Inv, NEW s \in Sessions, UNCHANGED <<sourceVars, adoptionVars, build>>,
           StartRollback(s) \/ (s # 0 /\ \E switch \in BOOLEAN : StartPrepare(s, switch))
    PROVE  Inv'
  <1>1. UNCHANGED <<diskVars, apiVars>> /\ "publisher" \in Writers
    BY DEF StartRollback, StartPrepare, Writers
  <1>2. PICK c : c = cands["publisher"]
    OBVIOUS
  <1>3. c # None => Genuine("publisher", c.man)
    BY <1>1, <1>2 DEF Inv, PubInv, Fine
  <1>4. CASE StartRollback(s)
    <2>1. PICK p : p = [Idle EXCEPT !.pc = "switch", !.s = s]
      OBVIOUS
    <2>2. p \in Progress /\ p.pc = "switch"
      BY <2>1, IdleTypes DEF Progress, PubPlaces
    <2>3. Fine("publisher", p, c)
      BY <1>3, <2>2 DEF Fine
    <2>4. pub' = [pub EXCEPT !["publisher"] = p]
      BY <1>4, <2>1 DEF StartRollback
    <2> QED
      BY <1>1, <1>2, <2>2, <2>3, <2>4, NothingRecorded, WriterMoves
  <1>5. ASSUME s # 0, NEW switch \in BOOLEAN, StartPrepare(s, switch)
        PROVE  Inv'
    <2>1. PICK p : p = Preparing(s, switch)
      OBVIOUS
    <2>2. p \in Progress /\ p.pc = "verify" /\ p.s = s
      BY <2>1, IdleTypes DEF Progress, PubPlaces, Preparing
    <2>3. Fine("publisher", p, c)
      BY <1>2, <1>3, <1>5, <2>2 DEF Fine, StartPrepare
    <2>4. pub' = [pub EXCEPT !["publisher"] = p]
      BY <1>5, <2>1 DEF StartPrepare
    <2> QED
      BY <1>1, <1>2, <2>2, <2>3, <2>4, NothingRecorded, WriterMoves
  <1> QED
    BY <1>4, <1>5

LEMMA VerifyStep ==
    ASSUME Inv, NEW w \in Writers, VerifySource(w), UNCHANGED <<sourceVars, adoptionVars, build>>
    PROVE  Inv'
  <1>1. UNCHANGED <<diskVars, apiVars>> /\ pub[w].pc = "verify"
    BY DEF VerifySource
  <1>2. CASE Abort(w)
    BY <1>1, <1>2, NothingRecorded, WriterEnds
  <1>3. CASE ~Abort(w)
    <2>1. PICK c : c = cands[w]
      OBVIOUS
    <2>2. PICK p : p = [pub[w] EXCEPT !.pc = "copy", !.man = c.man]
      OBVIOUS
    <2>3. pub[w] \in Progress /\ Fine(w, pub[w], cands[w]) /\ pub \in [Writers -> Progress]
      BY Typed DEF Inv, PubInv
    <2>4. c # None /\ c \in Candidate
      BY <1>1, <2>1, <2>3, Typed DEF Inv, Fine
    <2>5. c.man \in Manifest
      BY <2>4 DEF Candidate
    <2>6. p \in Progress /\ p.pc = "copy" /\ p.s = pub[w].s
      BY <2>2, <2>3, <2>5 DEF Progress, PubPlaces
    <2>7. Fine(w, p, c)
      BY <1>1, <2>1, <2>3, <2>6 DEF Fine
    <2>8. pub' = [pub EXCEPT ![w] = p]
      <3>1. pub' = [pub EXCEPT ![w].pc = "copy", ![w].man = c.man]
        BY <1>3, <2>1 DEF VerifySource
      <3> QED
        BY <2>2, <2>3, <3>1 DEF Progress
    <2> QED
      BY <1>1, <2>1, <2>6, <2>7, <2>8, NothingRecorded, WriterMoves
  <1> QED
    BY <1>2, <1>3

LEMMA CopyStep ==
    ASSUME Inv, NEW w \in Writers, CopyTree(w), UNCHANGED <<sourceVars, adoptionVars, build>>
    PROVE  Inv'
  <1>1. UNCHANGED <<diskVars, apiVars>> /\ pub[w].pc = "copy"
    BY DEF CopyTree
  <1>2. PICK c : c = cands[w]
    OBVIOUS
  <1>3. PICK copy : copy = [payload |-> c.payload, man |-> c.man]
    OBVIOUS
  <1>4. PICK p : p = [pub[w] EXCEPT !.pc = "rename", !.copy = copy]
    OBVIOUS
  <1>5. pub[w] \in Progress /\ Fine(w, pub[w], cands[w]) /\ pub \in [Writers -> Progress]
    BY Typed DEF Inv, PubInv
  <1>6. c # None /\ c \in Candidate
    BY <1>1, <1>2, <1>5, Typed DEF Inv, Fine
  <1>7. copy \in Copy /\ copy.man = c.man
    BY <1>3, <1>6 DEF Candidate, Copy
  <1>8. p \in Progress /\ p.pc = "rename" /\ p.s = pub[w].s /\ p.copy = copy
    BY <1>4, <1>5, <1>7 DEF Progress, PubPlaces
  <1>9. Fine(w, p, c)
    BY <1>1, <1>2, <1>5, <1>6, <1>7, <1>8, NotNone DEF Fine
  <1>10. pub' = [pub EXCEPT ![w] = p]
    <2>1. pub' = [pub EXCEPT ![w].pc = "rename", ![w].copy = copy]
      BY <1>2, <1>3 DEF CopyTree
    <2> QED
      BY <1>4, <1>5, <2>1 DEF Progress
  <1> QED
    BY <1>1, <1>2, <1>8, <1>9, <1>10, NothingRecorded, WriterMoves

(* Recording the present stamp of a release that validates. *)
LEMMA RecordWritten ==
    ASSUME Inv, NEW s \in Sessions, Valid(s), WriteIdentity(s), UNCHANGED <<rel, current, apiVars>>
    PROVE  /\ side' \in [Sessions -> Nat \cup {None}] /\ current' \in Sessions \cup {None}
           /\ RecordInv'
  <1>t. side \in [Sessions -> Nat \cup {None}] /\ current \in Sessions \cup {None}
    BY Typed DEF Inv
  <1>1. rel[s] # None /\ rel[s].stamp \in Nat
    BY Typed DEF Inv, Valid, Release
  <1>2. side' = [side EXCEPT ![s] = rel[s].stamp]
    BY DEF WriteIdentity
  <1>3. \A x : Valid(x)' <=> Valid(x)
    BY ValidSame
  <1>4. \A x \in Sessions : side'[x] # None => /\ rel[x] # None /\ side'[x] <= rel[x].stamp
                                               /\ side'[x] = rel[x].stamp => Valid(x)
    BY <1>t, <1>1, <1>2 DEF Inv, RecordInv
  <1>5. RecordInv'
    BY <1>3, <1>4 DEF Inv, RecordInv, apiVars
  <1>6. side' \in [Sessions -> Nat \cup {None}]
    BY <1>t, <1>1, <1>2
  <1> QED
    BY <1>t, <1>5, <1>6

(* A writer goes on to pc, where nothing is required of it but at "record". *)
LEMMA Goes ==
    ASSUME Inv, NEW w \in Writers, NEW pc \in {"switch", "record"}, Goto(w, pc),
           pc = "record" => Valid(pub[w].s),
           UNCHANGED <<sourceVars, rel, cands, apiVars, adoptionVars, build>>,
           side' \in [Sessions -> Nat \cup {None}], current' \in Sessions \cup {None}, RecordInv'
    PROVE  Inv'
  <1>1. PICK c : c = cands[w]
    OBVIOUS
  <1>2. PICK p : p = [pub[w] EXCEPT !.pc = pc]
    OBVIOUS
  <1>3. pub[w] \in Progress /\ Fine(w, pub[w], cands[w]) /\ pub \in [Writers -> Progress]
    BY Typed DEF Inv, PubInv
  <1>4. p \in Progress /\ p.pc = pc /\ p.s = pub[w].s
    BY <1>2, <1>3 DEF Progress, PubPlaces
  <1>5. pub' = [pub EXCEPT ![w] = p]
    <2>1. pub' = [pub EXCEPT ![w].pc = pc]
      BY DEF Goto
    <2> QED
      BY <1>2, <1>3, <2>1 DEF Progress
  <1>6. Fine(w, p, c)
    BY <1>1, <1>3, <1>4 DEF Fine
  <1> QED
    BY <1>1, <1>4, <1>5, <1>6, WriterMoves

LEMMA ValidateStep ==
    ASSUME Inv, NEW w \in Writers, ValidatePrepared(w), UNCHANGED <<sourceVars, adoptionVars, build>>
    PROVE  Inv'
  <1>1. UNCHANGED <<rel, current, cands, apiVars>> /\ pub[w].s \in Sessions
    BY Typed DEF Inv, ValidatePrepared, Progress
  <1>2. CASE Valid(pub[w].s)
    <2>1. WriteIdentity(pub[w].s) /\ (Goto(w, "switch") \/ Abort(w))
      BY <1>2 DEF ValidatePrepared
    <2>2. /\ side' \in [Sessions -> Nat \cup {None}] /\ current' \in Sessions \cup {None}
          /\ RecordInv'
      BY <1>1, <1>2, <2>1, RecordWritten
    <2> QED
      BY <1>1, <2>1, <2>2, Goes, WriterEnds
  <1>3. CASE ~Valid(pub[w].s)
    <2>1. Abort(w) /\ UNCHANGED diskVars
      BY <1>3 DEF ValidatePrepared, diskVars
    <2> QED
      BY <1>1, <2>1, NothingRecorded, WriterEnds
  <1> QED
    BY <1>2, <1>3

LEMMA SwitchStep ==
    ASSUME Inv, NEW w \in Writers, SwitchCurrent(w), UNCHANGED <<sourceVars, adoptionVars, build>>
    PROVE  Inv'
  <1>1. UNCHANGED <<rel, side, cands, apiVars>> /\ pub[w].s \in Sessions
    BY Typed DEF Inv, SwitchCurrent, Progress
  <1>2. CASE Valid(pub[w].s)
    <2>1. current' = pub[w].s /\ Goto(w, "record")
      BY <1>2 DEF SwitchCurrent
    <2>2. side' \in [Sessions -> Nat \cup {None}] /\ current' \in Sessions \cup {None}
      BY <1>1, <2>1, Typed DEF Inv
    <2>3. rel'[current'] # None
      BY <1>1, <1>2, <2>1 DEF Valid
    <2>4. \A x : Valid(x)' <=> Valid(x)
      BY <1>1, ValidSame
    <2>5. RecordInv'
      BY <1>1, <2>3, <2>4 DEF Inv, RecordInv, apiVars
    <2> QED
      BY <1>1, <1>2, <2>1, <2>2, <2>5, Goes
  <1>3. CASE ~Valid(pub[w].s)
    <2>1. Abort(w) /\ UNCHANGED diskVars
      BY <1>3 DEF SwitchCurrent, diskVars
    <2> QED
      BY <1>1, <2>1, NothingRecorded, WriterEnds
  <1> QED
    BY <1>2, <1>3

LEMMA RecordStep ==
    ASSUME Inv, NEW w \in Writers, RecordCurrent(w) \/ WriterDies(w),
           UNCHANGED <<sourceVars, adoptionVars, build>>
    PROVE  Inv'
  <1>1. CASE RecordCurrent(w)
    <2>1. /\ UNCHANGED <<rel, current, cands, apiVars>> /\ pub[w].s \in Sessions
          /\ WriteIdentity(pub[w].s) /\ Abort(w)
      BY <1>1, Typed DEF Inv, RecordCurrent, Progress
    <2>2. Valid(pub[w].s)
      BY <1>1 DEF Inv, PubInv, Fine, RecordCurrent
    <2> QED
      BY <2>1, <2>2, RecordWritten, WriterEnds
  <1>2. CASE WriterDies(w)
    BY <1>2, NothingRecorded, WriterEnds DEF WriterDies
  <1> QED
    BY <1>1, <1>2

-----------------------------------------------------------------------------
(* A release is made, or its files change *)

LEMMA ReleaseStep ==
    ASSUME Inv, UNCHANGED <<sourceVars, side, current, cands, apiVars, adoptionVars, build>>,
           rel' \in [Sessions -> Release \cup {None}], pub' \in [Writers -> Progress],
           RelKept, RelInv', RecordInv', PubInv'
    PROVE  Inv'
  <1>1. DiskType'
    BY TypesAreTypeOK DEF Inv, Types, DiskType
  <1>2. Types'
    BY <1>1, TypesAreTypeOK, TypesKept DEF Inv, Types, PubType
  <1>3. TypeOK'
    BY <1>2, TypesAreTypeOKNext
  <1>4. SourceKept /\ Remembered
    BY SameIsKept DEF Inv, adoptionVars
  <1>5. BuildInv'
    BY <1>3, <1>4, FrameBuild DEF Inv
  <1>6. FlatInv'
    BY FrameFlat DEF Inv
  <1> QED
    BY <1>3, <1>5, <1>6 DEF Inv

(* A new release is what its writer's Candidate was sealed as. *)
LEMMA Renamed ==
    ASSUME Inv, NEW w \in Writers, NEW s \in Sessions, NEW copy \in Copy, NEW r,
           s = 0 <=> w = "adopter", Genuine(w, copy.man), copy.man.files = copy.payload,
           r = [payload |-> copy.payload, man |-> copy.man, declared |-> Declared(copy.payload),
                stamp |-> 0]
    PROVE  /\ r \in Release /\ r # None
           /\ \E i \in instants : /\ r.declared.reports = Staged("page", i["page"])
                                  /\ s = 0 => r.declared.assets = i["asset"]
           /\ s # 0 => OneCommit(r.man)
  <1>1. copy.payload \in Payload /\ copy.man \in Manifest
    BY DEF Copy
  <1>2. Declared(copy.payload) \in [reports : Reports, assets : Nat \cup {None, Bad}]
    BY <1>1 DEF Declared, Payload
  <1>3. r \in Release
    BY <1>1, <1>2 DEF Release
  <1>4. /\ r.declared.reports = copy.man.files.reports /\ r.declared.assets = copy.man.files.assets
        /\ r.man = copy.man
    BY DEF Declared
  <1>5. CASE w = "adopter"
    BY <1>3, <1>4, <1>5, NotNone DEF Genuine
  <1>6. CASE w = "publisher"
    BY <1>3, <1>4, <1>6, NotNone DEF Genuine, Served
  <1> QED
    BY <1>5, <1>6 DEF Writers

LEMMA RenameStep ==
    ASSUME Inv, NEW w \in Writers, RenameStaging(w), UNCHANGED <<sourceVars, adoptionVars, build>>
    PROVE  Inv'
  <1>1. /\ UNCHANGED <<side, current, cands, apiVars>> /\ pub[w].pc = "rename"
        /\ pub[w] \in Progress /\ pub \in [Writers -> Progress]
        /\ rel \in [Sessions -> Release \cup {None}]
    BY Typed DEF Inv, RenameStaging
  <1>s. PICK s : s = pub[w].s
    OBVIOUS
  <1>2. CASE ~(CopyVerified(w) /\ rel[s] = None)
    <2>1. Abort(w) /\ UNCHANGED diskVars
      BY <1>1, <1>s, <1>2 DEF RenameStaging, diskVars
    <2> QED
      BY <1>1, <2>1, NothingRecorded, WriterEnds
  <1>3. CASE CopyVerified(w) /\ rel[s] = None
    <2>1. PICK copy : copy = pub[w].copy
      OBVIOUS
    <2>2. PICK r : r = [payload |-> copy.payload, man |-> copy.man,
                        declared |-> Declared(copy.payload), stamp |-> 0]
      OBVIOUS
    <2>3. PICK p : p = [Idle EXCEPT !.pc = "validate", !.s = s, !.switch = pub[w].switch]
      OBVIOUS
    <2>4. /\ rel' = [rel EXCEPT ![s] = r] /\ pub' = [pub EXCEPT ![w] = p]
      BY <1>s, <1>3, <2>1, <2>2, <2>3 DEF RenameStaging
    <2>5. /\ s \in Sessions /\ copy \in Copy /\ Genuine(w, copy.man)
          /\ s = 0 <=> w = "adopter"
      BY <1>1, <1>s, <2>1 DEF Inv, PubInv, Fine, Progress
    <2>6. copy.man.files = copy.payload
      BY <1>3, <2>1, VerifiedFiles DEF CopyVerified
    <2>7. /\ r \in Release /\ r # None
          /\ \E i \in instants : /\ r.declared.reports = Staged("page", i["page"])
                                 /\ s = 0 => r.declared.assets = i["asset"]
          /\ s # 0 => OneCommit(r.man)
      BY <2>2, <2>5, <2>6, Renamed
    <2>8. p \in Progress /\ p.pc = "validate"
      BY <1>1, <1>s, <2>3, <2>5, IdleTypes DEF Progress, PubPlaces
    <2>9. /\ rel' \in [Sessions -> Release \cup {None}] /\ pub' \in [Writers -> Progress]
          /\ rel'[s] = r /\ \A x \in Sessions : x # s => rel'[x] = rel[x]
      BY <1>1, <2>4, <2>5, <2>7, <2>8
    <2>10. RelKept
      BY <1>3, <2>9 DEF RelKept
    <2>11. RelInv'
      <3>1. instants' = instants
        BY DEF adoptionVars
      <3>2. ReportsAreAdopted'
        <4> SUFFICES ASSUME NEW x \in Sessions, rel'[x] # None
                     PROVE  \E i \in instants :
                                /\ rel'[x].declared.reports = Staged("page", i["page"])
                                /\ x = 0 => rel'[x].declared.assets = i["asset"]
          BY <3>1 DEF ReportsAreAdopted
        <4>1. CASE x = s
          BY <2>7, <2>9, <4>1
        <4>2. CASE x # s
          BY <2>9, <4>2 DEF Inv, RelInv, ReportsAreAdopted
        <4> QED
          BY <4>1, <4>2
      <3>3. OneSource'
        BY <2>7, <2>9 DEF Inv, RelInv, OneSource, OneCommit
      <3> QED
        BY <3>2, <3>3 DEF RelInv
    <2>12. \A x \in Sessions : Valid(x) => x # s /\ Valid(x)'
      BY <1>3, <2>9, ValidSame DEF Valid
    <2>13. RecordInv'
      <3>1. /\ \A k \in cache : k[1] \in Sessions
            /\ current # None => current \in Sessions
            /\ api.pc = "check" => api.key[1] \in Sessions
        BY Typed DEF Inv, RecordInv
      <3>2. current # None => rel'[current] # None
        BY <1>3, <2>9, <3>1 DEF Inv, RecordInv
      <3>3. api.pc = "check" => /\ api.key \in Sessions \X Nat /\ rel'[api.key[1]] # None
                                /\ api.key[2] <= rel'[api.key[1]].stamp
        BY <1>3, <2>9, <3>1 DEF Inv, RecordInv
      <3>4. \A k \in cache : /\ rel'[k[1]] # None /\ k[2] <= rel'[k[1]].stamp
                             /\ k[2] = rel'[k[1]].stamp => Valid(k[1])'
        <4> SUFFICES ASSUME NEW k \in cache
                     PROVE  /\ rel'[k[1]] # None /\ k[2] <= rel'[k[1]].stamp
                            /\ k[2] = rel'[k[1]].stamp => Valid(k[1])'
          OBVIOUS
        <4>1. PICK x \in Sessions : x = k[1]
          BY <3>1
        <4>2. rel[x] # None /\ k[2] <= rel[x].stamp /\ (k[2] = rel[x].stamp => Valid(x))
          BY <4>1 DEF Inv, RecordInv
        <4>3. rel'[x] = rel[x]
          BY <1>3, <2>9, <4>2
        <4>4. Valid(x)' <=> Valid(x)
          BY <4>3, ValidSame
        <4> QED
          BY <4>1, <4>2, <4>3, <4>4 DEF Valid
      <3>5. \A x \in Sessions : side[x] # None => /\ rel'[x] # None /\ side[x] <= rel'[x].stamp
                                                  /\ side[x] = rel'[x].stamp => Valid(x)'
        BY <1>3, <2>9, <2>12 DEF Inv, RecordInv
      <3> QED
        BY <1>1, <3>2, <3>3, <3>4, <3>5 DEF RecordInv, apiVars, Valid
    <2>14. PubInv'
      <3> SUFFICES ASSUME NEW v \in Writers
                   PROVE  Fine(v, pub[v], cands[v])'
        BY DEF PubInv
      <3>r. Remembered
        BY SameIsKept DEF adoptionVars
      <3>1. CASE v = w
        <4>1. PICK c : c = cands[w]
          OBVIOUS
        <4>2. pub'[v] = p /\ cands'[v] = c
          BY <1>1, <2>4, <3>1, <4>1
        <4>3. c # None => Genuine(w, c.man)
          BY <4>1 DEF Inv, PubInv, Fine
        <4>4. c # None => Genuine(w, c.man)'
          BY <3>r, <4>3, GenuineKept
        <4>5. Fine(w, p, c)'
          BY <2>8, <4>4 DEF Fine
        <4> QED
          BY <3>1, <4>2, <4>5, FineAt
      <3>2. CASE v # w
        <4>1. pub'[v] = pub[v] /\ cands'[v] = cands[v] /\ pub[v].s \in Sessions
          BY <1>1, <2>4, <3>2, Typed DEF Inv, Progress
        <4>2. \A x : x = pub[v].s /\ pub[v].pc = "record" /\ Valid(x) => Valid(x)'
          BY <2>12, <4>1
        <4> QED
          BY <3>r, <4>1, <4>2, FrameWriter DEF Inv
      <3> QED
        BY <3>1, <3>2
    <2> QED
      BY <1>1, <2>9, <2>10, <2>11, <2>13, <2>14, ReleaseStep
  <1> QED
    BY <1>2, <1>3

(* A record of an earlier stamp says nothing of the files as they are now. *)
LEMMA AlteredStep ==
    ASSUME Inv, NEW s \in Sessions, NEW r, Altered(s, r),
           UNCHANGED <<sourceVars, adoptionVars, build>>
    PROVE  Inv'
  <1>1. /\ UNCHANGED <<side, current, cands, pub, apiVars>>
        /\ rel \in [Sessions -> Release \cup {None}] /\ rel[s] # None /\ rel[s] \in Release
        /\ r \in Release /\ r # None
    BY Typed, NotNone DEF Inv, Altered
  <1>2. /\ rel' \in [Sessions -> Release \cup {None}] /\ rel'[s] = r
        /\ \A x \in Sessions : x # s => rel'[x] = rel[x]
    BY <1>1 DEF Altered
  <1>3. /\ r.man = rel[s].man /\ r.declared = rel[s].declared /\ r.stamp = rel[s].stamp + 1
        /\ r.payload.reports \in {rel[s].payload.reports, Bad} /\ rel[s].stamp \in Nat
    BY <1>1 DEF Altered, Release
  <1>4. RelKept
    BY <1>1, <1>2, <1>3 DEF RelKept
  <1>r. Remembered /\ instants' = instants
    BY SameIsKept DEF adoptionVars
  <1>5. RelInv'
    <2>1. \A x \in Sessions : rel'[x] # None =>
              rel[x] # None /\ rel'[x].declared = rel[x].declared /\ rel'[x].man = rel[x].man
      BY <1>1, <1>2, <1>3
    <2>2. ReportsAreAdopted'
      BY <1>r, <2>1 DEF Inv, RelInv, ReportsAreAdopted
    <2>3. OneSource'
      BY <2>1 DEF Inv, RelInv, OneSource
    <2> QED
      BY <2>2, <2>3 DEF RelInv
  <1>6. \A x \in Sessions : x # s /\ Valid(x) => Valid(x)'
    BY <1>2, ValidSame
  <1>7. \A x \in Sessions, n \in Nat :
            rel[x] # None /\ n <= rel[x].stamp /\ (n = rel[x].stamp => Valid(x)) =>
               rel'[x] # None /\ n <= rel'[x].stamp /\ (n = rel'[x].stamp => Valid(x)')
    <2> SUFFICES ASSUME NEW x \in Sessions, NEW n \in Nat,
                        rel[x] # None, n <= rel[x].stamp, n = rel[x].stamp => Valid(x)
                 PROVE  rel'[x] # None /\ n <= rel'[x].stamp /\ (n = rel'[x].stamp => Valid(x)')
      OBVIOUS
    <2>1. CASE x = s
      BY <1>1, <1>2, <1>3, <2>1
    <2>2. CASE x # s
      BY <1>2, <1>6, <2>2
    <2> QED
      BY <2>1, <2>2
  <1>8. RecordInv'
    <2>1. /\ \A k \in cache : k[1] \in Sessions /\ k[2] \in Nat
          /\ current # None => current \in Sessions
          /\ api.pc = "check" => api.key[1] \in Sessions /\ api.key[2] \in Nat
          /\ side \in [Sessions -> Nat \cup {None}]
      BY Typed DEF Inv, RecordInv
    <2>2. current # None => rel'[current] # None
      BY <1>4, <2>1 DEF Inv, RecordInv, RelKept
    <2>3. api.pc = "check" => /\ api.key \in Sessions \X Nat /\ rel'[api.key[1]] # None
                              /\ api.key[2] <= rel'[api.key[1]].stamp
      <3>1. SUFFICES ASSUME api.pc = "check"
                     PROVE  /\ api.key \in Sessions \X Nat /\ rel'[api.key[1]] # None
                            /\ api.key[2] <= rel'[api.key[1]].stamp
        OBVIOUS
      <3>2. /\ api.key \in Sessions \X Nat /\ rel[api.key[1]] # None
            /\ api.key[2] <= rel[api.key[1]].stamp
        BY <3>1 DEF Inv, RecordInv
      <3> QED
        BY <1>1, <1>2, <1>3, <2>1, <3>2
    <2>4. \A k \in cache : /\ rel'[k[1]] # None /\ k[2] <= rel'[k[1]].stamp
                           /\ k[2] = rel'[k[1]].stamp => Valid(k[1])'
      <3> SUFFICES ASSUME NEW k \in cache
                   PROVE  /\ rel'[k[1]] # None /\ k[2] <= rel'[k[1]].stamp
                          /\ k[2] = rel'[k[1]].stamp => Valid(k[1])'
        OBVIOUS
      <3>1. PICK x \in Sessions : x = k[1]
        BY <2>1
      <3>2. k[2] \in Nat /\ rel[x] # None /\ k[2] <= rel[x].stamp /\ (k[2] = rel[x].stamp => Valid(x))
        BY <2>1, <3>1 DEF Inv, RecordInv
      <3>3. rel'[x] # None /\ k[2] <= rel'[x].stamp /\ (k[2] = rel'[x].stamp => Valid(x)')
        BY <1>7, <3>2
      <3> QED
        BY <3>1, <3>3 DEF Valid
    <2>5. \A x \in Sessions : side[x] # None => /\ rel'[x] # None /\ side[x] <= rel'[x].stamp
                                                /\ side[x] = rel'[x].stamp => Valid(x)'
      BY <1>7, <2>1 DEF Inv, RecordInv
    <2> QED
      BY <1>1, <2>2, <2>3, <2>4, <2>5 DEF RecordInv, apiVars, Valid
  <1>9. PubInv'
    <2>1. ASSUME NEW w \in Writers, NEW x, x = pub[w].s, pub[w].pc = "record", Valid(x)
          PROVE  Valid(x)'
      <3>1. x \in Sessions
        BY <2>1, Typed DEF Inv, Progress
      <3>2. CASE x # s
        BY <1>6, <2>1, <3>1, <3>2
      <3>3. CASE x = s
        <4>1. r.payload = rel[s].payload
          BY <2>1, <3>3 DEF Altered, Recording
        <4> QED
          BY <1>1, <1>2, <1>3, <2>1, <3>3, <4>1
             DEF Valid, Declared, VerifyManifest, TrustedProvenance, ReleaseAssetsMatch,
                 ApplicationValid
      <3> QED
        BY <3>2, <3>3
    <2> QED
      BY <1>1, <1>r, <2>1, FramePub DEF Inv
  <1>10. pub' \in [Writers -> Progress]
    BY <1>1, Typed DEF Inv
  <1> QED
    BY <1>1, <1>2, <1>4, <1>5, <1>8, <1>9, <1>10, ReleaseStep

-----------------------------------------------------------------------------
(* The identity the API answers *)

LEMMA ApiStep ==
    ASSUME Inv, UNCHANGED <<sourceVars, rel, current, cands, pub, adoptionVars, build>>,
           side' \in [Sessions -> Nat \cup {None}], ApiType', RecordInv'
    PROVE  Inv'
  <1>1. DiskType'
    BY TypesAreTypeOK DEF Inv, Types, DiskType
  <1>2. Types'
    BY <1>1, TypesAreTypeOK, TypesKept DEF Inv, Types
  <1>3. TypeOK'
    BY <1>2, TypesAreTypeOKNext
  <1>4. RelKept /\ SourceKept /\ Remembered
    BY SameIsKept DEF Inv, adoptionVars
  <1>5. BuildInv'
    BY <1>3, <1>4, FrameBuild DEF Inv
  <1>6. RelInv'
    BY <1>4, FrameRel DEF Inv
  <1>7. FlatInv'
    BY FrameFlat DEF Inv
  <1>8. PubInv'
    <2>1. \A s : Valid(s) => Valid(s)'
      BY ValidSame
    <2> QED
      BY <1>4, <2>1, FramePub DEF Inv
  <1> QED
    BY <1>3, <1>5, <1>6, <1>7, <1>8 DEF Inv

LEMMA ValidateCurrentStep ==
    ASSUME Inv, ValidateCurrent, UNCHANGED <<sourceVars, adoptionVars, build>>
    PROVE  Inv'
  <1>1. /\ UNCHANGED <<rel, current, cands, pub, apiVars>> /\ WriteIdentity(current)
        /\ Valid(current) /\ current \in Sessions
    BY Typed DEF Inv, ValidateCurrent, CurrentIsBindable
  <1>2. ApiType'
    BY <1>1, TypesAreTypeOK, TypesKept DEF Inv
  <1> QED
    BY <1>1, <1>2, RecordWritten, ApiStep

(* The API's record with a new cache, for releases as they are. *)
LEMMA Remembering ==
    ASSUME Inv, UNCHANGED <<rel, side, current>>, ApiType', api'.pc = "idle",
           \A k \in cache' : /\ rel[k[1]] # None /\ k[2] <= rel[k[1]].stamp
                             /\ k[2] = rel[k[1]].stamp => Valid(k[1])
    PROVE  RecordInv'
  <1>1. \A s : Valid(s)' <=> Valid(s)
    BY ValidSame
  <1> QED
    BY <1>1 DEF Inv, RecordInv

LEMMA AnswerStep ==
    ASSUME Inv, AnswerFromRecord \/ MissIdentity \/ ApiRestarts,
           UNCHANGED <<sourceVars, adoptionVars, build>>
    PROVE  Inv'
  <1>1. UNCHANGED <<rel, side, current, cands, pub>>
    BY DEF AnswerFromRecord, MissIdentity, ApiRestarts, diskVars
  <1>t. /\ cache \subseteq Sessions \X Nat /\ side' \in [Sessions -> Nat \cup {None}]
    BY <1>1, Typed DEF Inv, TypeOK
  <1>2. ASSUME current # None
        PROVE  /\ current \in Sessions /\ rel[current] # None /\ rel[current].stamp \in Nat
               /\ Key(current) \in Sessions \X Nat
               /\ Key(current)[1] = current /\ Key(current)[2] = rel[current].stamp
    <2>1. current \in Sessions /\ rel[current] # None /\ rel[current].stamp \in Nat
      BY <1>2, Typed DEF Inv, RecordInv, Release
    <2> QED
      BY <2>1 DEF Key
  <1>3. CASE AnswerFromRecord
    <2>1. /\ current # None /\ cache' = cache \cup {Key(current)}
          /\ api' = [pc |-> "idle", key |-> None]
          /\ Cached(current) \/ SidecarMatches(current)
      BY <1>3 DEF AnswerFromRecord, Answered
    <2>2. PICK k : k = Key(current)
      OBVIOUS
    <2>3. /\ k \in Sessions \X Nat /\ k[1] = current /\ k[2] = rel[current].stamp
          /\ current \in Sessions /\ rel[current] # None /\ rel[current].stamp \in Nat
      BY <1>2, <2>1, <2>2
    <2>4. ApiType'
      BY <1>t, <2>1, <2>2, <2>3 DEF ApiType
    <2>5. Valid(current)
      BY <2>1, <2>2, <2>3 DEF Inv, RecordInv, Cached, SidecarMatches
    <2>6. \A j \in cache' : /\ rel[j[1]] # None /\ j[2] <= rel[j[1]].stamp
                            /\ j[2] = rel[j[1]].stamp => Valid(j[1])
      <3> SUFFICES ASSUME NEW j \in cache'
                   PROVE  /\ rel[j[1]] # None /\ j[2] <= rel[j[1]].stamp
                          /\ j[2] = rel[j[1]].stamp => Valid(j[1])
        OBVIOUS
      <3>1. CASE j \in cache
        BY <3>1 DEF Inv, RecordInv
      <3>2. CASE j = k
        BY <2>3, <2>5, <3>2
      <3> QED
        BY <2>1, <2>2, <3>1, <3>2
    <2>7. RecordInv'
      BY <1>1, <2>1, <2>4, <2>6, Remembering
    <2> QED
      BY <1>1, <1>t, <2>4, <2>7, ApiStep
  <1>4. CASE MissIdentity
    <2>1. PICK k : k = Key(current)
      OBVIOUS
    <2>2. /\ cache' = cache /\ api' = [pc |-> "check", key |-> k]
          /\ k \in Sessions \X Nat /\ k[1] = current /\ k[2] = rel[current].stamp
          /\ rel[current] # None /\ rel[current].stamp \in Nat
      BY <1>2, <1>4, <2>1 DEF MissIdentity
    <2>3. ApiType'
      BY <1>t, <2>2 DEF ApiType
    <2>4. \A s : Valid(s)' <=> Valid(s)
      BY <1>1, ValidSame
    <2>6. RecordInv'
      BY <1>1, <2>2, <2>4 DEF Inv, RecordInv
    <2> QED
      BY <1>1, <1>t, <2>3, <2>6, ApiStep
  <1>5. CASE ApiRestarts
    <2>1. cache' = {} /\ api' = [pc |-> "idle", key |-> None]
      BY <1>5 DEF ApiRestarts
    <2>2. ApiType'
      BY <2>1 DEF ApiType
    <2>3. RecordInv'
      BY <1>1, <2>1, <2>2, Remembering
    <2> QED
      BY <1>1, <1>t, <2>2, <2>3, ApiStep
  <1> QED
    BY <1>3, <1>4, <1>5

LEMMA CheckStep ==
    ASSUME Inv, CheckIdentity, UNCHANGED <<sourceVars, adoptionVars, build>>
    PROVE  Inv'
  <1>1. /\ UNCHANGED <<rel, current, cands, pub>> /\ api.pc = "check"
        /\ api' = [pc |-> "idle", key |-> None]
    BY DEF CheckIdentity, Answered
  <1>2. PICK s : s = api.key[1]
    OBVIOUS
  <1>t. /\ cache \subseteq Sessions \X Nat /\ s \in Sessions /\ api.key \in Sessions \X Nat
        /\ rel[s] # None /\ rel[s].stamp \in Nat /\ api.key[2] <= rel[s].stamp
    BY <1>1, <1>2, Typed DEF Inv, TypeOK, RecordInv, Release
  <1>3. CASE Valid(s)
    <2>1. PICK k : k = Key(s)
      OBVIOUS
    <2>2. k \in Sessions \X Nat /\ k[1] = s /\ k[2] = rel[s].stamp
      BY <1>t, <2>1 DEF Key
    <2>3. cache' = cache \cup {k, api.key} /\ WriteIdentity(s)
      BY <1>2, <1>3, <2>1 DEF CheckIdentity
    <2>4. ApiType'
      BY <1>1, <1>t, <2>2, <2>3 DEF ApiType
    <2>5. side' = [side EXCEPT ![s] = rel[s].stamp] /\ side \in [Sessions -> Nat \cup {None}]
      BY <2>3, Typed DEF Inv, WriteIdentity
    <2>6. side' \in [Sessions -> Nat \cup {None}]
      BY <1>t, <2>5
    <2>7. \A j \in cache' : /\ rel[j[1]] # None /\ j[2] <= rel[j[1]].stamp
                            /\ j[2] = rel[j[1]].stamp => Valid(j[1])
      <3> SUFFICES ASSUME NEW j \in cache'
                   PROVE  /\ rel[j[1]] # None /\ j[2] <= rel[j[1]].stamp
                          /\ j[2] = rel[j[1]].stamp => Valid(j[1])
        OBVIOUS
      <3>1. CASE j \in cache
        BY <3>1 DEF Inv, RecordInv
      <3>2. CASE j = k
        BY <1>3, <1>t, <2>2, <3>2
      <3>3. CASE j = api.key
        BY <1>2, <1>3, <1>t, <3>3
      <3> QED
        BY <2>3, <3>1, <3>2, <3>3
    <2>8. \A x \in Sessions : side'[x] # None => /\ rel[x] # None /\ side'[x] <= rel[x].stamp
                                                 /\ side'[x] = rel[x].stamp => Valid(x)
      BY <1>3, <1>t, <2>5 DEF Inv, RecordInv
    <2>9. \A x : Valid(x)' <=> Valid(x)
      BY <1>1, ValidSame
    <2>10. RecordInv'
      BY <1>1, <2>7, <2>8, <2>9 DEF Inv, RecordInv
    <2> QED
      BY <1>1, <2>4, <2>6, <2>10, ApiStep
  <1>4. CASE ~Valid(s)
    <2>1. cache' = {k \in cache : k[1] # s} /\ UNCHANGED side
      BY <1>2, <1>4 DEF CheckIdentity
    <2>2. ApiType' /\ side' \in [Sessions -> Nat \cup {None}]
      BY <1>1, <1>t, <2>1, Typed DEF Inv, ApiType
    <2>3. RecordInv'
      BY <1>1, <2>1, <2>2, Remembering DEF Inv, RecordInv
    <2> QED
      BY <1>1, <2>2, <2>3, ApiStep
  <1> QED
    BY <1>3, <1>4

-----------------------------------------------------------------------------
(* The Candidate of the baseline, and Candidates whose files change *)

(* What is staged is what the Flat root held at one moment. *)
LEMMA StagedIsServed ==
    ASSUME Inv, ad.pc = "build", StagingHolds
    PROVE  \E i \in instants : /\ ad.stage["page"] = Staged("page", i["page"])
                               /\ ad.stage["asset"] = i["asset"]
  <1>1. ad.scan \in instants
    BY DEF Inv, FlatInv
  <1>2. /\ ad.stage["page"] = Staged("page", ad.scan["page"])
        /\ ad.stage["asset"] = ad.scan["asset"]
    BY DEF StagingHolds, FlatFiles, Staged
  <1> QED
    BY <1>1, <1>2

LEMMA BaselineStep ==
    ASSUME Inv, BuildBaseline, UNCHANGED build
    PROVE  Inv'
  <1>1. /\ UNCHANGED <<flat, instants, rel, side, current, apiVars, sourceVars>>
        /\ ad' = AdopterIdle /\ ad.pc = "build"
    BY DEF BuildBaseline, GiveUp
  <1>t. /\ ad' \in Adopter /\ build' \in Builder /\ pub \in [Writers -> Progress]
        /\ cands \in [Writers -> Candidate \cup {None}]
        /\ side' \in [Sessions -> Nat \cup {None}] /\ current' \in Sessions \cup {None}
    BY <1>1, Typed, IdleTypes DEF Inv
  <1>2. FlatInv' /\ RecordInv' /\ Remembered
    BY <1>1, AdopterAt, FrameRecord, SameIsKept DEF AdopterIdle, Inv
  <1>v. \A s : Valid(s) => Valid(s)'
    BY <1>1, ValidSame
  <1>3. CASE ~(StagingHolds /\ current = None)
    <2>1. UNCHANGED <<cands, pub>>
      BY <1>3 DEF BuildBaseline
    <2>2. PubInv'
      BY <1>2, <1>v, <2>1, FramePub DEF Inv
    <2> QED
      BY <1>1, <1>t, <1>2, <2>1, <2>2, WriterStep
  <1>4. CASE StagingHolds /\ current = None
    <2>1. PICK man : man = BuildManifest(BootstrapPayload, BaselineIdentity, BootstrapProvenance)
      OBVIOUS
    <2>2. PICK c : c = [payload |-> BootstrapPayload, identity |-> BaselineIdentity, man |-> man,
                        evidence |-> None]
      OBVIOUS
    <2>3. PICK p : p = Preparing(0, TRUE)
      OBVIOUS
    <2>4. /\ cands' = [cands EXCEPT !["adopter"] = c] /\ pub' = [pub EXCEPT !["adopter"] = p]
      BY <1>4, <2>1, <2>2, <2>3 DEF BuildBaseline
    <2>5. BootstrapPayload \in Payload
      <3>1. ad.stage \in [page : Reports, asset : Nat \cup {None}]
        BY Typed DEF Inv, Adopter
      <3> QED
        BY <3>1 DEF BootstrapPayload, Payload
    <2>6. BaselineIdentity \in Identity /\ BootstrapProvenance \in Provenance
      BY DEF BaselineIdentity, IdentityOf, Identity, BootstrapProvenance, Provenance
    <2>7. man \in Manifest /\ man.files = BootstrapPayload
      BY <2>1, <2>5, <2>6 DEF BuildManifest, Manifest
    <2>8. c \in Candidate /\ c.man = man /\ c # None
      <3>1. c \in Candidate /\ c.man = man
        BY <2>2, <2>5, <2>6, <2>7 DEF Candidate
      <3> QED
        BY <3>1, NotNone
    <2>9. p \in Progress /\ p.pc = "verify" /\ p.s = 0
      BY <2>3, IdleTypes, SessionsNat DEF Progress, PubPlaces, Preparing
    <2>10. /\ cands' \in [Writers -> Candidate \cup {None}] /\ pub' \in [Writers -> Progress]
           /\ cands'["adopter"] = c /\ pub'["adopter"] = p
           /\ cands'["publisher"] = cands["publisher"] /\ pub'["publisher"] = pub["publisher"]
      BY <1>t, <2>4, <2>8, <2>9 DEF Writers
    <2>11. Genuine("adopter", man)
      <3>1. /\ man.files.reports = ad.stage["page"] /\ man.files.assets = ad.stage["asset"]
        BY <2>7 DEF BootstrapPayload
      <3> QED
        BY <1>1, <1>4, <3>1, StagedIsServed DEF Genuine
    <2>12. Fine("adopter", p, c)'
      <3>1. Genuine("adopter", c.man)'
        BY <1>2, <2>8, <2>11, GenuineKept
      <3> QED
        BY <2>8, <2>9, <3>1 DEF Fine
    <2>13. PubInv'
      <3>1. "adopter" \in Writers /\ "publisher" \in Writers
        BY DEF Writers
      <3>2. Fine("adopter", pub["adopter"], cands["adopter"])'
        BY <2>10, <2>12, <3>1, FineAt
      <3>3. Fine("publisher", pub["publisher"], cands["publisher"])'
        BY <1>2, <1>v, <2>10, <3>1, FrameWriter DEF Inv
      <3> SUFFICES ASSUME NEW w \in Writers
                   PROVE  Fine(w, pub[w], cands[w])'
        BY DEF PubInv
      <3>4. CASE w = "adopter"
        BY <3>2, <3>4
      <3>5. CASE w = "publisher"
        BY <3>3, <3>5
      <3> QED
        BY <3>4, <3>5 DEF Writers
    <2> QED
      BY <1>1, <1>t, <1>2, <2>10, <2>13, WriterStep
  <1> QED
    BY <1>3, <1>4

LEMMA TamperCandidateStep ==
    ASSUME Inv, NEW part \in TamperParts, TamperCandidate(part),
           UNCHANGED <<sourceVars, adoptionVars, build>>
    PROVE  Inv'
  <1>1. UNCHANGED <<rel, side, current, pub, apiVars>> /\ cands["publisher"] # None
    BY DEF TamperCandidate
  <1>t. /\ ad' \in Adopter /\ build' \in Builder /\ pub' \in [Writers -> Progress]
        /\ cands \in [Writers -> Candidate \cup {None}] /\ UNCHANGED <<flat, instants>>
        /\ side' \in [Sessions -> Nat \cup {None}] /\ current' \in Sessions \cup {None}
    BY <1>1, Typed DEF Inv, adoptionVars
  <1>2. FlatInv' /\ RecordInv' /\ Remembered
    BY <1>1, <1>t, FrameFlat, FrameRecord, SameIsKept DEF Inv
  <1>v. \A s : Valid(s) => Valid(s)'
    BY <1>1, ValidSame
  <1>3. PICK d : d = cands["publisher"]
    OBVIOUS
  <1>4. d \in Candidate /\ "publisher" \in Writers /\ "adopter" \in Writers
    BY <1>1, <1>3, Typed DEF Inv, Writers
  <1>5. PICK y : y = [d.payload EXCEPT ![part] = Bad]
    OBVIOUS
  <1>6. PICK c : c = [d EXCEPT !.payload = y]
    OBVIOUS
  <1>7. y \in Payload
    <2>1. part \in {"reports", "assets", "app"} /\ d.payload \in Payload
      BY <1>4, PublicationAssumption DEF Parts, Candidate
    <2> QED
      BY <1>5, <2>1 DEF Payload, Reports
  <1>8. c \in Candidate /\ c.man = d.man
    BY <1>4, <1>6, <1>7 DEF Candidate
  <1>9. cands' = [cands EXCEPT !["publisher"] = c]
    BY <1>3, <1>4, <1>5, <1>6, <1>t DEF TamperCandidate, Candidate
  <1>10. /\ cands' \in [Writers -> Candidate \cup {None}] /\ cands'["publisher"] = c
         /\ cands'["adopter"] = cands["adopter"]
    BY <1>t, <1>4, <1>8, <1>9
  <1>11. PubInv'
    <2>1. Fine("adopter", pub["adopter"], cands["adopter"])'
      BY <1>1, <1>2, <1>v, <1>4, <1>10, FrameWriter DEF Inv
    <2>2. Fine("publisher", pub["publisher"], cands["publisher"])'
      <3>1. PICK p : p = pub["publisher"]
        OBVIOUS
      <3>2. Fine("publisher", p, d) /\ d # None
        BY <1>1, <1>3, <1>4, <3>1 DEF Inv, PubInv
      <3>3. Fine("publisher", p, c)
        BY <1>8, <3>2, NotNone DEF Fine
      <3>4. PICK s : s = p.s
        OBVIOUS
      <3>5. p.pc = "record" => Valid(s)
        BY <3>3, <3>4 DEF Fine
      <3>6. Fine("publisher", p, c)'
        BY <1>2, <1>v, <3>3, <3>4, <3>5, FineKept
      <3>7. pub'["publisher"] = p
        BY <1>1, <3>1
      <3> QED
        BY <1>4, <1>10, <3>6, <3>7, FineAt
    <2> SUFFICES ASSUME NEW w \in Writers
                 PROVE  Fine(w, pub[w], cands[w])'
      BY DEF PubInv
    <2>3. CASE w = "adopter"
      BY <2>1, <2>3
    <2>4. CASE w = "publisher"
      BY <2>2, <2>4
    <2> QED
      BY <2>3, <2>4 DEF Writers
  <1> QED
    BY <1>1, <1>t, <1>2, <1>10, <1>11, WriterStep

LEMMA SourceStep ==
    ASSUME Inv, SourceChanges, UNCHANGED <<publicationVars, adoptionVars, build>>
    PROVE  Inv'
  <1>1. UNCHANGED <<diskVars, pub, apiVars, rel, side, current, cands, instants>>
    BY DEF publicationVars, diskVars, adoptionVars
  <1>t. head \in Nat /\ clean \in BOOLEAN
    BY DEF Inv, TypeOK
  <1>2. SourceType'
    <2>1. head' \in Nat
      BY <1>t DEF SourceChanges
    <2>2. clean' \in BOOLEAN
      BY <1>t, Zenon DEF SourceChanges
    <2> QED
      BY <2>1, <2>2 DEF SourceType
  <1>3. Types'
    BY <1>1, <1>2, TypesAreTypeOK, TypesKept DEF Inv, Types
  <1>4. TypeOK'
    BY <1>3, TypesAreTypeOKNext
  <1>5. SourceKept
    BY <1>t DEF SourceChanges, SourceKept
  <1>6. BuildInv'
    BY <1>1, <1>4, <1>5, SameIsKept, FrameBuild DEF Inv
  <1>7. RelInv' /\ RecordInv' /\ FlatInv'
    BY <1>1, SameIsKept, FrameRel, FrameRecord, FrameFlat DEF Inv
  <1>8. PubInv'
    <2>1. \A s : Valid(s) => Valid(s)'
      BY <1>1, ValidSame
    <2> QED
      BY <1>1, <2>1, SameIsKept, FramePub DEF Inv
  <1> QED
    BY <1>4, <1>6, <1>7, <1>8 DEF Inv

-----------------------------------------------------------------------------
(* Theorems *)

LEMMA Begins == Init => Inv
  <1> SUFFICES ASSUME Init
               PROVE  Inv
    OBVIOUS
  <1> USE DEF Init, PublicationInit, AdoptionInit
  <1>1. Types
    <2>1. SourceType /\ DiskType /\ ApiType
      BY SessionsNat DEF SourceType, DiskType, ApiType
    <2>2. PubType /\ FlatType /\ BuildType
      BY IdleTypes DEF PubType, FlatType, BuildType
    <2> QED
      BY <2>1, <2>2 DEF Types
  <1>2. TypeOK
    BY <1>1, TypesAreTypeOK
  <1>3. PubInv
    BY DEF PubInv, Fine, Idle
  <1>4. RelInv /\ RecordInv
    BY DEF RelInv, ReportsAreAdopted, OneSource, RecordInv
  <1>5. BuildInv /\ FlatInv
    BY DEF BuildInv, FlatInv, BuilderIdle, AdopterIdle
  <1> QED
    BY <1>2, <1>3, <1>4, <1>5 DEF Inv

LEMMA StepKeepsInv ==
    ASSUME Inv, Next
    PROVE  Inv'
  <1>1. CASE Build
    BY <1>1, BuildStep
  <1>2. CASE Adopt
    BY <1>2, QuietAdoptStep, EndStep, BaselineStep, ReadStep, FlatStep DEF Adopt
  <1>3. CASE Publish
    <2>1. UNCHANGED <<sourceVars, adoptionVars, build>>
      BY <1>3 DEF Publish
    <2>2. ASSUME NEW s \in Sessions \ {0}, NEW switch \in BOOLEAN, StartPrepare(s, switch)
          PROVE  Inv'
      <3>1. s \in Sessions /\ s # 0
        OBVIOUS
      <3> QED
        BY <2>1, <2>2, <3>1, StartStep
    <2>3. ASSUME NEW w \in Writers,
                 \/ VerifySource(w) \/ CopyTree(w) \/ RenameStaging(w) \/ ValidatePrepared(w)
                 \/ SwitchCurrent(w) \/ RecordCurrent(w) \/ WriterDies(w)
          PROVE  Inv'
      BY <2>1, <2>3, VerifyStep, CopyStep, RenameStep, ValidateStep, SwitchStep, RecordStep
    <2>4. ASSUME NEW s \in Sessions, StartRollback(s)
          PROVE  Inv'
      <3>1. StartRollback(s) \/ (s # 0 /\ \E switch \in BOOLEAN : StartPrepare(s, switch))
        BY <2>4
      <3> QED
        BY <2>1, <3>1, StartStep
    <2>5. CASE ValidateCurrent
      BY <2>1, <2>5, ValidateCurrentStep
    <2> QED
      BY <1>3, <2>2, <2>3, <2>4, <2>5 DEF Publish
  <1>4. CASE Identify
    BY <1>4, AnswerStep, CheckStep DEF Identify
  <1>5. CASE Environment
    <2>1. ASSUME NEW s \in Sessions, Touch(s) \/ \E p \in TamperParts : Tamper(s, p),
                 UNCHANGED <<sourceVars, adoptionVars, build>>
          PROVE  Inv'
      BY <2>1, AlteredOf, AlteredStep DEF Inv
    <2>2. ASSUME NEW p \in TamperParts, TamperCandidate(p),
                 UNCHANGED <<sourceVars, adoptionVars, build>>
          PROVE  Inv'
      BY <2>2, TamperCandidateStep
    <2>3. ASSUME ApiRestarts, UNCHANGED <<sourceVars, adoptionVars, build>>
          PROVE  Inv'
      BY <2>3, AnswerStep
    <2>4. ASSUME SourceChanges, UNCHANGED <<publicationVars, adoptionVars, build>>
          PROVE  Inv'
      BY <2>4, SourceStep
    <2> QED
      BY <1>5, <2>1, <2>2, <2>3, <2>4 DEF Environment
  <1> QED
    BY <1>1, <1>2, <1>3, <1>4, <1>5 DEF Next

LEMMA StutterKeepsInv ==
    ASSUME Inv, UNCHANGED vars
    PROVE  Inv'
  <1>1. UNCHANGED otherVars /\ UNCHANGED build
    BY DEF vars, otherVars
  <1>2. build' \in Builder /\ TypeOK'
    <2>1. Types'
      BY <1>1, TypesAreTypeOK, TypesKept DEF Inv, Types, otherVars, publicationVars
    <2> QED
      BY <1>1, <2>1, TypesAreTypeOKNext DEF Types, BuildType
  <1>3. BuildInv'
    <2>1. UNCHANGED <<sourceVars, rel, instants>>
      BY <1>1 DEF otherVars, publicationVars, diskVars, adoptionVars
    <2> QED
      BY <1>1, <1>2, <2>1, SameIsKept, FrameBuild DEF Inv
  <1> QED
    BY <1>1, <1>2, <1>3, BuilderAlone

(* The chain keeps what the proofs below rest on, in every behaviour:       *)
(* whatever CURRENT, the Candidates, the checkout and the Flat root do      *)
(* between any two steps, and whoever dies.                                 *)
THEOREM ReleaseCorrect == Spec => []Inv
  <1>1. Inv /\ [Next]_vars => Inv'
    BY StepKeepsInv, StutterKeepsInv
  <1> QED
    BY <1>1, Begins, PTL DEF Spec

(* No release declares reports the Flat installation did not serve, and the *)
(* baseline declares them with the assets of the same moment                *)
(* (current_adoption.py reads a root in service; the builder copies from a  *)
(* CURRENT whose files change underneath).                                  *)
THEOREM Adopted == Spec => []ReportsAreAdopted
  <1>1. Inv => ReportsAreAdopted
    BY DEF Inv, RelInv
  <1> QED
    BY <1>1, ReleaseCorrect, PTL

(* A published release is of one commit, and what the API would answer from *)
(* its cache or the sidecar validates (current_publication_identity).       *)
THEOREM ReleaseTrue == Spec => []ReleaseIsTrue
  <1>1. Inv => ReleaseIsTrue
    <2> SUFFICES ASSUME Inv
                 PROVE  AnswerIsTrue
      BY DEF Inv, RelInv, ReleaseIsTrue
    <2> SUFFICES ASSUME NEW s \in Sessions, rel[s] # None, Cached(s) \/ SidecarMatches(s)
                 PROVE  Valid(s)
      BY DEF AnswerIsTrue
    <2>1. CASE Cached(s)
      <3>1. PICK k : k = Key(s)
        OBVIOUS
      <3>2. k \in cache /\ k[1] = s /\ k[2] = rel[s].stamp
        BY <2>1, <3>1 DEF Cached, Key
      <3> QED
        BY <3>2 DEF Inv, RecordInv
    <2>2. CASE SidecarMatches(s)
      BY <2>2 DEF Inv, RecordInv, SidecarMatches
    <2> QED
      BY <2>1, <2>2
  <1> QED
    BY <1>1, ReleaseCorrect, PTL

(* CURRENT moves only to a release that validates at that moment: no other  *)
(* step of publication, rollback, adoption or building touches the pointer. *)
THEOREM SwitchValid == Spec => SwitchOnlyValid
  <1>1. [Next]_vars => [(current' # current) => Valid(current)']_vars
    <2> SUFFICES ASSUME Next, current' # current
                 PROVE  Valid(current)'
      OBVIOUS
    <2>1. PICK w \in Writers : SwitchCurrent(w)
      <3>1. ~Build
        BY DEF Build, BindServedRoot, MakeIdentity, CopyServedRoot, CopyApplication, RefreshAssets,
               SealCandidate, BuilderDies, otherVars, publicationVars, diskVars
      <3>2. ~Adopt
        BY DEF Adopt, PlanAdoption, EndPass, BuildBaseline, TamperStaging, AdopterDies, ReadFile,
               FlatChanges, publicationVars, diskVars
      <3>3. ~Identify
        BY DEF Identify, AnswerFromRecord, MissIdentity, CheckIdentity, diskVars
      <3>4. ~Environment
        BY DEF Environment, Touch, Tamper, TamperCandidate, ApiRestarts, publicationVars, diskVars
      <3>5. Publish
        BY <3>1, <3>2, <3>3, <3>4 DEF Next
      <3> QED
        BY <3>5 DEF Publish, StartPrepare, VerifySource, CopyTree, RenameStaging, ValidatePrepared,
                    RecordCurrent, WriterDies, StartRollback, ValidateCurrent, diskVars
    <2>2. Valid(pub[w].s) /\ current' = pub[w].s /\ UNCHANGED rel
      BY <2>1 DEF SwitchCurrent
    <2> QED
      BY <2>2 DEF Valid, Declared, VerifyManifest, TrustedProvenance, ReleaseAssetsMatch,
                  ApplicationValid
  <1> QED
    BY <1>1, PTL DEF Spec, SwitchOnlyValid

==============================================================================
