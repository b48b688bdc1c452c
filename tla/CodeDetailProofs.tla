--------------------------- MODULE CodeDetailProofs ---------------------------
(***************************************************************************)
(* What CodeDetail promises for any number of request threads, connections,*)
(* reviews, injections and cache sizes.                                    *)
(***************************************************************************)
EXTENDS CodeDetail, FiniteSetTheorems, TLAPS

-----------------------------------------------------------------------------
(* Types *)

RequestPlaces == {"idle", "lookup", "check", "claim", "waitIdentity", "load", "identified",
                  "meta", "overlay", "waitOverlay", "read", "composed", "render"}
LoadPlaces == {"off", "meta", "open", "chunk", "decode", "wait", "again", "done", "failed"}

Request == [at : RequestPlaces, kind : {"lines", "layout"}, full : Versions \cup {None},
            id : Versions \cup {None}, rows : Versions \cup {None},
            began : Versions \X Generations \X Generations]

Load == [at : LoadPlaces, want : {"meta", "lines"},
         sig : Generations \cup {Missing}, meta : Generations \cup {Missing},
         msig : Generations \cup {Missing}, lines : Generations \cup {Missing}]

LeaseRow == [at : Places, conn : Conns \cup {None}]

(* A read of the store that changes some of its fields. *)
LEMMA LoadDomain ==
    ASSUME NEW d \in Load
    PROVE  DOMAIN d = {"at", "want", "sig", "meta", "msig", "lines"}
  BY DEF Load

LEMMA FieldDomain ==
    ASSUME NEW a, NEW s, NEW m, NEW n
    PROVE  /\ DOMAIN [at |-> a] = {"at"}
           /\ DOMAIN [at |-> a, sig |-> s] = {"at", "sig"}
           /\ DOMAIN [at |-> a, sig |-> s, lines |-> m] = {"at", "sig", "lines"}
           /\ DOMAIN [at |-> a, meta |-> m, msig |-> n] = {"at", "meta", "msig"}
           /\ DOMAIN [at |-> a, sig |-> s, meta |-> m, msig |-> n] = {"at", "sig", "meta", "msig"}
  OBVIOUS

LEMMA LoadsFields ==
    ASSUME load \in [Threads -> Load], NEW t \in Threads, NEW fields, Loads(t, fields)
    PROVE  /\ load' = [load EXCEPT ![t] = load'[t]]
           /\ load'[t] = [f \in {"at", "want", "sig", "meta", "msig", "lines"} |->
                            IF f \in DOMAIN fields THEN fields[f] ELSE load[t][f]]
  <1>1. DOMAIN load[t] = {"at", "want", "sig", "meta", "msig", "lines"}
    BY LoadDomain
  <1>2. load'[t] = [f \in DOMAIN load[t] |-> IF f \in DOMAIN fields THEN fields[f] ELSE load[t][f]]
    BY DEF Loads
  <1> QED
    BY <1>1, <1>2 DEF Loads

(* A step of a read of the store: where it goes on, and what it has. *)
Reading(t, d) == load' = [load EXCEPT ![t] = d]

LEMMA LoadsAt ==
    ASSUME load \in [Threads -> Load], NEW t \in Threads,
           NEW a \in LoadPlaces, Loads(t, [at |-> a])
    PROVE  \E d \in Load : /\ Reading(t, d)
                           /\ d.at = a /\ d.want = load[t].want /\ d.sig = load[t].sig
                           /\ d.meta = load[t].meta /\ d.msig = load[t].msig
                           /\ d.lines = load[t].lines
  <1>1. load[t] \in Load
    OBVIOUS
  <1>2. PICK d : d = load'[t]
    OBVIOUS
  <1>3. d = [f \in {"at", "want", "sig", "meta", "msig", "lines"} |->
                            IF f \in {"at"} THEN a ELSE load[t][f]]
    BY <1>2, LoadsFields, FieldDomain
  <1>4. d = [at |-> a, want |-> load[t].want, sig |-> load[t].sig, meta |-> load[t].meta,
             msig |-> load[t].msig, lines |-> load[t].lines]
    BY <1>3
  <1> QED
    BY <1>1, <1>2, <1>4, LoadsFields DEF Load, Reading

LEMMA LoadsOpen ==
    ASSUME load \in [Threads -> Load], NEW t \in Threads,
           NEW a \in LoadPlaces, NEW s \in Generations,
           Loads(t, [at |-> a, sig |-> s])
    PROVE  \E d \in Load : /\ Reading(t, d)
                           /\ d.at = a /\ d.want = load[t].want /\ d.sig = s
                           /\ d.meta = load[t].meta /\ d.msig = load[t].msig /\ d.lines = load[t].lines
  <1>1. load[t] \in Load
    OBVIOUS
  <1>2. PICK d : d = load'[t]
    OBVIOUS
  <1>3. PICK fields : fields = [at |-> a, sig |-> s]
    OBVIOUS
  <1>4. DOMAIN fields = {"at", "sig"} /\ fields.at = a /\ fields.sig = s
    BY <1>3
  <1>5. d = [f \in {"at", "want", "sig", "meta", "msig", "lines"} |->
                            IF f \in {"at", "sig"} THEN fields[f] ELSE load[t][f]]
    BY <1>2, <1>3, <1>4, LoadsFields
  <1>6. d = [at |-> a, want |-> load[t].want, sig |-> s, meta |-> load[t].meta,
             msig |-> load[t].msig, lines |-> load[t].lines]
    BY <1>4, <1>5
  <1> QED
    BY <1>1, <1>2, <1>6, LoadsFields DEF Load, Reading

LEMMA LoadsLines ==
    ASSUME load \in [Threads -> Load], NEW t \in Threads,
           NEW a \in LoadPlaces, NEW s \in Generations, NEW k \in Generations,
           Loads(t, [at |-> a, sig |-> s, lines |-> k])
    PROVE  \E d \in Load : /\ Reading(t, d)
                           /\ d.at = a /\ d.want = load[t].want /\ d.sig = s
                           /\ d.meta = load[t].meta /\ d.msig = load[t].msig /\ d.lines = k
  <1>1. load[t] \in Load
    OBVIOUS
  <1>2. PICK d : d = load'[t]
    OBVIOUS
  <1>3. PICK fields : fields = [at |-> a, sig |-> s, lines |-> k]
    OBVIOUS
  <1>4. DOMAIN fields = {"at", "sig", "lines"} /\ fields.at = a /\ fields.sig = s /\ fields.lines = k
    BY <1>3
  <1>5. d = [f \in {"at", "want", "sig", "meta", "msig", "lines"} |->
                            IF f \in {"at", "sig", "lines"} THEN fields[f] ELSE load[t][f]]
    BY <1>2, <1>3, <1>4, LoadsFields
  <1>6. d = [at |-> a, want |-> load[t].want, sig |-> s, meta |-> load[t].meta,
             msig |-> load[t].msig, lines |-> k]
    BY <1>4, <1>5
  <1> QED
    BY <1>1, <1>2, <1>6, LoadsFields DEF Load, Reading

LEMMA LoadsMeta ==
    ASSUME load \in [Threads -> Load], NEW t \in Threads,
           NEW a \in LoadPlaces, NEW m \in Generations, NEW n \in Generations,
           Loads(t, [at |-> a, meta |-> m, msig |-> n])
    PROVE  \E d \in Load : /\ Reading(t, d)
                           /\ d.at = a /\ d.want = load[t].want /\ d.sig = load[t].sig
                           /\ d.meta = m /\ d.msig = n /\ d.lines = load[t].lines
  <1>1. load[t] \in Load
    OBVIOUS
  <1>2. PICK d : d = load'[t]
    OBVIOUS
  <1>3. PICK fields : fields = [at |-> a, meta |-> m, msig |-> n]
    OBVIOUS
  <1>4. DOMAIN fields = {"at", "meta", "msig"} /\ fields.at = a /\ fields.meta = m /\ fields.msig = n
    BY <1>3
  <1>5. d = [f \in {"at", "want", "sig", "meta", "msig", "lines"} |->
                            IF f \in {"at", "meta", "msig"} THEN fields[f] ELSE load[t][f]]
    BY <1>2, <1>3, <1>4, LoadsFields
  <1>6. d = [at |-> a, want |-> load[t].want, sig |-> load[t].sig, meta |-> m,
             msig |-> n, lines |-> load[t].lines]
    BY <1>4, <1>5
  <1> QED
    BY <1>1, <1>2, <1>6, LoadsFields DEF Load, Reading

LEMMA LoadsCached ==
    ASSUME load \in [Threads -> Load], NEW t \in Threads,
           NEW a \in LoadPlaces, NEW s \in Generations, NEW m \in Generations, NEW n \in Generations,
           Loads(t, [at |-> a, sig |-> s, meta |-> m, msig |-> n])
    PROVE  \E d \in Load : /\ Reading(t, d)
                           /\ d.at = a /\ d.want = load[t].want /\ d.sig = s
                           /\ d.meta = m /\ d.msig = n /\ d.lines = load[t].lines
  <1>1. load[t] \in Load
    OBVIOUS
  <1>2. PICK d : d = load'[t]
    OBVIOUS
  <1>3. PICK fields : fields = [at |-> a, sig |-> s, meta |-> m, msig |-> n]
    OBVIOUS
  <1>4. DOMAIN fields = {"at", "sig", "meta", "msig"} /\ fields.at = a /\ fields.sig = s /\ fields.meta = m /\ fields.msig = n
    BY <1>3
  <1>5. d = [f \in {"at", "want", "sig", "meta", "msig", "lines"} |->
                            IF f \in {"at", "sig", "meta", "msig"} THEN fields[f] ELSE load[t][f]]
    BY <1>2, <1>3, <1>4, LoadsFields
  <1>6. d = [at |-> a, want |-> load[t].want, sig |-> s, meta |-> m,
             msig |-> n, lines |-> load[t].lines]
    BY <1>4, <1>5
  <1> QED
    BY <1>1, <1>2, <1>6, LoadsFields DEF Load, Reading

-----------------------------------------------------------------------------
(* The pool *)

Connecting == {t \in Threads : lease[t].at = "connect"}

(* Connections are lent to one thread, or to other work, or wait in the     *)
(* queue; only lent ones have a snapshot.                                   *)
Lent ==
    /\ \A t \in Threads : lease[t].conn # None <=> lease[t].at = "held"
    /\ \A t, u \in Threads : lease[t].conn # None /\ lease[t].conn = lease[u].conn => t = u
    /\ \A t \in Threads : lease[t].conn \notin idle \cup others
    /\ idle \cap others = {}
    /\ \A c \in Conns \ (Leased \cup others) : snapshot[c] = None

(* The counters count, and stay within the limit. *)
Counted ==
    /\ IsFiniteSet(Open) /\ active = Cardinality(Open)
    /\ IsFiniteSet(Connecting) /\ connecting = Cardinality(Connecting)
    /\ active + connecting <= MaxConnections

PoolInv == PoolTypeOK /\ Lent /\ Counted

(* A lease that changes. *)
LEMMA LeaseOf ==
    ASSUME lease \in [Threads -> LeaseRow], NEW t \in Threads, NEW place \in Places,
           NEW c \in Conns \cup {None}, Lease(t, place, c)
    PROVE  /\ lease' \in [Threads -> LeaseRow]
           /\ lease'[t].at = place /\ lease'[t].conn = c
           /\ \A u \in Threads : u # t => lease'[u] = lease[u]
  BY DEF Lease, LeaseRow

(* The connections that are lent to threads after a lease has changed. *)
LEMMA LeasedOf ==
    ASSUME lease \in [Threads -> LeaseRow], Lent, NEW t \in Threads, NEW place \in Places,
           NEW c \in Conns \cup {None}, Lease(t, place, c)
    PROVE  /\ lease[t].conn = None /\ c = None => Leased' = Leased
           /\ lease[t].conn = None /\ c # None => Leased' = Leased \cup {c}
           /\ lease[t].conn # None /\ c = None => Leased' = Leased \ {lease[t].conn}
  <1>1. /\ lease'[t].conn = c
        /\ \A u \in Threads : u # t => lease'[u] = lease[u]
    BY LeaseOf
  <1>2. \A u \in Threads : lease[t].conn # None /\ u # t => lease[u].conn # lease[t].conn
    BY DEF Lent
  <1>3. Leased' = {lease'[u].conn : u \in Threads} \ {None}
    BY DEF Leased
  <1>4. CASE lease[t].conn = None /\ c = None
    BY <1>1, <1>3, <1>4 DEF Leased
  <1>5. CASE lease[t].conn = None /\ c # None
    BY <1>1, <1>3, <1>5 DEF Leased
  <1>6. CASE lease[t].conn # None /\ c = None
    BY <1>1, <1>2, <1>3, <1>6 DEF Leased
  <1> QED
    BY <1>4, <1>5, <1>6

(* The threads that make a connection after a lease has changed. *)
LEMMA ConnectingOf ==
    ASSUME lease \in [Threads -> LeaseRow], NEW t \in Threads, NEW place \in Places,
           NEW c \in Conns \cup {None}, Lease(t, place, c)
    PROVE  Connecting' = IF place = "connect" THEN Connecting \cup {t} ELSE Connecting \ {t}
  <1>1. /\ lease'[t].at = place
        /\ \A u \in Threads : u # t => lease'[u] = lease[u]
    BY LeaseOf
  <1>2. Connecting' = {u \in Threads : lease'[u].at = "connect"}
    BY DEF Connecting
  <1> QED
    BY <1>1, <1>2 DEF Connecting

(* Leases of threads are connections. *)
LEMMA LeasedType ==
    ASSUME PoolTypeOK
    PROVE  /\ lease \in [Threads -> LeaseRow] /\ Leased \subseteq Conns /\ Open \subseteq Conns
           /\ \A t \in Threads : lease[t] \in LeaseRow /\ lease[t].conn \in Conns \cup {None}
           /\ \A t \in Threads : lease[t].conn # None => lease[t].conn \in Leased
           /\ \A c \in Leased : \E t \in Threads : lease[t].conn = c /\ c # None
  BY DEF PoolTypeOK, LeaseRow, Leased, Open

(* One connection more, one less, or all but the idle ones. *)
LEMMA OpenMore ==
    ASSUME Counted, NEW c, c \notin Open
    PROVE  IsFiniteSet(Open \cup {c}) /\ active + 1 = Cardinality(Open \cup {c})
  BY FS_AddElement DEF Counted

LEMMA OpenLess ==
    ASSUME Counted, active \in Nat, NEW c, c \in Open
    PROVE  /\ IsFiniteSet(Open \ {c}) /\ Less(active) = Cardinality(Open \ {c})
           /\ Less(active) = active - 1 /\ Less(active) \in Nat
  <1>1. IsFiniteSet(Open \ {c}) /\ Cardinality(Open \ {c}) = active - 1
    BY FS_RemoveElement DEF Counted
  <1>2. Cardinality(Open \ {c}) \in Nat
    BY <1>1, FS_CardinalityType
  <1> QED
    BY <1>1, <1>2 DEF Less

LEMMA OpenClosed ==
    ASSUME Counted, active \in Nat
    PROVE  /\ IsFiniteSet(Open \ idle) /\ active - Cardinality(idle) = Cardinality(Open \ idle)
           /\ active - Cardinality(idle) \in Nat /\ active - Cardinality(idle) <= active
  <1>1. IsFiniteSet(Open) /\ idle \in SUBSET Open /\ Open \cap idle = idle
    BY DEF Counted, Open
  <1>2. IsFiniteSet(Open \ idle) /\ Cardinality(Open \ idle) = Cardinality(Open) - Cardinality(idle)
    BY <1>1, FS_Difference
  <1>3. IsFiniteSet(idle) /\ Cardinality(idle) <= Cardinality(Open)
    BY <1>1, FS_Subset
  <1>4. Cardinality(idle) \in Nat
    BY <1>3, FS_CardinalityType
  <1> QED
    BY <1>2, <1>3, <1>4 DEF Counted

(* A connect that ends. *)
LEMMA ConnectingLess ==
    ASSUME Counted, connecting \in Nat, NEW t, t \in Connecting
    PROVE  /\ IsFiniteSet(Connecting \ {t}) /\ Less(connecting) = Cardinality(Connecting \ {t})
           /\ Less(connecting) = connecting - 1 /\ Less(connecting) \in Nat
  <1>1. IsFiniteSet(Connecting \ {t}) /\ Cardinality(Connecting \ {t}) = connecting - 1
    BY FS_RemoveElement DEF Counted
  <1>2. Cardinality(Connecting \ {t}) \in Nat
    BY <1>1, FS_CardinalityType
  <1> QED
    BY <1>1, <1>2 DEF Less

(* What the pool does in a step: the operations, where the code calls them. *)
PoolMove ==
    \/ UNCHANGED poolVars
    \/ \E t \in Threads : lease[t].at = "off" /\ Borrows(t)
    \/ \E t \in Threads : PoolStep(t)
    \/ \E t \in Threads : \E v \in Versions : Reads(t, v)
    \/ \E t \in Threads : lease[t].at = "held" /\ Returns(t)
    \/ \E t \in Threads : /\ lease[t].at = "refused" /\ Lease(t, "off", None)
                          /\ UNCHANGED <<version, snapshot, idle, active, connecting, shut, others>>
    \/ Review \/ CloseAll \/ OthersBorrow \/ OthersReturn

(* A lease that moves between places without a connection. *)
LEMMA WaitingMoves ==
    ASSUME PoolInv, NEW t \in Threads, lease[t].at # "held", NEW place \in Places,
           place # "held", Lease(t, place, None),
           UNCHANGED <<version, snapshot, idle, active, shut, others>>,
           connecting' \in Nat, IsFiniteSet(Connecting'), connecting' = Cardinality(Connecting'),
           active + connecting' <= MaxConnections
    PROVE  PoolInv'
  <1>1. /\ lease' \in [Threads -> LeaseRow]
        /\ lease'[t].at = place /\ lease'[t].conn = None
        /\ \A u \in Threads : u # t => lease'[u] = lease[u]
    BY LeaseOf, LeasedType DEF PoolInv
  <1>2. lease[t].conn = None /\ None \notin Conns
    BY NoneAssumption DEF PoolInv, Lent
  <1>3. Leased' = Leased
    BY <1>2, LeasedOf, LeasedType DEF PoolInv
  <1>4. PoolTypeOK'
    BY <1>1 DEF PoolInv, PoolTypeOK, LeaseRow
  <1>5. Lent'
    <2>1. \A u \in Threads : lease'[u].conn # None <=> lease'[u].at = "held"
      BY <1>1 DEF PoolInv, Lent
    <2>2. \A u, w \in Threads : lease'[u].conn # None /\ lease'[u].conn = lease'[w].conn => u = w
      BY <1>1 DEF PoolInv, Lent
    <2>3. \A u \in Threads : lease'[u].conn \notin idle \cup others
      BY <1>1, <1>2 DEF PoolInv, Lent, PoolTypeOK
    <2> QED
      BY <1>3, <2>1, <2>2, <2>3 DEF PoolInv, Lent
  <1>6. Open' = Open
    BY <1>3 DEF Open
  <1> QED
    BY <1>4, <1>5, <1>6 DEF PoolInv, Counted

(* The pool never makes more connections than it may. *)
LEMMA PoolInvStep ==
    ASSUME PoolInv, PoolMove
    PROVE  PoolInv'
  <1>t. /\ version \in Versions /\ snapshot \in [Conns -> Versions \cup {None}]
        /\ idle \subseteq Conns /\ active \in Nat /\ connecting \in Nat
        /\ lease \in [Threads -> LeaseRow] /\ others \subseteq Conns
    BY LeasedType DEF PoolInv, PoolTypeOK
  <1>n. None \notin Conns /\ MaxConnections \in Nat /\ MaxVersion \in Nat
    BY NoneAssumption, PoolAssumption
  <1>c. Cardinality(Connecting) \in Nat /\ Cardinality(Open) \in Nat
    BY <1>t DEF PoolInv, Counted
  <1>p. {"off", "want", "connect", "held", "refused"} \subseteq Places
    BY DEF Places
  <1>1. CASE UNCHANGED poolVars
    BY <1>1 DEF poolVars, PoolInv, PoolTypeOK, Lent, Counted, Open, Leased, Connecting
  <1>2. ASSUME NEW t \in Threads, NEW place \in {"want", "refused", "off"}, Lease(t, place, None),
               lease[t].at \in {"off", "want", "refused"},
               UNCHANGED <<version, snapshot, idle, active, connecting, shut, others>>
        PROVE  PoolInv'
    <2>1. Connecting' = Connecting \ {t} /\ t \notin Connecting
      BY <1>2, <1>t, <1>p, ConnectingOf DEF Connecting
    <2>2. Connecting' = Connecting
      BY <2>1
    <2> QED
      BY <1>2, <1>p, <1>t, <2>2, WaitingMoves DEF PoolInv, Counted
  <1>3. ASSUME NEW t \in Threads, lease[t].at = "off" /\ Borrows(t)
        PROVE  PoolInv'
    BY <1>2, <1>3 DEF Borrows, Asks
  <1>4. ASSUME NEW t \in Threads, BorrowTimeout(t)
        PROVE  PoolInv'
    BY <1>2, <1>4 DEF BorrowTimeout
  <1>5. ASSUME NEW t \in Threads, Reserve(t)
        PROVE  PoolInv'
    <2>1. Connecting' = Connecting \cup {t} /\ t \notin Connecting
      BY <1>5, <1>t, <1>p, ConnectingOf DEF Reserve, Connecting
    <2>2. IsFiniteSet(Connecting') /\ Cardinality(Connecting') = connecting + 1
      BY <2>1, FS_AddElement DEF PoolInv, Counted
    <2> QED
      BY <1>5, <1>p, <1>t, <1>n, <2>2, WaitingMoves DEF Reserve, HasCapacity
  <1>6. ASSUME NEW t \in Threads, Borrow(t)
        PROVE  PoolInv'
    <2>1. PICK c \in idle : Lease(t, "held", c) /\ idle' = idle \ {c}
      BY <1>6 DEF Borrow
    <2>2. c \in Conns /\ c # None /\ lease[t].at = "want" /\ lease[t].conn = None
      BY <1>6, <1>t, <1>n, <2>1 DEF Borrow, PoolInv, Lent
    <2>3. /\ lease' \in [Threads -> LeaseRow]
          /\ lease'[t].at = "held" /\ lease'[t].conn = c
          /\ \A u \in Threads : u # t => lease'[u] = lease[u]
      BY <1>t, <1>p, <2>1, <2>2, LeaseOf
    <2>4. Leased' = Leased \cup {c} /\ Connecting' = Connecting
      <3>1. Leased' = Leased \cup {c}
        BY <1>t, <1>p, <2>1, <2>2, LeasedOf DEF PoolInv
      <3>2. Connecting' = Connecting \ {t} /\ t \notin Connecting
        BY <1>t, <1>p, <2>1, <2>2, ConnectingOf DEF Connecting
      <3> QED
        BY <3>1, <3>2
    <2>5. UNCHANGED <<version, snapshot, active, connecting, shut, others>>
      BY <1>6 DEF Borrow
    <2>6. Open' = Open
      BY <2>1, <2>4, <2>5 DEF Open
    <2>7. Lent'
      <3>1. \A u \in Threads : lease'[u].conn # None <=> lease'[u].at = "held"
        BY <2>2, <2>3 DEF PoolInv, Lent
      <3>2. \A u \in Threads : lease[u].conn # c
        BY DEF PoolInv, Lent
      <3>3. \A u, w \in Threads : lease'[u].conn # None /\ lease'[u].conn = lease'[w].conn => u = w
        BY <2>3, <3>2 DEF PoolInv, Lent
      <3>4. \A u \in Threads : lease'[u].conn \notin idle' \cup others'
        BY <2>1, <2>3, <2>5 DEF PoolInv, Lent
      <3>5. idle' \cap others' = {}
        BY <2>1, <2>5 DEF PoolInv, Lent
      <3>6. \A d \in Conns \ (Leased' \cup others') : snapshot'[d] = None
        BY <2>4, <2>5 DEF PoolInv, Lent
      <3> QED
        BY <3>1, <3>3, <3>4, <3>5, <3>6 DEF Lent
    <2>8. PoolTypeOK'
      BY <2>1, <2>3, <2>5 DEF PoolInv, PoolTypeOK, LeaseRow
    <2> QED
      BY <2>4, <2>5, <2>6, <2>7, <2>8 DEF PoolInv, Counted
  <1>7. ASSUME NEW t \in Threads, BorrowDiscards(t)
        PROVE  PoolInv'
    <2>1. PICK c \in idle : idle' = idle \ {c} /\ snapshot' = [snapshot EXCEPT ![c] = None]
      BY <1>7 DEF BorrowDiscards
    <2>2. active' = Less(active) /\ UNCHANGED <<version, connecting, shut, lease, others>>
      BY <1>7 DEF BorrowDiscards
    <2>3. Leased' = Leased /\ Connecting' = Connecting
      BY <2>2 DEF Leased, Connecting
    <2>4. c \in Open /\ c \notin Leased /\ c \notin others
      BY <1>n DEF Open, Leased, PoolInv, Lent
    <2>5. Open' = Open \ {c}
      BY <2>1, <2>2, <2>3, <2>4 DEF Open
    <2>6. PoolTypeOK' /\ active' = Cardinality(Open') /\ IsFiniteSet(Open') /\ active' = active - 1
      <3>1. active' \in Nat /\ active' = Cardinality(Open') /\ IsFiniteSet(Open') /\ active' = active - 1
        BY <1>t, <2>2, <2>4, <2>5, OpenLess DEF PoolInv
      <3> QED
        BY <2>1, <2>2, <3>1 DEF PoolInv, PoolTypeOK
    <2>7. Lent'
      BY <1>t, <2>1, <2>2, <2>3 DEF PoolInv, Lent
    <2>8. Counted'
      BY <1>t, <1>n, <2>2, <2>3, <2>6 DEF PoolInv, Counted
    <2> QED
      BY <2>6, <2>7, <2>8 DEF PoolInv
  <1>8. ASSUME NEW t \in Threads, Connect(t)
        PROVE  PoolInv'
    <2>1. lease[t].at = "connect" /\ t \in Connecting /\ lease[t].conn = None
      BY <1>8, <1>t DEF Connect, Connecting, PoolInv, Lent, LeaseRow
    <2>2. /\ UNCHANGED <<version, snapshot, idle, shut, others>>
          /\ connecting' = Less(connecting)
      BY <1>8 DEF Connect
    <2>3. /\ connecting' \in Nat /\ connecting' = connecting - 1
          /\ IsFiniteSet(Connecting \ {t}) /\ connecting' = Cardinality(Connecting \ {t})
      BY <1>t, <2>1, <2>2, ConnectingLess DEF PoolInv
    <2>4. CASE Lease(t, "refused", None) /\ UNCHANGED active
      <3>1. Connecting' = Connecting \ {t}
        BY <1>t, <1>p, <2>4, ConnectingOf
      <3>2. active + connecting' <= MaxConnections
        BY <1>t, <1>n, <2>3 DEF PoolInv, Counted
      <3> QED
        BY <1>p, <2>1, <2>2, <2>3, <2>4, <3>1, <3>2, WaitingMoves
    <2>5. ASSUME NEW c \in Conns \ Open, Lease(t, "held", c), active' = active + 1
          PROVE  PoolInv'
      <3>1. /\ lease' \in [Threads -> LeaseRow]
            /\ lease'[t].at = "held" /\ lease'[t].conn = c
            /\ \A u \in Threads : u # t => lease'[u] = lease[u]
        BY <1>t, <1>p, <2>5, LeaseOf
      <3>2. Leased' = Leased \cup {c}
        BY <1>t, <1>p, <1>n, <2>1, <2>5, LeasedOf DEF PoolInv
      <3>3. Connecting' = Connecting \ {t}
        BY <1>t, <1>p, <2>5, ConnectingOf
      <3>4. Open' = Open \cup {c}
        BY <2>2, <3>2 DEF Open
      <3>5. IsFiniteSet(Open') /\ active' = Cardinality(Open')
        BY <2>5, <3>4, OpenMore DEF PoolInv
      <3>6. Lent'
        <4>1. \A u \in Threads : lease'[u].conn # None <=> lease'[u].at = "held"
          BY <1>n, <3>1 DEF PoolInv, Lent
        <4>2. c \notin idle /\ c \notin others /\ \A u \in Threads : lease[u].conn # c
          BY <1>n, <2>5 DEF Open, Leased
        <4>3. \A u, w \in Threads : lease'[u].conn # None /\ lease'[u].conn = lease'[w].conn => u = w
          BY <3>1, <4>2 DEF PoolInv, Lent
        <4>4. \A u \in Threads : lease'[u].conn \notin idle \cup others
          BY <3>1, <4>2 DEF PoolInv, Lent
        <4>5. \A d \in Conns \ (Leased' \cup others) : snapshot[d] = None
          BY <3>2 DEF PoolInv, Lent
        <4> QED
          BY <2>2, <4>1, <4>3, <4>4, <4>5 DEF PoolInv, Lent
      <3>7. PoolTypeOK'
        BY <2>2, <2>3, <2>5, <3>1 DEF PoolInv, PoolTypeOK, LeaseRow
      <3>8. active' + connecting' <= MaxConnections
        BY <1>t, <1>n, <2>3, <2>5 DEF PoolInv, Counted
      <3> QED
        BY <2>3, <3>3, <3>5, <3>6, <3>7, <3>8 DEF PoolInv, Counted
    <2> QED
      BY <1>8, <2>4, <2>5 DEF Connect
  <1>9. ASSUME NEW t \in Threads, NEW v \in Versions, Reads(t, v)
        PROVE  PoolInv'
    <2>1. PICK c : c = lease[t].conn
      OBVIOUS
    <2>2. /\ lease[t].at = "held" /\ snapshot' = [snapshot EXCEPT ![c] = v]
          /\ UNCHANGED <<version, idle, active, connecting, shut, lease, others>>
      BY <1>9, <2>1 DEF Reads, ReadsAt
    <2>3. c \in Leased /\ Leased' = Leased /\ Open' = Open /\ Connecting' = Connecting
      BY <2>1, <2>2 DEF Leased, Open, Connecting, PoolInv, Lent
    <2>4. PoolTypeOK'
      BY <1>9, <2>2 DEF PoolInv, PoolTypeOK
    <2>5. Lent'
      BY <1>t, <2>2, <2>3 DEF PoolInv, Lent
    <2> QED
      BY <2>2, <2>3, <2>4, <2>5 DEF PoolInv, Counted
  <1>10. ASSUME NEW c \in Conns, c \in Open \ idle, GivesBack(c),
                NEW L, L \in [Threads -> LeaseRow], lease' = L,
                Leased' = Leased \ {c}, others' = others \ {c}, Connecting' = Connecting,
                \A u \in Threads : L[u] = lease[u] \/ L[u] = NoLease,
                UNCHANGED <<version, connecting, shut>>
         PROVE  PoolInv'
    <2>1. snapshot' = [snapshot EXCEPT ![c] = None]
      BY <1>10 DEF GivesBack, RollbackIfDirty
    <2>2. \/ idle' = idle \cup {c} /\ active' = active
          \/ idle' = idle /\ active' = Less(active)
      BY <1>10 DEF GivesBack
    <2>3. idle' \in {idle, idle \cup {c}}
      BY <2>2
    <2>4. Lent'
      <3>1. \A u \in Threads : L[u].conn # None <=> L[u].at = "held"
        BY <1>10 DEF PoolInv, Lent, NoLease
      <3>2. \A u, w \in Threads : L[u].conn # None /\ L[u].conn = L[w].conn => u = w
        BY <1>10 DEF PoolInv, Lent, NoLease
      <3>3. \A u \in Threads : L[u].conn \notin idle' \cup others'
        <4>1. TAKE u \in Threads
        <4>2. CASE L[u].conn = None
          BY <1>10, <1>n, <1>t, <2>3, <4>2
        <4>3. CASE L[u].conn # None
          <5>1. L[u] = lease[u] /\ L[u].conn \in Leased'
            BY <1>10, <4>3 DEF NoLease, Leased
          <5>2. L[u].conn # c
            BY <5>1, <1>10
          <5> QED
            BY <5>1, <5>2, <2>3, <1>10 DEF PoolInv, Lent
        <4> QED
          BY <4>2, <4>3
      <3>4. idle' \cap others' = {}
        BY <1>10, <2>3 DEF PoolInv, Lent
      <3>5. \A d \in Conns \ (Leased' \cup others') : snapshot'[d] = None
        BY <1>10, <1>t, <2>1 DEF PoolInv, Lent
      <3> QED
        BY <1>10, <3>1, <3>2, <3>3, <3>4, <3>5 DEF Lent
    <2>5. /\ active' \in Nat /\ active' <= active
          /\ IsFiniteSet(Open') /\ active' = Cardinality(Open')
      <3>1. CASE idle' = idle \cup {c} /\ active' = active
        <4>1. Open' = Open
          BY <1>10, <3>1 DEF Open
        <4> QED
          BY <1>t, <3>1, <4>1 DEF PoolInv, Counted
      <3>2. CASE idle' = idle /\ active' = Less(active)
        <4>1. Open' = Open \ {c}
          BY <1>10, <3>2 DEF Open
        <4> QED
          BY <1>t, <1>10, <3>2, <4>1, OpenLess DEF PoolInv
      <3> QED
        BY <2>2, <3>1, <3>2
    <2>6. PoolTypeOK'
      BY <1>10, <2>1, <2>3, <2>5 DEF PoolInv, PoolTypeOK, LeaseRow
    <2> QED
      BY <1>10, <1>t, <1>n, <2>4, <2>5, <2>6 DEF PoolInv, Counted
  <1>11. ASSUME NEW t \in Threads, lease[t].at = "held", Returns(t)
         PROVE  PoolInv'
    <2>1. PICK c : c = lease[t].conn
      OBVIOUS
    <2>2. c \in Conns /\ c # None /\ c \in Open \ idle /\ c \notin others
      BY <1>11, <1>t, <2>1, LeasedType DEF PoolInv, Lent, Open
    <2>3. GivesBack(c) /\ Lease(t, "off", None) /\ UNCHANGED <<version, connecting, shut, others>>
      BY <1>11, <2>1 DEF Returns
    <2>4. Leased' = Leased \ {c}
      BY <1>t, <1>p, <2>1, <2>2, <2>3, LeasedOf DEF PoolInv
    <2>5. Connecting' = Connecting
      <3>1. Connecting' = Connecting \ {t} /\ t \notin Connecting
        BY <1>11, <1>t, <1>p, <2>3, ConnectingOf DEF Connecting
      <3> QED
        BY <3>1
    <2>6. PICK L : L = lease'
      OBVIOUS
    <2>7. L \in [Threads -> LeaseRow] /\ \A u \in Threads : L[u] = lease[u] \/ L[u] = NoLease
      BY <1>t, <1>p, <2>3, <2>6, LeaseOf DEF Lease, NoLease
    <2> QED
      BY <2>2, <2>3, <2>4, <2>5, <2>6, <2>7, <1>10
  <1>12. CASE OthersReturn
    <2>1. PICK c \in others : GivesBack(c) /\ others' = others \ {c}
      BY <1>12 DEF OthersReturn
    <2>2. UNCHANGED <<version, connecting, shut, lease>>
      BY <1>12 DEF OthersReturn
    <2>3. c \in Conns /\ c \in Open \ idle /\ c \notin Leased
      BY <1>t, <1>n DEF PoolInv, Lent, Open, Leased
    <2>4. Leased' = Leased \ {c} /\ Connecting' = Connecting
      BY <2>2, <2>3 DEF Leased, Connecting
    <2> QED
      BY <1>t, <2>1, <2>2, <2>3, <2>4, <1>10
  <1>13. CASE OthersBorrow
    <2>1. /\ UNCHANGED <<version, connecting, shut, lease>>
          /\ Leased' = Leased /\ Connecting' = Connecting
      BY <1>13 DEF OthersBorrow, Leased, Connecting
    <2>2. ASSUME NEW c \in idle, idle' = idle \ {c}, others' = others \cup {c}, active' = active,
                 snapshot' = [snapshot EXCEPT ![c] = IF @ = None THEN version ELSE @]
          PROVE  PoolInv'
      <3>1. Open' = Open
        BY <2>1, <2>2 DEF Open
      <3>2. PoolTypeOK'
        BY <2>1, <2>2 DEF PoolInv, PoolTypeOK
      <3>3. Lent'
        BY <1>t, <2>1, <2>2 DEF PoolInv, Lent
      <3> QED
        BY <2>1, <2>2, <3>1, <3>2, <3>3 DEF PoolInv, Counted
    <2>3. ASSUME idle = {}, HasCapacity, NEW c \in Conns \ Open, others' = others \cup {c},
                 snapshot' = [snapshot EXCEPT ![c] = version], active' = active + 1, idle' = idle
          PROVE  PoolInv'
      <3>1. Open' = Open \cup {c}
        BY <2>1, <2>3 DEF Open
      <3>2. PoolTypeOK'
        BY <2>1, <2>3 DEF PoolInv, PoolTypeOK
      <3>3. c \notin Leased /\ c \notin idle /\ \A u \in Threads : lease[u].conn # c
        BY <1>n, <2>3 DEF Open, Leased
      <3>4. Lent'
        BY <1>t, <2>1, <2>3, <3>3 DEF PoolInv, Lent
      <3>5. IsFiniteSet(Open') /\ active' = Cardinality(Open')
        BY <2>3, <3>1, OpenMore DEF PoolInv
      <3> QED
        BY <1>t, <1>n, <2>1, <2>3, <3>2, <3>4, <3>5 DEF PoolInv, Counted, HasCapacity
    <2> QED
      BY <1>13, <2>2, <2>3 DEF OthersBorrow
  <1>14. CASE CloseAll
    <2>1. /\ idle' = {} /\ active' = active - Cardinality(idle)
          /\ snapshot' = [c \in Conns |-> IF c \in idle THEN None ELSE snapshot[c]]
          /\ shut' = TRUE
          /\ UNCHANGED <<version, connecting, lease, others>>
      BY <1>14 DEF CloseAll
    <2>2. Leased' = Leased /\ Connecting' = Connecting
      BY <2>1 DEF Leased, Connecting
    <2>3. Open' = Open \ idle
      BY <1>n, <2>1, <2>2 DEF Open, PoolInv, Lent, Leased
    <2>4. IsFiniteSet(Open') /\ active' = Cardinality(Open') /\ active' \in Nat /\ active' <= active
      BY <1>t, <2>1, <2>3, OpenClosed DEF PoolInv
    <2>5. PoolTypeOK'
      BY <2>1, <2>4 DEF PoolInv, PoolTypeOK
    <2>6. Lent'
      BY <1>t, <2>1, <2>2 DEF PoolInv, Lent
    <2> QED
      BY <1>t, <1>n, <2>1, <2>2, <2>4, <2>5, <2>6 DEF PoolInv, Counted
  <1>15. CASE Review
    BY <1>15, <1>t, <1>n DEF Review, PoolInv, PoolTypeOK, Lent, Counted, Open, Leased, Connecting, Versions
  <1> QED
    BY <1>1, <1>2, <1>3, <1>4, <1>5, <1>6, <1>7, <1>8, <1>9, <1>11, <1>12, <1>13, <1>14, <1>15
       DEF PoolMove, PoolStep

-----------------------------------------------------------------------------
(* What the operations of the pool do to the leases *)

(* The snapshot that a thread reads. *)
SnapOf(t) == IF lease[t].at = "held" THEN snapshot[lease[t].conn] ELSE None

(* The other threads keep their connections and what they read on them. *)
LeasesKept(t) ==
    \A u \in Threads : u # t => lease'[u] = lease[u] /\ SnapOf(u)' = SnapOf(u)

LEMMA BorrowsOf ==
    ASSUME PoolInv, NEW t \in Threads, Borrows(t)
    PROVE  /\ LeasesKept(t) /\ version' = version
           /\ lease'[t].at \in {"want", "refused"} /\ SnapOf(t)' = None
  <1>1. PICK place \in {"want", "refused"} : Lease(t, place, None)
    BY DEF Borrows, Asks
  <1>2. lease'[t].at = place /\ \A u \in Threads : u # t => lease'[u] = lease[u]
    BY <1>1, LeaseOf, LeasedType DEF PoolInv, Places
  <1>3. version' = version /\ snapshot' = snapshot
    BY DEF Borrows
  <1> QED
    BY <1>2, <1>3 DEF LeasesKept, SnapOf

LEMMA ReturnsOf ==
    ASSUME PoolInv, NEW t \in Threads, lease[t].at = "held", Returns(t)
    PROVE  /\ LeasesKept(t) /\ version' = version
           /\ lease'[t].at = "off" /\ SnapOf(t)' = None
  <1>1. lease'[t].at = "off" /\ \A u \in Threads : u # t => lease'[u] = lease[u]
    BY LeaseOf, LeasedType DEF PoolInv, Places, Returns
  <1>2. PICK c : c = lease[t].conn
    OBVIOUS
  <1>3. version' = version /\ snapshot' = [snapshot EXCEPT ![c] = None]
    BY <1>2 DEF Returns, GivesBack, RollbackIfDirty
  <1>4. \A u \in Threads : u # t /\ lease[u].at = "held" => lease[u].conn # c /\ lease[u].conn \in Conns
    BY <1>2, LeasedType DEF PoolInv, Lent
  <1>5. \A u \in Threads : u # t => SnapOf(u)' = SnapOf(u)
    BY <1>1, <1>3, <1>4 DEF SnapOf, PoolInv, PoolTypeOK
  <1> QED
    BY <1>1, <1>3, <1>5 DEF LeasesKept, SnapOf

LEMMA ReadsOf ==
    ASSUME PoolInv, NEW t \in Threads, NEW v \in Versions, Reads(t, v)
    PROVE  /\ LeasesKept(t) /\ version' = version
           /\ lease' = lease /\ lease[t].at = "held" /\ SnapOf(t)' = v
           /\ v = version \/ v = SnapOf(t)
  <1>1. PICK c : c = lease[t].conn
    OBVIOUS
  <1>2. /\ version' = version /\ lease' = lease /\ lease[t].at = "held"
        /\ snapshot' = [snapshot EXCEPT ![c] = v]
        /\ v = version \/ v = snapshot[c]
    BY <1>1 DEF Reads, ReadsAt
  <1>3. c \in Conns /\ \A u \in Threads : u # t /\ lease[u].at = "held" => lease[u].conn # c /\ lease[u].conn \in Conns
    BY <1>1, <1>2, LeasedType DEF PoolInv, Lent
  <1>4. \A u \in Threads : u # t => SnapOf(u)' = SnapOf(u)
    BY <1>2, <1>3 DEF SnapOf, PoolInv, PoolTypeOK
  <1> QED
    BY <1>1, <1>2, <1>3, <1>4 DEF LeasesKept, SnapOf, PoolInv, PoolTypeOK

LEMMA PoolStepOf ==
    ASSUME PoolInv, NEW t \in Threads, PoolStep(t)
    PROVE  /\ LeasesKept(t) /\ version' = version
           /\ lease[t].at \in {"want", "connect"} /\ lease'[t].at # "off" /\ SnapOf(t)' = None
  <1>t. lease \in [Threads -> LeaseRow] /\ None \notin Conns
    BY LeasedType, NoneAssumption DEF PoolInv
  <1>f. \A c \in Conns : c \notin Leased /\ c \notin others => snapshot[c] = None
    BY DEF PoolInv, Lent
  <1>1. ASSUME NEW place \in {"connect", "refused"}, Lease(t, place, None),
               UNCHANGED <<version, snapshot>>
        PROVE  LeasesKept(t) /\ version' = version /\ lease'[t].at # "off" /\ SnapOf(t)' = None
    <2>1. lease'[t].at = place /\ \A u \in Threads : u # t => lease'[u] = lease[u]
      BY <1>1, <1>t, LeaseOf DEF Places
    <2> QED
      BY <1>1, <2>1 DEF LeasesKept, SnapOf
  <1>2. ASSUME NEW c \in Conns, Lease(t, "held", c), UNCHANGED <<version, snapshot>>, snapshot[c] = None
        PROVE  LeasesKept(t) /\ version' = version /\ lease'[t].at # "off" /\ SnapOf(t)' = None
    <2>1. /\ lease'[t].at = "held" /\ lease'[t].conn = c
          /\ \A u \in Threads : u # t => lease'[u] = lease[u]
      BY <1>2, <1>t, LeaseOf DEF Places
    <2> QED
      BY <1>2, <2>1 DEF LeasesKept, SnapOf
  <1>3. CASE Borrow(t)
    <2>1. PICK c \in idle : Lease(t, "held", c)
      BY <1>3 DEF Borrow
    <2>2. c \in Conns /\ snapshot[c] = None
      BY <1>f, <1>t DEF PoolInv, PoolTypeOK, Lent, Leased
    <2> QED
      BY <1>2, <1>3, <2>1, <2>2 DEF Borrow
  <1>4. CASE BorrowDiscards(t)
    <2>1. PICK c \in idle : snapshot' = [snapshot EXCEPT ![c] = None]
      BY <1>4 DEF BorrowDiscards
    <2>2. lease' = lease /\ version' = version /\ lease[t].at = "want"
      BY <1>4 DEF BorrowDiscards
    <2>3. \A u \in Threads : lease[u].at = "held" => lease[u].conn # c /\ lease[u].conn \in Conns
      BY LeasedType DEF PoolInv, Lent
    <2>4. \A u \in Threads : SnapOf(u)' = SnapOf(u)
      BY <2>1, <2>2, <2>3 DEF SnapOf, PoolInv, PoolTypeOK
    <2> QED
      BY <2>2, <2>4 DEF LeasesKept, SnapOf
  <1>5. CASE Reserve(t)
    BY <1>1, <1>5 DEF Reserve
  <1>6. CASE BorrowTimeout(t)
    BY <1>1, <1>6 DEF BorrowTimeout
  <1>7. CASE Connect(t)
    <2>1. lease[t].at = "connect" /\ UNCHANGED <<version, snapshot>>
      BY <1>7 DEF Connect
    <2>2. CASE Lease(t, "refused", None)
      BY <1>1, <2>1, <2>2
    <2>3. ASSUME NEW c \in Conns \ Open, Lease(t, "held", c)
          PROVE  LeasesKept(t) /\ version' = version /\ lease'[t].at # "off" /\ SnapOf(t)' = None
      BY <1>2, <1>f, <2>1, <2>3 DEF Open
    <2> QED
      BY <1>7, <2>1, <2>2, <2>3 DEF Connect
  <1> QED
    BY <1>3, <1>4, <1>5, <1>6, <1>7 DEF PoolStep

(* Reviews, other work and close_all leave the leases of the threads alone. *)
LEMMA OthersOf ==
    ASSUME PoolInv, Review \/ CloseAll \/ OthersBorrow \/ OthersReturn
    PROVE  /\ lease' = lease /\ \A u \in Threads : SnapOf(u)' = SnapOf(u)
           /\ version' \in {version, version + 1}
  <1>1. lease' = lease /\ version' \in {version, version + 1}
    BY DEF Review, CloseAll, OthersBorrow, OthersReturn
  <1>2. \A u \in Threads : lease[u].at = "held" =>
            lease[u].conn \in Conns \ (idle \cup others) /\ lease[u].conn \in Open
    BY LeasedType DEF PoolInv, Lent, Open
  <1>3. snapshot \in [Conns -> Versions \cup {None}]
    BY DEF PoolInv, PoolTypeOK
  <1>4. \A c \in Conns \ (idle \cup others) : c \in Open => snapshot'[c] = snapshot[c]
    <2>1. CASE Review
      BY <2>1 DEF Review
    <2>2. CASE CloseAll
      BY <2>2 DEF CloseAll
    <2>3. CASE OthersBorrow
      BY <1>3, <2>3 DEF OthersBorrow
    <2>4. CASE OthersReturn
      BY <1>3, <2>4 DEF OthersReturn, GivesBack, RollbackIfDirty
    <2> QED
      BY <2>1, <2>2, <2>3, <2>4
  <1>5. \A u \in Threads : SnapOf(u)' = SnapOf(u)
    BY <1>1, <1>2, <1>4 DEF SnapOf
  <1> QED
    BY <1>1, <1>5

-----------------------------------------------------------------------------
(* What every request knows *)

(* Where a request is goes with its lease and with its read of the store. *)
Fits(r, l, d) ==
    /\ r.at = "idle" => l.at = "off" /\ d.at = "off"
    /\ r.at = "lookup" => l.at # "off" /\ d.at = "off"
    /\ r.at \in {"check", "claim", "load", "waitIdentity", "identified"} =>
          l.at = "held" /\ d.at = "off"
    /\ r.at = "meta" => /\ l.at = IF r.kind = "layout" THEN "held" ELSE "off"
                        /\ d.at \in {"meta", "open", "done", "failed"} /\ d.want = "meta"
    /\ r.at = "overlay" => /\ l.at # "off"
                           /\ r.kind = "layout" => l.at = "held" /\ d.at = "done"
                           /\ r.kind = "lines" => d.at = "off"
    /\ r.at \in {"waitOverlay", "read", "composed"} =>
          /\ l.at = "held"
          /\ r.kind = "layout" => d.at = "done"
          /\ r.kind = "lines" => d.at = "off"
    /\ r.at = "render" => r.kind = "lines" /\ l.at = "off" /\ d.at # "off" /\ d.want = "lines"

Identified(r) ==
    r.at \in {"identified", "meta", "overlay", "waitOverlay", "read", "composed", "render"}

(* Identity, snapshot and rows are no older than the request, and each no   *)
(* older than the one before it.  v is what is committed, s the snapshot.   *)
FreshRows(r, l, s, v) ==
    /\ r.began[1] <= v
    /\ Identified(r) => r.id \in Versions /\ r.began[1] <= r.id /\ r.id <= v
    /\ l.at = "held" /\ s # None =>
          /\ s \in Versions /\ r.began[1] <= s /\ s <= v
          /\ Identified(r) => r.id <= s
    /\ r.at \in {"composed", "render"} => r.rows \in Versions /\ r.id <= r.rows

(* Signatures and contents are no older than the request; m and c are the   *)
(* generations on disk.                                                     *)
FreshFiles(r, d, m, c) ==
    /\ r.began[2] <= m /\ r.began[3] <= c
    /\ d.at = "open" => d.sig \in Generations /\ r.began[2] <= d.sig /\ d.sig <= m
    /\ d.at \in {"chunk", "decode", "wait", "again", "done"} =>
          d.meta \in Generations /\ d.msig \in Generations /\ r.began[2] <= d.meta
    /\ d.at \in {"decode", "wait", "again"} =>
          d.sig \in Generations /\ r.began[3] <= d.sig /\ d.sig <= c
    /\ d.at = "done" /\ d.want = "lines" => d.lines \in Generations /\ r.began[3] <= d.lines

Good(r, l, d, s, v, m, c) ==
    /\ r \in Request /\ d \in Load
    /\ Fits(r, l, d) /\ FreshRows(r, l, s, v) /\ FreshFiles(r, d, m, c)

GoodAt(t) == Good(request[t], lease[t], load[t], SnapOf(t), version, disk.meta, disk.chunk)

(* What is cached is no older than the key it is cached under. *)
CachesOK ==
    /\ \A m \in metaCache : m.sig \in Generations /\ m.meta \in Generations /\ m.sig <= m.meta
    /\ \A c \in chunkCache : c.lines \in Generations /\ c.key[3] <= c.lines
    /\ \A o \in overlays : o.rows \in Versions /\ o.key[1] <= o.rows
    /\ identities \subseteq Versions /\ index \in Versions \cup {None}

DiskOK == disk \in [meta : Generations, chunk : Generations]

DetailInv ==
    /\ PoolInv /\ CachesOK /\ DiskOK
    /\ request \in [Threads -> Request] /\ load \in [Threads -> Load]
    /\ \A t \in Threads : GoodAt(t)

LEMMA Arithmetic ==
    /\ \A v \in Versions : v \in Int /\ v # None
    /\ \A g \in Generations : g \in Int /\ g # Missing
    /\ \A r \in Request : r.began[1] \in Versions /\ r.began[2] \in Generations /\ r.began[3] \in Generations
  BY NoneAssumption, MissingAssumption, PoolAssumption, SidecarAssumption DEF Versions, Generations, Request

(* It stays true while versions and generations grow. *)
LEMMA GoodGrows ==
    ASSUME NEW r, NEW l, NEW d, NEW s, NEW v \in Versions, NEW m \in Generations, NEW c \in Generations,
           Good(r, l, d, s, v, m, c),
           NEW v2 \in Versions, NEW m2 \in Generations, NEW c2 \in Generations,
           v <= v2, m <= m2, c <= c2
    PROVE  Good(r, l, d, s, v2, m2, c2)
  <1>1. FreshRows(r, l, s, v2)
    BY Arithmetic DEF Good, FreshRows
  <1>2. FreshFiles(r, d, m2, c2)
    BY Arithmetic DEF Good, FreshFiles
  <1> QED
    BY <1>1, <1>2 DEF Good

(* Whoever waits may be woken. *)
LEMMA GoodWoken ==
    ASSUME NEW r, NEW l, NEW d, NEW s, NEW v, NEW m, NEW c, Good(r, l, d, s, v, m, c),
           NEW r2, NEW d2,
           \/ r2 = r
           \/ r.at = "waitIdentity" /\ r2 = [r EXCEPT !.at = "lookup"]
           \/ r.at = "waitOverlay" /\ r2 = [r EXCEPT !.at = "overlay"],
           d2 = d \/ (d.at = "wait" /\ d2 = [d EXCEPT !.at = "again"])
    PROVE  Good(r2, l, d2, s, v, m, c)
  <1>1. r \in Request /\ d \in Load
    BY DEF Good
  <1>2. /\ r2 \in Request /\ d2 \in Load
        /\ r2.kind = r.kind /\ r2.id = r.id /\ r2.rows = r.rows /\ r2.began = r.began
        /\ d2.want = d.want /\ d2.sig = d.sig /\ d2.meta = d.meta /\ d2.msig = d.msig /\ d2.lines = d.lines
        /\ r2.at = r.at \/ (r.at = "waitIdentity" /\ r2.at = "lookup")
                        \/ (r.at = "waitOverlay" /\ r2.at = "overlay")
        /\ d2.at = d.at \/ (d.at = "wait" /\ d2.at = "again")
    BY <1>1 DEF Request, RequestPlaces, Load, LoadPlaces
  <1>3. Fits(r2, l, d2)
    BY <1>1, <1>2 DEF Good, Fits, Request
  <1>4. FreshRows(r2, l, s, v)
    BY <1>2 DEF Good, FreshRows, Identified
  <1>5. FreshFiles(r2, d2, m, c)
    BY <1>2 DEF Good, FreshFiles
  <1> QED
    BY <1>2, <1>3, <1>4, <1>5 DEF Good

(* What a step of t leaves the other threads with. *)
Apart(t) ==
    /\ LeasesKept(t)
    /\ \A u \in Threads : u # t =>
          /\ \/ request'[u] = request[u]
             \/ request[u].at = "waitIdentity" /\ request'[u] = [request[u] EXCEPT !.at = "lookup"]
             \/ request[u].at = "waitOverlay" /\ request'[u] = [request[u] EXCEPT !.at = "overlay"]
          /\ \/ load'[u] = load[u]
             \/ load[u].at = "wait" /\ load'[u] = [load[u] EXCEPT !.at = "again"]

LEMMA OthersGood ==
    ASSUME DetailInv, NEW t \in Threads, Apart(t), UNCHANGED <<version, disk>>,
           NEW u \in Threads, u # t
    PROVE  GoodAt(u)'
  <1>1. PICK r2, d2 : r2 = request'[u] /\ d2 = load'[u]
    OBVIOUS
  <1>2. Good(request[u], lease[u], load[u], SnapOf(u), version, disk.meta, disk.chunk)
    BY DEF DetailInv, GoodAt
  <1>3. Good(r2, lease[u], d2, SnapOf(u), version, disk.meta, disk.chunk)
    BY <1>1, <1>2, GoodWoken DEF Apart
  <1> QED
    BY <1>1, <1>3 DEF GoodAt, Apart, LeasesKept

(* A step of t keeps what the requests know. *)
LEMMA StepGood ==
    ASSUME DetailInv, PoolInv', NEW t \in Threads, Apart(t), UNCHANGED <<version, disk>>, CachesOK',
           \E f : request' = [u \in Threads |-> f[u]], \E f : load' = [u \in Threads |-> f[u]],
           GoodAt(t)'
    PROVE  DetailInv'
  <1>1. \A u \in Threads : GoodAt(u)'
    BY OthersGood
  <1>2. DiskOK'
    BY DEF DetailInv, DiskOK
  <1>3. \A u \in Threads : request'[u] \in Request /\ load'[u] \in Load
    BY <1>1 DEF GoodAt, Good
  <1>4. request' \in [Threads -> Request] /\ load' \in [Threads -> Load]
    BY <1>3
  <1> QED
    BY <1>1, <1>2, <1>4 DEF DetailInv

(* A request that moves on alone. *)
Moves(t, r) == request' = [request EXCEPT ![t] = r]

LEMMA GoesOf ==
    ASSUME request \in [Threads -> Request], NEW t \in Threads, NEW place \in RequestPlaces,
           Goes(t, place)
    PROVE  \E r \in Request : /\ Moves(t, r)
                              /\ r.at = place /\ r.kind = request[t].kind /\ r.full = request[t].full
                              /\ r.id = request[t].id /\ r.rows = request[t].rows
                              /\ r.began = request[t].began
  <1>1. PICK r : r = [request[t] EXCEPT !.at = place]
    OBVIOUS
  <1>2. Moves(t, r)
    BY <1>1 DEF Goes, Moves
  <1>3. /\ r \in Request
        /\ r.at = place /\ r.kind = request[t].kind /\ r.full = request[t].full
        /\ r.id = request[t].id /\ r.rows = request[t].rows
        /\ r.began = request[t].began
    BY <1>1 DEF Request
  <1> QED
    BY <1>2, <1>3

LEMMA NoneIsFine ==
    ASSUME NEW l, l.at = "off", NEW s, NEW v \in Versions, NEW m \in Generations, NEW c \in Generations
    PROVE  NoRequest \in Request /\ NoLoad \in Load /\ Good(NoRequest, l, NoLoad, s, v, m, c)
  <1>1. NoRequest \in Request /\ NoLoad \in Load
    BY PoolAssumption, SidecarAssumption
       DEF NoRequest, Request, RequestPlaces, NoLoad, Load, LoadPlaces, Versions, Generations
  <1>2. Fits(NoRequest, l, NoLoad)
    BY DEF Fits, NoRequest, NoLoad
  <1>3. FreshRows(NoRequest, l, s, v) /\ FreshFiles(NoRequest, NoLoad, m, c)
    BY DEF FreshRows, FreshFiles, Identified, NoRequest, NoLoad, Versions, Generations
  <1> QED
    BY <1>1, <1>2, <1>3 DEF Good

LEMMA Knows ==
    ASSUME DetailInv, NEW t \in Threads
    PROVE  /\ request \in [Threads -> Request] /\ load \in [Threads -> Load]
           /\ request[t] \in Request /\ load[t] \in Load
           /\ Fits(request[t], lease[t], load[t])
           /\ FreshRows(request[t], lease[t], SnapOf(t), version)
           /\ FreshFiles(request[t], load[t], disk.meta, disk.chunk)
           /\ PoolInv /\ CachesOK
           /\ version \in Versions /\ disk.meta \in Generations /\ disk.chunk \in Generations
  BY DEF DetailInv, GoodAt, Good, PoolInv, PoolTypeOK, DiskOK

LEMMA CachesKept ==
    ASSUME DetailInv, UNCHANGED <<metaCache, chunkCache, overlays, identities, index>>
    PROVE  CachesOK'
  BY DEF DetailInv, CachesOK

(* One thread moves, and nobody is woken. *)
LEMMA OneMoves ==
    ASSUME DetailInv, PoolInv', NEW t \in Threads, LeasesKept(t), UNCHANGED <<version, disk>>, CachesOK',
           NEW r, Moves(t, r), NEW d, Reading(t, d),
           NEW l, l = lease'[t], NEW s, s = SnapOf(t)',
           Good(r, l, d, s, version, disk.meta, disk.chunk)
    PROVE  DetailInv'
  <1>1. request'[t] = r /\ \A u \in Threads : u # t => request'[u] = request[u]
    BY DEF Moves, DetailInv
  <1>2. load'[t] = d /\ \A u \in Threads : u # t => load'[u] = load[u]
    BY DEF Reading, DetailInv
  <1>3. Apart(t)
    BY <1>1, <1>2 DEF Apart
  <1>4. GoodAt(t)'
    BY <1>1, <1>2 DEF GoodAt
  <1>5. (\E f : request' = [u \in Threads |-> f[u]]) /\ (\E f : load' = [u \in Threads |-> f[u]])
    <2>1. request' = [u \in Threads |-> request'[u]] /\ load' = [u \in Threads |-> load'[u]]
      BY DEF Moves, Reading, DetailInv
    <2> QED
      BY <2>1
  <1> QED
    BY <1>3, <1>4, <1>5, StepGood

(* Nothing of the pool changes. *)
LEMMA KeepPoolOf ==
    ASSUME KeepPool, NEW t
    PROVE  /\ LeasesKept(t) /\ version' = version /\ lease' = lease
           /\ lease'[t] = lease[t] /\ SnapOf(t)' = SnapOf(t)
  BY DEF KeepPool, poolVars, LeasesKept, SnapOf

LEMMA SameLoad ==
    ASSUME DetailInv, UNCHANGED load, NEW t \in Threads
    PROVE  Reading(t, load[t])
  BY DEF DetailInv, Reading

(* The request is over: the lease is off. *)
LEMMA Ends ==
    ASSUME DetailInv, PoolInv', NEW t \in Threads, LeasesKept(t), UNCHANGED <<version, disk>>,
           UNCHANGED <<metaCache, chunkCache, overlays, identities, index>>,
           lease'[t].at = "off", Moves(t, NoRequest), Reading(t, NoLoad)
    PROVE  DetailInv'
  <1>1. PICK l, s : l = lease'[t] /\ s = SnapOf(t)'
    OBVIOUS
  <1>2. Good(NoRequest, l, NoLoad, s, version, disk.meta, disk.chunk)
    BY <1>1, Knows, NoneIsFine
  <1> QED
    BY <1>1, <1>2, OneMoves, CachesKept

-----------------------------------------------------------------------------
(* The steps of a request *)

LEMMA BeginKeeps ==
    ASSUME DetailInv, PoolInv', NEW t \in Threads, NEW kind \in {"lines", "layout"}, Begin(t, kind)
    PROVE  DetailInv'
  <1>k. /\ load[t] \in Load /\ Fits(request[t], lease[t], load[t]) /\ PoolInv
        /\ version \in Versions /\ disk.meta \in Generations /\ disk.chunk \in Generations
    BY Knows
  <1>1. PICK r : r = [NoRequest EXCEPT !.at = "lookup", !.kind = kind,
                                       !.began = <<version, disk.meta, disk.chunk>>]
    OBVIOUS
  <1>2. Moves(t, r) /\ At(t, "idle") /\ Borrows(t) /\ UNCHANGED sidecarVars /\ KeepCaches
    BY <1>1 DEF Begin, Moves
  <1>3. /\ LeasesKept(t) /\ version' = version
        /\ lease'[t].at \in {"want", "refused"} /\ SnapOf(t)' = None
    BY <1>2, <1>k, BorrowsOf
  <1>4. PICK l, s : l = lease'[t] /\ s = SnapOf(t)'
    OBVIOUS
  <1>5. load[t].at = "off"
    BY <1>2, <1>k DEF Fits, At
  <1>6. /\ r \in Request /\ r.at = "lookup" /\ r.kind = kind
        /\ r.began[1] = version /\ r.began[2] = disk.meta /\ r.began[3] = disk.chunk
    BY <1>1, <1>k DEF NoRequest, Request, RequestPlaces
  <1>7. Good(r, l, load[t], s, version, disk.meta, disk.chunk)
    <2>1. Fits(r, l, load[t])
      BY <1>3, <1>4, <1>5, <1>6 DEF Fits
    <2>2. FreshRows(r, l, s, version)
      BY <1>3, <1>4, <1>6, <1>k, Arithmetic DEF FreshRows, Identified
    <2>3. FreshFiles(r, load[t], disk.meta, disk.chunk)
      BY <1>5, <1>6, <1>k, Arithmetic DEF FreshFiles
    <2> QED
      BY <2>1, <2>2, <2>3, <1>6, <1>k DEF Good
  <1>8. Reading(t, load[t]) /\ CachesOK' /\ UNCHANGED disk
    BY <1>2, SameLoad, CachesKept DEF sidecarVars, KeepCaches
  <1> QED
    BY <1>2, <1>3, <1>4, <1>7, <1>8, OneMoves

LEMMA RefusedKeeps ==
    ASSUME DetailInv, PoolInv', NEW t \in Threads, Refused(t)
    PROVE  DetailInv'
  <1>1. PoolInv /\ lease \in [Threads -> LeaseRow]
    BY LeasedType DEF DetailInv, PoolInv
  <1>2. lease'[t].at = "off" /\ \A u \in Threads : u # t => lease'[u] = lease[u]
    BY <1>1, LeaseOf DEF Refused, Places
  <1>3. LeasesKept(t) /\ UNCHANGED <<version, disk>>
    BY <1>2 DEF Refused, LeasesKept, SnapOf, KeepStore
  <1>4. Moves(t, NoRequest) /\ Reading(t, NoLoad) /\ UNCHANGED <<metaCache, chunkCache, overlays, identities, index>>
    BY DEF Refused, Over, Moves, Reading, KeepStore, KeepCaches
  <1> QED
    BY <1>2, <1>3, <1>4, Ends

LEMMA LookupIdentityKeeps ==
    ASSUME DetailInv, PoolInv', NEW t \in Threads, LookupIdentity(t)
    PROVE  DetailInv'
  <1>k. /\ request[t] \in Request /\ load[t] \in Load /\ Fits(request[t], lease[t], load[t])
        /\ FreshRows(request[t], lease[t], SnapOf(t), version)
        /\ FreshFiles(request[t], load[t], disk.meta, disk.chunk)
    BY Knows
  <1>1. At(t, "lookup") /\ Held(t) /\ KeepPool /\ UNCHANGED sidecarVars /\ KeepCaches
    BY DEF LookupIdentity
  <1>2. PICK place \in {"check", "claim"} :
            request' = [request EXCEPT ![t].at = place, ![t].full = index]
    BY DEF LookupIdentity
  <1>3. PICK r : r = [request[t] EXCEPT !.at = place, !.full = index]
    OBVIOUS
  <1>4. Moves(t, r)
    BY <1>2, <1>3 DEF Moves, DetailInv
  <1>5. r \in Request /\ r.at = place /\ r.kind = request[t].kind /\ r.began = request[t].began
    BY <1>k, <1>3, Knows DEF CachesOK, Request, RequestPlaces
  <1>6. Good(r, lease[t], load[t], SnapOf(t), version, disk.meta, disk.chunk)
    <2>1. Fits(r, lease[t], load[t])
      BY <1>1, <1>5, <1>k DEF Fits, At, Held
    <2>2. FreshRows(r, lease[t], SnapOf(t), version)
      BY <1>5, <1>k DEF FreshRows, Identified
    <2>3. FreshFiles(r, load[t], disk.meta, disk.chunk)
      BY <1>5, <1>k DEF FreshFiles
    <2> QED
      BY <2>1, <2>2, <2>3, <1>5, <1>k DEF Good
  <1>7. Reading(t, load[t]) /\ CachesOK' /\ UNCHANGED disk
    BY <1>1, SameLoad, CachesKept DEF sidecarVars, KeepCaches
  <1> QED
    BY <1>1, <1>4, <1>6, <1>7, KeepPoolOf, OneMoves

LEMMA CheckIdentityKeeps ==
    ASSUME DetailInv, PoolInv', NEW t \in Threads, CheckIdentity(t)
    PROVE  DetailInv'
  <1>k. /\ request[t] \in Request /\ load[t] \in Load /\ Fits(request[t], lease[t], load[t])
        /\ FreshRows(request[t], lease[t], SnapOf(t), version)
        /\ FreshFiles(request[t], load[t], disk.meta, disk.chunk)
        /\ version \in Versions /\ PoolInv /\ CachesOK
    BY Knows
  <1>1. At(t, "check") /\ UNCHANGED sidecarVars /\ UNCHANGED <<idFlight, overlays, ovFlight>>
    BY DEF CheckIdentity
  <1>2. PICK v \in Versions :
          /\ Reads(t, v)
          /\ \/ /\ StillCurrent(t, v)
                /\ request' = [request EXCEPT ![t].at = "identified", ![t].id = request[t].full, ![t].full = None]
             \/ request' = [request EXCEPT ![t].at = "claim", ![t].full = None]
          /\ identities' \subseteq identities /\ index' \in {index, None}
    BY DEF CheckIdentity
  <1>3. PICK r : /\ Moves(t, r) /\ r \in Request
                 /\ r.at = "claim" \/ (r.at = "identified" /\ r.id = v)
                 /\ r.kind = request[t].kind /\ r.began = request[t].began
    <2>1. CASE /\ StillCurrent(t, v)
               /\ request' = [request EXCEPT ![t].at = "identified", ![t].id = request[t].full, ![t].full = None]
      <3>1. PICK r : r = [request[t] EXCEPT !.at = "identified", !.id = v, !.full = None]
        OBVIOUS
      <3>2. Moves(t, r)
        BY <2>1, <3>1 DEF Moves, DetailInv, StillCurrent
      <3>3. /\ r \in Request /\ r.at = "identified" /\ r.id = v
            /\ r.kind = request[t].kind /\ r.began = request[t].began
        BY <3>1, <1>k DEF Request, RequestPlaces
      <3> QED
        BY <3>2, <3>3
    <2>2. CASE request' = [request EXCEPT ![t].at = "claim", ![t].full = None]
      <3>1. PICK r : r = [request[t] EXCEPT !.at = "claim", !.full = None]
        OBVIOUS
      <3>2. Moves(t, r)
        BY <2>2, <3>1 DEF Moves, DetailInv
      <3>3. r \in Request /\ r.at = "claim" /\ r.kind = request[t].kind /\ r.began = request[t].began
        BY <3>1, <1>k DEF Request, RequestPlaces
      <3> QED
        BY <3>2, <3>3
    <2> QED
      BY <1>2, <2>1, <2>2
  <1>4. /\ LeasesKept(t) /\ version' = version
        /\ lease' = lease /\ lease[t].at = "held" /\ SnapOf(t)' = v
        /\ v = version \/ v = SnapOf(t)
    BY <1>2, <1>k, ReadsOf
  <1>5. Good(r, lease[t], load[t], v, version, disk.meta, disk.chunk)
    <2>1. Fits(r, lease[t], load[t])
      BY <1>1, <1>3, <1>k DEF Fits, At
    <2>2. FreshRows(r, lease[t], v, version)
      <3>1. request[t].began[1] <= v /\ v <= version
        <4>1. SnapOf(t) # None => SnapOf(t) \in Versions /\ request[t].began[1] <= SnapOf(t) /\ SnapOf(t) <= version
          BY <1>4, <1>k DEF FreshRows
        <4> QED
          BY <4>1, <1>4, <1>k, Arithmetic DEF FreshRows
      <3> QED
        BY <3>1, <1>3, <1>k, Arithmetic DEF FreshRows, Identified
    <2>3. FreshFiles(r, load[t], disk.meta, disk.chunk)
      BY <1>3, <1>k DEF FreshFiles
    <2> QED
      BY <2>1, <2>2, <2>3, <1>3, <1>k DEF Good
  <1>6. Reading(t, load[t]) /\ UNCHANGED disk
    BY <1>1, SameLoad DEF sidecarVars
  <1>7. CachesOK'
    BY <1>1, <1>2, <1>k DEF CachesOK, sidecarVars
  <1> QED
    BY <1>3, <1>4, <1>5, <1>6, <1>7, OneMoves

(* A step without the pool, the store and the caches. *)
LEMMA PlaceKeeps ==
    ASSUME DetailInv, PoolInv', NEW t \in Threads, KeepPool, UNCHANGED <<disk, load>>,
           UNCHANGED <<metaCache, chunkCache, overlays, identities, index>>,
           NEW place \in RequestPlaces, Goes(t, place),
           \/ request[t].at = "claim" /\ place \in {"load", "waitIdentity"}
           \/ request[t].at = "overlay" /\ lease[t].at = "held" /\ place \in {"read", "waitOverlay"}
    PROVE  DetailInv'
  <1>k. /\ request[t] \in Request /\ load[t] \in Load /\ Fits(request[t], lease[t], load[t])
        /\ FreshRows(request[t], lease[t], SnapOf(t), version)
        /\ FreshFiles(request[t], load[t], disk.meta, disk.chunk)
    BY Knows
  <1>1. PICK r \in Request : /\ Moves(t, r)
                              /\ r.at = place /\ r.kind = request[t].kind /\ r.full = request[t].full
                              /\ r.id = request[t].id /\ r.rows = request[t].rows
                              /\ r.began = request[t].began
    BY Knows, GoesOf
  <1>2. Good(r, lease[t], load[t], SnapOf(t), version, disk.meta, disk.chunk)
    <2>1. Fits(r, lease[t], load[t])
      BY <1>1, <1>k DEF Fits
    <2>2. FreshRows(r, lease[t], SnapOf(t), version)
      BY <1>1, <1>k DEF FreshRows, Identified
    <2>3. FreshFiles(r, load[t], disk.meta, disk.chunk)
      BY <1>1, <1>k DEF FreshFiles
    <2> QED
      BY <2>1, <2>2, <2>3, <1>1, <1>k DEF Good
  <1>3. Reading(t, load[t]) /\ CachesOK'
    BY SameLoad, CachesKept
  <1> QED
    BY <1>1, <1>2, <1>3, KeepPoolOf, OneMoves

LEMMA ClaimIdentityKeeps ==
    ASSUME DetailInv, PoolInv', NEW t \in Threads, ClaimIdentity(t)
    PROVE  DetailInv'
  <1>1. PICK place \in {"load", "waitIdentity"} : Goes(t, place)
    BY DEF ClaimIdentity
  <1>2. /\ request[t].at = "claim" /\ KeepPool /\ UNCHANGED <<disk, load>>
        /\ UNCHANGED <<metaCache, chunkCache, overlays, identities, index>>
    BY DEF ClaimIdentity, At, sidecarVars
  <1> QED
    BY <1>1, <1>2, PlaceKeeps DEF RequestPlaces

(* Those who waited for the identity. *)
LEMMA WakeIdentityOf ==
    ASSUME DetailInv, NEW t \in Threads, NEW mine, WakeIdentity(t, mine), LeasesKept(t), UNCHANGED load
    PROVE  /\ Apart(t) /\ request'[t] = mine
           /\ \E f : request' = [u \in Threads |-> f[u]]
           /\ \E f : load' = [u \in Threads |-> f[u]]
  <1>1. /\ request'[t] = mine
        /\ \A u \in Threads : u # t =>
              \/ request'[u] = request[u]
              \/ request[u].at = "waitIdentity" /\ request'[u] = [request[u] EXCEPT !.at = "lookup"]
    BY DEF WakeIdentity, At
  <1>2. request' = [u \in Threads |-> request'[u]]
    BY DEF WakeIdentity
  <1>3. load' = [u \in Threads |-> load[u]]
    BY DEF DetailInv
  <1> QED
    BY <1>1, <1>2, <1>3 DEF Apart

(* Fresh rows are read on a connection. *)
LEMMA ReadIsFresh ==
    ASSUME DetailInv, NEW t \in Threads, NEW v \in Versions, Reads(t, v)
    PROVE  /\ request[t].began[1] <= v /\ v <= version
           /\ Identified(request[t]) => request[t].id <= v
  <1>k. /\ request[t] \in Request /\ FreshRows(request[t], lease[t], SnapOf(t), version)
        /\ version \in Versions /\ PoolInv
    BY Knows
  <1>1. lease[t].at = "held" /\ (v = version \/ v = SnapOf(t))
    BY <1>k, ReadsOf
  <1>2. CASE v = version
    BY <1>2, <1>k, Arithmetic DEF FreshRows
  <1>3. CASE v = SnapOf(t)
    BY <1>1, <1>3, <1>k, Arithmetic DEF FreshRows
  <1> QED
    BY <1>1, <1>2, <1>3

LEMMA LoadIdentityKeeps ==
    ASSUME DetailInv, PoolInv', NEW t \in Threads, LoadIdentity(t)
    PROVE  DetailInv'
  <1>k. /\ request[t] \in Request /\ load[t] \in Load /\ Fits(request[t], lease[t], load[t])
        /\ FreshRows(request[t], lease[t], SnapOf(t), version)
        /\ FreshFiles(request[t], load[t], disk.meta, disk.chunk)
        /\ version \in Versions /\ PoolInv /\ CachesOK
    BY Knows
  <1>1. request[t].at = "load" /\ UNCHANGED sidecarVars /\ UNCHANGED <<overlays, ovFlight>>
    BY DEF LoadIdentity, At
  <1>2. PICK v \in Versions :
         /\ Reads(t, v)
         /\ identities' \in Puts("identity", identities \ {v}, v, MaxIdentities)
         /\ index' = IF v \in identities' THEN v ELSE Kept(identities')
         /\ WakeIdentity(t, [request[t] EXCEPT !.at = "identified", !.id = v])
    BY DEF LoadIdentity
  <1>3. identities' \subseteq Versions /\ index' \in Versions \cup {None}
    <2>1. identities' \subseteq Versions
      BY <1>2, <1>k DEF Puts, CachesOK
    <2> QED
      BY <1>2, <1>k, <2>1 DEF Kept, CachesOK
  <1>4. /\ LeasesKept(t) /\ version' = version
        /\ lease' = lease /\ lease[t].at = "held" /\ SnapOf(t)' = v
    BY <1>2, <1>k, ReadsOf
  <1>5. PICK r : r = [request[t] EXCEPT !.at = "identified", !.id = v]
    OBVIOUS
  <1>6. r \in Request /\ r.at = "identified" /\ r.id = v /\ r.kind = request[t].kind /\ r.began = request[t].began
    BY <1>k, <1>5 DEF Request, RequestPlaces
  <1>7. /\ Apart(t) /\ request'[t] = r /\ UNCHANGED load
        /\ \E f : request' = [u \in Threads |-> f[u]]
        /\ \E f : load' = [u \in Threads |-> f[u]]
    BY <1>1, <1>2, <1>4, <1>5, WakeIdentityOf DEF sidecarVars
  <1>8. Good(r, lease[t], load[t], v, version, disk.meta, disk.chunk)
    <2>1. Fits(r, lease[t], load[t])
      BY <1>1, <1>6, <1>k DEF Fits
    <2>2. FreshRows(r, lease[t], v, version)
      BY <1>2, <1>6, <1>k, ReadIsFresh, Arithmetic DEF FreshRows, Identified
    <2>3. FreshFiles(r, load[t], disk.meta, disk.chunk)
      BY <1>6, <1>k DEF FreshFiles
    <2> QED
      BY <2>1, <2>2, <2>3, <1>6, <1>k DEF Good
  <1>9. GoodAt(t)' /\ UNCHANGED disk
    BY <1>1, <1>4, <1>7, <1>8 DEF GoodAt, sidecarVars
  <1>10. CachesOK'
    BY <1>1, <1>3, <1>k DEF CachesOK, sidecarVars
  <1> QED
    BY <1>4, <1>7, <1>9, <1>10, StepGood

LEMMA LoadIdentityFailsKeeps ==
    ASSUME DetailInv, PoolInv', NEW t \in Threads, LoadIdentityFails(t)
    PROVE  DetailInv'
  <1>k. /\ load[t] \in Load /\ Fits(request[t], lease[t], load[t]) /\ PoolInv
        /\ version \in Versions /\ disk.meta \in Generations /\ disk.chunk \in Generations
    BY Knows
  <1>1. /\ request[t].at = "load" /\ UNCHANGED sidecarVars /\ UNCHANGED <<identities, index, overlays>>
        /\ WakeIdentity(t, NoRequest) /\ Returns(t)
    BY DEF LoadIdentityFails, At
  <1>2. lease[t].at = "held" /\ load[t].at = "off"
    BY <1>1, <1>k DEF Fits
  <1>3. LeasesKept(t) /\ version' = version /\ lease'[t].at = "off"
    BY <1>1, <1>2, <1>k, ReturnsOf
  <1>4. /\ Apart(t) /\ request'[t] = NoRequest /\ UNCHANGED load
        /\ \E f : request' = [u \in Threads |-> f[u]]
        /\ \E f : load' = [u \in Threads |-> f[u]]
    BY <1>1, <1>3, WakeIdentityOf DEF sidecarVars
  <1>5. PICK l, s : l = lease'[t] /\ s = SnapOf(t)'
    OBVIOUS
  <1>6. Good(NoRequest, l, load[t], s, version, disk.meta, disk.chunk)
    BY <1>2, <1>3, <1>5, <1>k, NoneIsFine DEF Good, Fits, FreshRows, FreshFiles, NoLoad
  <1>7. GoodAt(t)' /\ UNCHANGED disk
    BY <1>1, <1>3, <1>4, <1>5, <1>6 DEF GoodAt, sidecarVars
  <1>8. CachesOK'
    BY <1>1, CachesKept DEF sidecarVars
  <1> QED
    BY <1>3, <1>4, <1>7, <1>8, StepGood

LEMMA ReadMetaKeeps ==
    ASSUME DetailInv, PoolInv', NEW t \in Threads, ReadMeta(t)
    PROVE  DetailInv'
  <1>k. /\ request[t] \in Request /\ Fits(request[t], lease[t], load[t])
        /\ FreshRows(request[t], lease[t], SnapOf(t), version)
        /\ FreshFiles(request[t], load[t], disk.meta, disk.chunk) /\ PoolInv
    BY Knows
  <1>1. request[t].at = "identified" /\ lease[t].at = "held" /\ request[t].kind \in {"lines", "layout"}
    BY <1>k DEF ReadMeta, At, Fits, Request
  <1>2. PICK r \in Request : /\ Moves(t, r)
                              /\ r.at = "meta" /\ r.kind = request[t].kind
                              /\ r.id = request[t].id /\ r.began = request[t].began
    <2>1. "meta" \in RequestPlaces /\ Goes(t, "meta") /\ request \in [Threads -> Request]
      BY Knows DEF ReadMeta, RequestPlaces
    <2> QED
      BY <2>1, GoesOf
  <1>3. PICK d : d = [NoLoad EXCEPT !.at = "meta"]
    OBVIOUS
  <1>4. Reading(t, d) /\ d \in Load /\ d.at = "meta" /\ d.want = "meta"
    BY <1>3 DEF ReadMeta, Reading, NoLoad, Load, LoadPlaces
  <1>5. PICK l, s : l = lease'[t] /\ s = SnapOf(t)'
    OBVIOUS
  <1>6. /\ LeasesKept(t) /\ version' = version
        /\ \/ r.kind = "layout" /\ l = lease[t] /\ s = SnapOf(t)
           \/ r.kind = "lines" /\ l.at = "off"
    <2>1. CASE request[t].kind = "layout"
      BY <1>2, <1>5, <2>1, KeepPoolOf DEF ReadMeta
    <2>2. CASE request[t].kind = "lines"
      BY <1>1, <1>2, <1>5, <1>k, <2>2, ReturnsOf DEF ReadMeta
    <2> QED
      BY <1>1, <2>1, <2>2
  <1>7. Good(r, l, d, s, version, disk.meta, disk.chunk)
    <2>1. Fits(r, l, d)
      BY <1>1, <1>2, <1>4, <1>6 DEF Fits
    <2>2. FreshRows(r, l, s, version)
      BY <1>1, <1>2, <1>6, <1>k DEF FreshRows, Identified
    <2>3. FreshFiles(r, d, disk.meta, disk.chunk)
      BY <1>2, <1>4, <1>k DEF FreshFiles
    <2> QED
      BY <2>1, <2>2, <2>3, <1>2, <1>4 DEF Good
  <1>8. CachesOK' /\ UNCHANGED disk
    BY CachesKept DEF ReadMeta, KeepStore, KeepCaches
  <1> QED
    BY <1>2, <1>4, <1>5, <1>6, <1>7, <1>8, OneMoves

(* The request is answered, or fails, without or with a lease. *)
LEMMA EndsKeep ==
    ASSUME DetailInv, PoolInv', NEW t \in Threads, Over(t), load' = [load EXCEPT ![t] = NoLoad],
           lease[t].at \in {"off", "held"},
           IF Held(t) THEN Returns(t) ELSE KeepPool, KeepStore, KeepCaches
    PROVE  DetailInv'
  <1>1. LeasesKept(t) /\ version' = version /\ lease'[t].at = "off"
    <2>1. CASE Held(t)
      BY <2>1, Knows, ReturnsOf DEF Held
    <2>2. CASE ~Held(t)
      BY <2>2, KeepPoolOf DEF Held
    <2> QED
      BY <2>1, <2>2
  <1>2. Moves(t, NoRequest) /\ Reading(t, NoLoad)
    BY DEF Over, Moves, Reading
  <1> QED
    BY <1>1, <1>2, Ends DEF KeepStore, KeepCaches

LEMMA MetaFailsKeeps ==
    ASSUME DetailInv, PoolInv', NEW t \in Threads, MetaFails(t)
    PROVE  DetailInv'
  <1>1. lease[t].at \in {"off", "held"}
    BY Knows DEF MetaFails, At, Fits
  <1> QED
    BY <1>1, EndsKeep DEF MetaFails

LEMMA AnswerKeeps ==
    ASSUME DetailInv, PoolInv', NEW t \in Threads, Answer(t)
    PROVE  DetailInv'
  <1>1. lease[t].at \in {"off", "held"}
    BY Knows DEF Answer, Answering, At, Fits
  <1> QED
    BY <1>1, EndsKeep DEF Answer

LEMMA MetaReadKeeps ==
    ASSUME DetailInv, PoolInv', NEW t \in Threads, MetaRead(t)
    PROVE  DetailInv'
  <1>k. /\ request[t] \in Request /\ load[t] \in Load /\ Fits(request[t], lease[t], load[t])
        /\ FreshRows(request[t], lease[t], SnapOf(t), version)
        /\ FreshFiles(request[t], load[t], disk.meta, disk.chunk) /\ PoolInv
    BY Knows
  <1>1. /\ request[t].at = "meta" /\ load[t].at = "done" /\ KeepStore /\ KeepCaches
        /\ request[t].kind \in {"lines", "layout"}
        /\ Held(t) <=> request[t].kind = "layout"
    BY <1>k DEF MetaRead, At, Fits, Request, Held
  <1>2. PICK r \in Request : /\ Moves(t, r)
                              /\ r.at = "overlay" /\ r.kind = request[t].kind
                              /\ r.id = request[t].id /\ r.began = request[t].began
    <2>1. "overlay" \in RequestPlaces /\ Goes(t, "overlay") /\ request \in [Threads -> Request]
      BY Knows DEF MetaRead, RequestPlaces
    <2> QED
      BY <2>1, GoesOf
  <1>3. CachesOK' /\ UNCHANGED disk
    BY <1>1, CachesKept DEF KeepStore, KeepCaches
  <1>4. CASE Held(t)
    <2>1. KeepPool /\ UNCHANGED load
      BY <1>4 DEF MetaRead
    <2>2. Good(r, lease[t], load[t], SnapOf(t), version, disk.meta, disk.chunk)
      <3>1. Fits(r, lease[t], load[t])
        BY <1>1, <1>2, <1>4 DEF Fits, Held
      <3>2. FreshRows(r, lease[t], SnapOf(t), version)
        BY <1>1, <1>2, <1>k DEF FreshRows, Identified
      <3>3. FreshFiles(r, load[t], disk.meta, disk.chunk)
        BY <1>1, <1>2, <1>k DEF FreshFiles
      <3> QED
        BY <3>1, <3>2, <3>3, <1>2, <1>k DEF Good
    <2> QED
      BY <1>2, <1>3, <2>1, <2>2, SameLoad, KeepPoolOf, OneMoves
  <1>5. CASE ~Held(t)
    <2>1. Borrows(t) /\ Reading(t, NoLoad)
      BY <1>5 DEF MetaRead, Reading
    <2>2. /\ LeasesKept(t) /\ version' = version
          /\ lease'[t].at \in {"want", "refused"} /\ SnapOf(t)' = None
      BY <2>1, <1>k, BorrowsOf
    <2>3. PICK l, s : l = lease'[t] /\ s = SnapOf(t)'
      OBVIOUS
    <2>4. Good(r, l, NoLoad, s, version, disk.meta, disk.chunk)
      <3>1. NoLoad \in Load /\ NoLoad.at = "off"
        BY DEF NoLoad, Load, LoadPlaces
      <3>2. Fits(r, l, NoLoad)
        BY <1>1, <1>2, <1>5, <2>2, <2>3, <3>1 DEF Fits
      <3>3. FreshRows(r, l, s, version)
        BY <1>1, <1>2, <1>k, <2>2, <2>3 DEF FreshRows, Identified
      <3>4. FreshFiles(r, NoLoad, disk.meta, disk.chunk)
        BY <1>2, <1>k, <3>1 DEF FreshFiles
      <3> QED
        BY <3>1, <3>2, <3>3, <3>4, <1>2 DEF Good
    <2> QED
      BY <1>2, <1>3, <2>1, <2>2, <2>3, <2>4, OneMoves
  <1> QED
    BY <1>4, <1>5

LEMMA LookupOverlayKeeps ==
    ASSUME DetailInv, PoolInv', NEW t \in Threads, LookupOverlay(t)
    PROVE  DetailInv'
  <1>k. /\ request[t] \in Request /\ load[t] \in Load /\ Fits(request[t], lease[t], load[t])
        /\ FreshRows(request[t], lease[t], SnapOf(t), version)
        /\ FreshFiles(request[t], load[t], disk.meta, disk.chunk) /\ CachesOK
    BY Knows
  <1>1. /\ request[t].at = "overlay" /\ lease[t].at = "held" /\ KeepPool /\ UNCHANGED <<disk, load>>
        /\ UNCHANGED <<metaCache, chunkCache, overlays, identities, index>>
    BY DEF LookupOverlay, At, Held, sidecarVars
  <1>2. ASSUME NEW o \in overlays, o.key = OverlayKey(t),
               request' = [request EXCEPT ![t].at = "composed", ![t].rows = o.rows]
        PROVE  DetailInv'
    <2>1. PICK r : r = [request[t] EXCEPT !.at = "composed", !.rows = o.rows]
      OBVIOUS
    <2>2. Moves(t, r)
      BY <1>2, <2>1 DEF Moves, DetailInv
    <2>3. request[t].id <= o.rows /\ o.rows \in Versions
      BY <1>2, <1>k DEF OverlayKey, CachesOK
    <2>4. /\ r \in Request /\ r.at = "composed" /\ r.kind = request[t].kind /\ r.id = request[t].id
          /\ r.rows = o.rows /\ r.began = request[t].began
      BY <1>k, <2>1, <2>3 DEF Request, RequestPlaces
    <2>5. Good(r, lease[t], load[t], SnapOf(t), version, disk.meta, disk.chunk)
      <3>1. Fits(r, lease[t], load[t])
        BY <1>1, <2>4, <1>k DEF Fits
      <3>2. FreshRows(r, lease[t], SnapOf(t), version)
        BY <1>1, <2>3, <2>4, <1>k DEF FreshRows, Identified
      <3>3. FreshFiles(r, load[t], disk.meta, disk.chunk)
        BY <2>4, <1>k DEF FreshFiles
      <3> QED
        BY <3>1, <3>2, <3>3, <2>4, <1>k DEF Good
    <2> QED
      BY <1>1, <2>2, <2>5, CachesKept, SameLoad, KeepPoolOf, OneMoves
  <1>3. ASSUME NEW place \in {"read", "waitOverlay"}, Goes(t, place)
        PROVE  DetailInv'
    BY <1>1, <1>3, PlaceKeeps DEF RequestPlaces
  <1> QED
    BY <1>2, <1>3 DEF LookupOverlay

(* Those who waited for the rows. *)
LEMMA WakeOverlayOf ==
    ASSUME DetailInv, NEW t \in Threads, NEW mine, WakeOverlay(t, mine), LeasesKept(t),
           \A u \in Threads : u # t => load'[u] = load[u]
    PROVE  /\ Apart(t) /\ request'[t] = mine
           /\ \E f : request' = [u \in Threads |-> f[u]]
  <1>1. /\ request'[t] = mine
        /\ \A u \in Threads : u # t =>
              \/ request'[u] = request[u]
              \/ request[u].at = "waitOverlay" /\ request'[u] = [request[u] EXCEPT !.at = "overlay"]
    BY DEF WakeOverlay, At
  <1>2. request' = [u \in Threads |-> request'[u]]
    BY DEF WakeOverlay
  <1> QED
    BY <1>1, <1>2 DEF Apart

LEMMA ReadOverlayKeeps ==
    ASSUME DetailInv, PoolInv', NEW t \in Threads, ReadOverlay(t)
    PROVE  DetailInv'
  <1>k. /\ request[t] \in Request /\ load[t] \in Load /\ Fits(request[t], lease[t], load[t])
        /\ FreshRows(request[t], lease[t], SnapOf(t), version)
        /\ FreshFiles(request[t], load[t], disk.meta, disk.chunk)
        /\ version \in Versions /\ PoolInv /\ CachesOK
    BY Knows
  <1>1. request[t].at = "read" /\ UNCHANGED sidecarVars /\ UNCHANGED <<identities, index>>
    BY DEF ReadOverlay, At
  <1>2. PICK v \in Versions :
         /\ Reads(t, v)
         /\ overlays' \in Puts("overlay", overlays, [key |-> OverlayKey(t), rows |-> v], MaxOverlays)
         /\ WakeOverlay(t, [request[t] EXCEPT !.at = "composed", !.rows = v])
    BY DEF ReadOverlay
  <1>3. request[t].id <= v
    BY <1>1, <1>2, ReadIsFresh DEF Identified
  <1>4. \A o \in overlays' : o.rows \in Versions /\ o.key[1] <= o.rows
    <2>1. PICK entry : entry = [key |-> OverlayKey(t), rows |-> v]
      OBVIOUS
    <2>2. entry.rows \in Versions /\ entry.key[1] <= entry.rows
      BY <1>3, <2>1 DEF OverlayKey
    <2>3. overlays' \subseteq overlays \cup {entry}
      BY <1>2, <2>1 DEF Puts
    <2> QED
      BY <1>k, <2>2, <2>3 DEF CachesOK
  <1>5. /\ LeasesKept(t) /\ version' = version
        /\ lease' = lease /\ lease[t].at = "held" /\ SnapOf(t)' = v
    BY <1>2, <1>k, ReadsOf
  <1>6. PICK r : r = [request[t] EXCEPT !.at = "composed", !.rows = v]
    OBVIOUS
  <1>7. /\ r \in Request /\ r.at = "composed" /\ r.kind = request[t].kind /\ r.id = request[t].id
        /\ r.rows = v /\ r.began = request[t].began
    BY <1>k, <1>6 DEF Request, RequestPlaces
  <1>8. /\ Apart(t) /\ request'[t] = r /\ UNCHANGED load
        /\ \E f : request' = [u \in Threads |-> f[u]]
        /\ \E f : load' = [u \in Threads |-> f[u]]
    <2>1. UNCHANGED load /\ load' = [u \in Threads |-> load[u]]
      BY <1>1, Knows DEF sidecarVars
    <2> QED
      BY <1>2, <1>5, <1>6, <2>1, WakeOverlayOf
  <1>9. Good(r, lease[t], load[t], v, version, disk.meta, disk.chunk)
    <2>1. Fits(r, lease[t], load[t])
      BY <1>1, <1>7, <1>k DEF Fits
    <2>2. FreshRows(r, lease[t], v, version)
      BY <1>1, <1>2, <1>7, <1>k, ReadIsFresh, Arithmetic DEF FreshRows, Identified
    <2>3. FreshFiles(r, load[t], disk.meta, disk.chunk)
      BY <1>7, <1>k DEF FreshFiles
    <2> QED
      BY <2>1, <2>2, <2>3, <1>7, <1>k DEF Good
  <1>10. GoodAt(t)' /\ UNCHANGED disk
    BY <1>1, <1>5, <1>8, <1>9 DEF GoodAt, sidecarVars
  <1>11. CachesOK'
    BY <1>1, <1>4, <1>k DEF CachesOK, sidecarVars
  <1> QED
    BY <1>5, <1>8, <1>10, <1>11, StepGood

LEMMA ReadOverlayFailsKeeps ==
    ASSUME DetailInv, PoolInv', NEW t \in Threads, ReadOverlayFails(t)
    PROVE  DetailInv'
  <1>k. /\ Fits(request[t], lease[t], load[t]) /\ PoolInv
        /\ version \in Versions /\ disk.meta \in Generations /\ disk.chunk \in Generations
    BY Knows
  <1>1. /\ request[t].at = "read" /\ KeepStore /\ UNCHANGED <<identities, index, overlays>>
        /\ WakeOverlay(t, NoRequest) /\ Returns(t) /\ load' = [load EXCEPT ![t] = NoLoad]
    BY DEF ReadOverlayFails, At
  <1>2. LeasesKept(t) /\ version' = version /\ lease'[t].at = "off"
    BY <1>1, <1>k, ReturnsOf DEF Fits
  <1>3. /\ Apart(t) /\ request'[t] = NoRequest /\ load'[t] = NoLoad
        /\ \E f : request' = [u \in Threads |-> f[u]]
        /\ \E f : load' = [u \in Threads |-> f[u]]
    <2>1. /\ load'[t] = NoLoad /\ \A u \in Threads : u # t => load'[u] = load[u]
          /\ load' = [u \in Threads |-> load'[u]]
      BY <1>1, Knows
    <2> QED
      BY <1>1, <1>2, <2>1, WakeOverlayOf
  <1>4. PICK l, s : l = lease'[t] /\ s = SnapOf(t)'
    OBVIOUS
  <1>5. Good(NoRequest, l, NoLoad, s, version, disk.meta, disk.chunk)
    BY <1>2, <1>4, <1>k, NoneIsFine
  <1>6. GoodAt(t)' /\ UNCHANGED disk
    BY <1>1, <1>2, <1>3, <1>4, <1>5 DEF GoodAt, KeepStore
  <1>7. CachesOK'
    BY <1>1, CachesKept DEF KeepStore
  <1> QED
    BY <1>2, <1>3, <1>6, <1>7, StepGood

LEMMA RenderKeeps ==
    ASSUME DetailInv, PoolInv', NEW t \in Threads, Render(t)
    PROVE  DetailInv'
  <1>k. /\ request[t] \in Request /\ Fits(request[t], lease[t], load[t])
        /\ FreshRows(request[t], lease[t], SnapOf(t), version)
        /\ FreshFiles(request[t], load[t], disk.meta, disk.chunk) /\ PoolInv
    BY Knows
  <1>1. request[t].at = "composed" /\ lease[t].at = "held" /\ request[t].kind = "lines"
    BY <1>k DEF Render, At, Fits
  <1>2. PICK r \in Request : /\ Moves(t, r)
                              /\ r.at = "render" /\ r.kind = request[t].kind /\ r.rows = request[t].rows
                              /\ r.id = request[t].id /\ r.began = request[t].began
    <2>1. "render" \in RequestPlaces /\ Goes(t, "render") /\ request \in [Threads -> Request]
      BY Knows DEF Render, RequestPlaces
    <2> QED
      BY <2>1, GoesOf
  <1>3. PICK d : d = [NoLoad EXCEPT !.at = "meta", !.want = "lines"]
    OBVIOUS
  <1>4. Reading(t, d) /\ d \in Load /\ d.at = "meta" /\ d.want = "lines"
    BY <1>3 DEF Render, Reading, NoLoad, Load, LoadPlaces
  <1>5. PICK l, s : l = lease'[t] /\ s = SnapOf(t)'
    OBVIOUS
  <1>6. LeasesKept(t) /\ version' = version /\ l.at = "off"
    BY <1>1, <1>5, <1>k, ReturnsOf DEF Render
  <1>7. Good(r, l, d, s, version, disk.meta, disk.chunk)
    <2>1. Fits(r, l, d)
      BY <1>1, <1>2, <1>4, <1>6 DEF Fits
    <2>2. FreshRows(r, l, s, version)
      BY <1>1, <1>2, <1>6, <1>k DEF FreshRows, Identified
    <2>3. FreshFiles(r, d, disk.meta, disk.chunk)
      BY <1>2, <1>4, <1>k DEF FreshFiles
    <2> QED
      BY <2>1, <2>2, <2>3, <1>2, <1>4 DEF Good
  <1>8. CachesOK' /\ UNCHANGED disk
    BY CachesKept DEF Render, KeepStore, KeepCaches
  <1> QED
    BY <1>2, <1>4, <1>5, <1>6, <1>7, <1>8, OneMoves

(* A request waits for a connection. *)
LEMMA PoolStepKeeps ==
    ASSUME DetailInv, PoolInv', NEW t \in Threads, PoolStep(t), UNCHANGED <<sidecarVars, serviceVars>>
    PROVE  DetailInv'
  <1>k. /\ request[t] \in Request /\ load[t] \in Load /\ Fits(request[t], lease[t], load[t])
        /\ FreshRows(request[t], lease[t], SnapOf(t), version)
        /\ FreshFiles(request[t], load[t], disk.meta, disk.chunk) /\ PoolInv
        /\ request \in [Threads -> Request]
    BY Knows
  <1>1. /\ LeasesKept(t) /\ version' = version
        /\ lease[t].at \in {"want", "connect"} /\ lease'[t].at # "off" /\ SnapOf(t)' = None
    BY <1>k, PoolStepOf
  <1>2. PICK l, s : l = lease'[t] /\ s = SnapOf(t)'
    OBVIOUS
  <1>3. /\ request[t].at \in {"lookup", "overlay"} /\ load[t].at = "off"
        /\ request[t].at = "overlay" => request[t].kind = "lines"
    BY <1>1, <1>k DEF Fits, Request, RequestPlaces
  <1>4. Good(request[t], l, load[t], s, version, disk.meta, disk.chunk)
    <2>1. Fits(request[t], l, load[t])
      BY <1>1, <1>2, <1>3 DEF Fits
    <2>2. FreshRows(request[t], l, s, version)
      BY <1>1, <1>2, <1>3, <1>k DEF FreshRows
    <2> QED
      BY <2>1, <2>2, <1>k DEF Good
  <1>5. Moves(t, request[t]) /\ Reading(t, load[t]) /\ UNCHANGED disk /\ CachesOK'
    BY <1>k, SameLoad, CachesKept DEF Moves, sidecarVars, serviceVars
  <1> QED
    BY <1>1, <1>2, <1>4, <1>5, OneMoves

-----------------------------------------------------------------------------
(* The steps of a read of the store *)

(* Who reads the store is at the metadata or at the lines. *)
LEMMA ReadFits ==
    ASSUME DetailInv, NEW t \in Threads, load[t].at \in {"meta", "open", "chunk", "decode", "again"},
           NEW d, d.want = load[t].want, d.at # "off",
           load[t].at \in {"meta", "open"} /\ d.want = "meta" => d.at \in {"open", "done", "failed"}
    PROVE  Fits(request[t], lease[t], d) /\ (load[t].at \in {"chunk", "decode", "again"} => d.want = "lines")
  <1>k. Fits(request[t], lease[t], load[t]) /\ request[t] \in Request
    BY Knows
  <1>1. request[t].at \in {"meta", "render"}
    BY <1>k DEF Fits, Request, RequestPlaces
  <1>2. CASE request[t].at = "meta"
    BY <1>2, <1>k DEF Fits
  <1>3. CASE request[t].at = "render"
    BY <1>3, <1>k DEF Fits
  <1> QED
    BY <1>1, <1>2, <1>3

LEMMA ReadMoves ==
    ASSUME DetailInv, PoolInv', NEW t \in Threads, UNCHANGED <<poolVars, serviceVars>>, UNCHANGED disk,
           CachesOK', NEW d \in Load,
           \/ Reading(t, d)
           \/ load' = Woken(t, d),
           Fits(request[t], lease[t], d), FreshFiles(request[t], d, disk.meta, disk.chunk)
    PROVE  DetailInv'
  <1>k. /\ request[t] \in Request /\ FreshRows(request[t], lease[t], SnapOf(t), version)
        /\ request \in [Threads -> Request] /\ load \in [Threads -> Load]
    BY Knows
  <1>1. UNCHANGED request /\ KeepPool
    BY DEF serviceVars, KeepPool
  <1>2. LeasesKept(t) /\ version' = version /\ lease'[t] = lease[t] /\ SnapOf(t)' = SnapOf(t)
    BY <1>1, KeepPoolOf
  <1>3. /\ load'[t] = d
        /\ \A u \in Threads : u # t =>
             \/ load'[u] = load[u]
             \/ load[u].at = "wait" /\ load'[u] = [load[u] EXCEPT !.at = "again"]
        /\ load' = [u \in Threads |-> load'[u]]
    <2>1. CASE Reading(t, d)
      BY <2>1, <1>k DEF Reading
    <2>2. CASE load' = Woken(t, d)
      BY <2>2, ServiceAssumption DEF Woken
    <2> QED
      BY <2>1, <2>2
  <1>4. Apart(t)
    BY <1>1, <1>2, <1>3 DEF Apart
  <1>5. Good(request[t], lease[t], d, SnapOf(t), version, disk.meta, disk.chunk)
    BY <1>k DEF Good
  <1>6. GoodAt(t)'
    BY <1>1, <1>2, <1>3, <1>5 DEF GoodAt
  <1>7. (\E f : request' = [u \in Threads |-> f[u]]) /\ (\E f : load' = [u \in Threads |-> f[u]])
    BY <1>1, <1>3, <1>k
  <1> QED
    BY <1>2, <1>4, <1>6, <1>7, StepGood

LEMMA StatMetaKeeps ==
    ASSUME DetailInv, PoolInv', NEW t \in Threads, StatMeta(t), UNCHANGED <<poolVars, serviceVars>>
    PROVE  DetailInv'
  <1>k. /\ request[t] \in Request /\ load[t] \in Load /\ load \in [Threads -> Load]
        /\ FreshFiles(request[t], load[t], disk.meta, disk.chunk) /\ CachesOK
        /\ disk.meta \in Generations
    BY Knows
  <1>1. load[t].at = "meta" /\ UNCHANGED <<disk, metaCache, chunkCache, inflight>> /\ CachesOK'
    BY CachesKept DEF StatMeta, serviceVars
  <1>2. PICK a \in {"done", "chunk"} : a = AfterMeta(t) /\ (load[t].want = "meta" => a = "done")
    BY DEF AfterMeta
  <1>3. ASSUME NEW m \in metaCache, m.sig = disk.meta,
               Loads(t, [at |-> a, sig |-> disk.meta, meta |-> m.meta, msig |-> m.sig])
        PROVE  DetailInv'
    <2>1. m.meta \in Generations /\ m.sig \in Generations /\ disk.meta <= m.meta
      BY <1>3, <1>k DEF CachesOK
    <2>2. PICK d \in Load : /\ Reading(t, d)
                            /\ d.at = a /\ d.want = load[t].want /\ d.sig = disk.meta
                            /\ d.meta = m.meta /\ d.msig = m.sig /\ d.lines = load[t].lines
      BY <1>3, <1>k, <2>1, LoadsCached DEF LoadPlaces
    <2>3. Fits(request[t], lease[t], d)
      BY <1>1, <1>2, <2>2, ReadFits
    <2>4. d.at = "done" => d.want = "meta"
      BY <1>2, <1>k, <2>2 DEF AfterMeta, Load
    <2>5. FreshFiles(request[t], d, disk.meta, disk.chunk)
      BY <2>1, <2>2, <2>4, <1>k, Arithmetic DEF FreshFiles
    <2> QED
      BY <1>1, <2>2, <2>3, <2>5, ReadMoves
  <1>4. ASSUME Loads(t, [at |-> "open", sig |-> disk.meta])
        PROVE  DetailInv'
    <2>1. PICK d \in Load : /\ Reading(t, d)
                            /\ d.at = "open" /\ d.want = load[t].want /\ d.sig = disk.meta
      BY <1>4, <1>k, LoadsOpen DEF LoadPlaces
    <2>2. Fits(request[t], lease[t], d)
      BY <1>1, <2>1, ReadFits
    <2>3. FreshFiles(request[t], d, disk.meta, disk.chunk)
      BY <2>1, <1>k, Arithmetic DEF FreshFiles
    <2> QED
      BY <1>1, <2>1, <2>2, <2>3, ReadMoves
  <1> QED
    BY <1>2, <1>3, <1>4 DEF StatMeta

LEMMA OpenMetaKeeps ==
    ASSUME DetailInv, PoolInv', NEW t \in Threads, OpenMeta(t), UNCHANGED <<poolVars, serviceVars>>
    PROVE  DetailInv'
  <1>k. /\ request[t] \in Request /\ load[t] \in Load /\ load \in [Threads -> Load]
        /\ FreshFiles(request[t], load[t], disk.meta, disk.chunk) /\ CachesOK
        /\ disk.meta \in Generations
    BY Knows
  <1>1. load[t].at = "open" /\ UNCHANGED <<disk, chunkCache, inflight>>
    BY DEF OpenMeta
  <1>2. PICK a \in {"done", "chunk"} : a = AfterMeta(t) /\ (load[t].want = "meta" => a = "done")
    BY DEF AfterMeta
  <1>3. load[t].sig \in Generations /\ request[t].began[2] <= load[t].sig /\ load[t].sig <= disk.meta
    BY <1>1, <1>k DEF FreshFiles
  <1>4. PICK g, s \in Generations :
          /\ Loads(t, [at |-> a, meta |-> g, msig |-> s]) /\ load[t].sig <= g
          /\ \/ UNCHANGED metaCache
             \/ metaCache' \subseteq {[sig |-> load[t].sig, meta |-> disk.meta]}
    <2>1. CASE {m \in metaCache : m.sig = load[t].sig} # {}
      <3>1. PICK m \in metaCache : /\ m.sig = load[t].sig
                                   /\ Loads(t, [at |-> a, meta |-> m.meta, msig |-> m.sig])
        BY <1>2, <2>1 DEF OpenMeta
      <3>2. m.meta \in Generations /\ m.sig \in Generations /\ load[t].sig <= m.meta /\ UNCHANGED metaCache
        BY <1>k, <2>1, <3>1 DEF CachesOK, OpenMeta
      <3> QED
        BY <3>1, <3>2
    <2>2. CASE {m \in metaCache : m.sig = load[t].sig} = {}
      <3>1. PICK entry : entry = [sig |-> load[t].sig, meta |-> disk.meta]
        OBVIOUS
      <3>2. /\ metaCache' \in Puts("metadata", {}, entry, MaxMetadata)
            /\ Loads(t, [at |-> a, meta |-> disk.meta, msig |-> load[t].sig])
        BY <1>2, <2>2, <3>1 DEF OpenMeta
      <3>3. metaCache' \subseteq {entry}
        BY <3>2 DEF Puts
      <3> QED
        BY <1>3, <1>k, <3>1, <3>2, <3>3
    <2> QED
      BY <2>1, <2>2
  <1>5. CachesOK'
    <2>1. \A m \in metaCache' : m.sig \in Generations /\ m.meta \in Generations /\ m.sig <= m.meta
      <3>1. CASE UNCHANGED metaCache
        BY <3>1, <1>k DEF CachesOK
      <3>2. CASE metaCache' \subseteq {[sig |-> load[t].sig, meta |-> disk.meta]}
        BY <3>2, <1>3, <1>k
      <3> QED
        BY <1>4, <3>1, <3>2
    <2> QED
      BY <1>1, <1>k, <2>1 DEF CachesOK, serviceVars
  <1>6. PICK d \in Load : /\ Reading(t, d)
                          /\ d.at = a /\ d.want = load[t].want /\ d.sig = load[t].sig
                          /\ d.meta = g /\ d.msig = s /\ d.lines = load[t].lines
    BY <1>4, <1>k, LoadsMeta DEF LoadPlaces
  <1>7. Fits(request[t], lease[t], d)
    BY <1>1, <1>2, <1>6, ReadFits
  <1>8. d.at = "done" => d.want = "meta"
    BY <1>2, <1>k, <1>6 DEF AfterMeta, Load
  <1>9. FreshFiles(request[t], d, disk.meta, disk.chunk)
    BY <1>2, <1>3, <1>4, <1>6, <1>8, <1>k, Arithmetic DEF FreshFiles
  <1> QED
    BY <1>1, <1>5, <1>6, <1>7, <1>9, ReadMoves

LEMMA OpenMetaFailsKeeps ==
    ASSUME DetailInv, PoolInv', NEW t \in Threads, OpenMetaFails(t), UNCHANGED <<poolVars, serviceVars>>
    PROVE  DetailInv'
  <1>k. /\ load \in [Threads -> Load] /\ CachesOK
        /\ FreshFiles(request[t], load[t], disk.meta, disk.chunk)
    BY Knows
  <1>1. load[t].at = "open" /\ UNCHANGED <<disk, chunkCache, inflight>> /\ CachesOK'
    BY <1>k DEF OpenMetaFails, CachesOK, serviceVars
  <1>2. PICK d \in Load : Reading(t, d) /\ d.at = "failed" /\ d.want = load[t].want
    BY <1>k, LoadsAt DEF OpenMetaFails, LoadPlaces
  <1>3. Fits(request[t], lease[t], d)
    BY <1>1, <1>2, ReadFits
  <1>4. FreshFiles(request[t], d, disk.meta, disk.chunk)
    BY <1>2, <1>k DEF FreshFiles
  <1> QED
    BY <1>1, <1>2, <1>3, <1>4, ReadMoves

LEMMA LooksForKeeps ==
    ASSUME DetailInv, PoolInv', NEW t \in Threads, NEW sig \in Generations,
           load[t].at \in {"chunk", "again"}, request[t].began[3] <= sig, sig <= disk.chunk,
           LooksFor(t, sig), UNCHANGED <<poolVars, serviceVars>>
    PROVE  DetailInv'
  <1>k. /\ request[t] \in Request /\ load[t] \in Load /\ load \in [Threads -> Load]
        /\ FreshFiles(request[t], load[t], disk.meta, disk.chunk) /\ CachesOK
    BY Knows
  <1>1. UNCHANGED disk /\ CachesOK'
    BY CachesKept DEF LooksFor, serviceVars
  <1>2. ASSUME NEW c \in chunkCache, c.key = <<load[t].meta, load[t].msig, sig>>,
               Loads(t, [at |-> "done", sig |-> sig, lines |-> c.lines])
        PROVE  DetailInv'
    <2>1. c.lines \in Generations /\ sig <= c.lines
      BY <1>2, <1>k DEF CachesOK
    <2>2. PICK d \in Load : /\ Reading(t, d)
                            /\ d.at = "done" /\ d.want = load[t].want /\ d.sig = sig
                            /\ d.meta = load[t].meta /\ d.msig = load[t].msig /\ d.lines = c.lines
      BY <1>2, <1>k, <2>1, LoadsLines DEF LoadPlaces
    <2>3. Fits(request[t], lease[t], d)
      BY <2>2, ReadFits
    <2>4. FreshFiles(request[t], d, disk.meta, disk.chunk)
      BY <2>1, <2>2, <1>k, Arithmetic DEF FreshFiles
    <2> QED
      BY <1>1, <2>2, <2>3, <2>4, ReadMoves
  <1>3. ASSUME NEW a \in {"decode", "wait"}, Loads(t, [at |-> a, sig |-> sig])
        PROVE  DetailInv'
    <2>1. PICK d \in Load : /\ Reading(t, d)
                            /\ d.at = a /\ d.want = load[t].want /\ d.sig = sig
                            /\ d.meta = load[t].meta /\ d.msig = load[t].msig
      BY <1>3, <1>k, LoadsOpen DEF LoadPlaces
    <2>2. Fits(request[t], lease[t], d)
      BY <2>1, ReadFits
    <2>3. FreshFiles(request[t], d, disk.meta, disk.chunk)
      BY <2>1, <1>k DEF FreshFiles
    <2> QED
      BY <1>1, <2>1, <2>2, <2>3, ReadMoves
  <1> QED
    BY <1>2, <1>3 DEF LooksFor

LEMMA DecodeKeeps ==
    ASSUME DetailInv, PoolInv', NEW t \in Threads, load[t].at = "decode", UNCHANGED <<disk, metaCache>>,
           UNCHANGED <<poolVars, serviceVars>>,
           \/ /\ chunkCache' \in Puts("chunk", chunkCache, [key |-> KeyOf(t), lines |-> disk.chunk], MaxChunks)
              /\ load' = Woken(t, [load[t] EXCEPT !.at = "done", !.lines = disk.chunk])
           \/ UNCHANGED chunkCache /\ load' = Woken(t, [load[t] EXCEPT !.at = "failed"])
    PROVE  DetailInv'
  <1>k. /\ request[t] \in Request /\ load[t] \in Load /\ disk.chunk \in Generations
        /\ FreshFiles(request[t], load[t], disk.meta, disk.chunk) /\ CachesOK
    BY Knows
  <1>1. load[t].sig \in Generations /\ request[t].began[3] <= load[t].sig /\ load[t].sig <= disk.chunk
    BY <1>k DEF FreshFiles
  <1>2. ASSUME chunkCache' \in Puts("chunk", chunkCache, [key |-> KeyOf(t), lines |-> disk.chunk], MaxChunks),
               load' = Woken(t, [load[t] EXCEPT !.at = "done", !.lines = disk.chunk])
        PROVE  DetailInv'
    <2>1. PICK entry : entry = [key |-> KeyOf(t), lines |-> disk.chunk]
      OBVIOUS
    <2>2. chunkCache' \subseteq chunkCache \cup {entry}
      BY <1>2, <2>1 DEF Puts
    <2>3. entry.lines \in Generations /\ entry.key[3] <= entry.lines
      BY <1>1, <1>k, <2>1 DEF KeyOf
    <2>4. CachesOK'
      BY <1>k, <2>2, <2>3 DEF CachesOK, serviceVars
    <2>5. PICK d : d = [load[t] EXCEPT !.at = "done", !.lines = disk.chunk]
      OBVIOUS
    <2>6. /\ d \in Load /\ d.at = "done" /\ d.want = load[t].want /\ d.lines = disk.chunk
          /\ d.meta = load[t].meta /\ d.msig = load[t].msig
      BY <1>k, <2>5 DEF Load, LoadPlaces
    <2>7. Fits(request[t], lease[t], d)
      BY <2>6, ReadFits
    <2>8. FreshFiles(request[t], d, disk.meta, disk.chunk)
      BY <2>6, <1>k DEF FreshFiles
    <2> QED
      BY <1>2, <2>4, <2>5, <2>6, <2>7, <2>8, ReadMoves
  <1>3. ASSUME UNCHANGED chunkCache, load' = Woken(t, [load[t] EXCEPT !.at = "failed"])
        PROVE  DetailInv'
    <2>1. CachesOK'
      BY <1>3, CachesKept DEF serviceVars
    <2>2. PICK d : d = [load[t] EXCEPT !.at = "failed"]
      OBVIOUS
    <2>3. d \in Load /\ d.at = "failed" /\ d.want = load[t].want
      BY <1>k, <2>2 DEF Load, LoadPlaces
    <2>4. Fits(request[t], lease[t], d)
      BY <2>3, ReadFits
    <2>5. FreshFiles(request[t], d, disk.meta, disk.chunk)
      BY <2>3, <1>k DEF FreshFiles
    <2> QED
      BY <1>3, <2>1, <2>2, <2>3, <2>4, <2>5, ReadMoves
  <1> QED
    BY <1>2, <1>3

LEMMA ReadStepKeeps ==
    ASSUME DetailInv, PoolInv', NEW t \in Threads, ReadStep(t), UNCHANGED <<poolVars, serviceVars>>
    PROVE  DetailInv'
  <1>k. /\ FreshFiles(request[t], load[t], disk.meta, disk.chunk) /\ request[t] \in Request
        /\ disk.chunk \in Generations
    BY Knows
  <1>1. CASE LookupChunk(t)
    BY <1>1, <1>k, LooksForKeeps, Arithmetic DEF LookupChunk, FreshFiles
  <1>2. CASE LookAgain(t)
    BY <1>2, <1>k, LooksForKeeps DEF LookAgain, FreshFiles
  <1>3. CASE DecodeChunk(t)
    BY <1>3, DecodeKeeps DEF DecodeChunk
  <1>4. CASE DecodeFails(t)
    BY <1>4, DecodeKeeps DEF DecodeFails
  <1> QED
    BY <1>1, <1>2, <1>3, <1>4, StatMetaKeeps, OpenMetaKeeps, OpenMetaFailsKeeps DEF ReadStep

-----------------------------------------------------------------------------
(* The whole specification *)

(* What happens beside the requests: reviews, injections, other work. *)
LEMMA BesideKeeps ==
    ASSUME DetailInv, PoolInv', NEW v \in Versions, version' = v, version <= v,
           NEW m \in Generations, NEW c \in Generations, disk' = [meta |-> m, chunk |-> c],
           disk.meta <= m, disk.chunk <= c,
           UNCHANGED <<metaCache, chunkCache, overlays, identities, index, request, load, lease>>,
           \A u \in Threads : SnapOf(u)' = SnapOf(u)
    PROVE  DetailInv'
  <1>1. CachesOK'
    BY CachesKept
  <1>2. DiskOK'
    BY DEF DiskOK
  <1>3. ASSUME NEW u \in Threads
        PROVE  GoodAt(u)'
    <2>1. Good(request[u], lease[u], load[u], SnapOf(u), version, disk.meta, disk.chunk)
      BY DEF DetailInv, GoodAt
    <2>2. Good(request[u], lease[u], load[u], SnapOf(u), v, m, c)
      BY <2>1, Knows, GoodGrows
    <2> QED
      BY <2>2 DEF GoodAt
  <1> QED
    BY <1>1, <1>2, <1>3 DEF DetailInv

(* Every step leaves the pool alone or is one of its operations, called     *)
(* where the code may call it.                                              *)
LEMMA PoolMoves ==
    ASSUME DetailInv, [Next]_vars
    PROVE  PoolMove
  <1>1. ASSUME NEW t \in Threads, NEW kind \in {"lines", "layout"}, Begin(t, kind)
        PROVE  PoolMove
    BY <1>1, Knows DEF Begin, At, Fits, PoolMove
  <1>2. ASSUME NEW t \in Threads, RequestStep(t)
        PROVE  PoolMove
    <2>k. Fits(request[t], lease[t], load[t]) /\ request[t] \in Request
      BY Knows
    <2>1. CASE Refused(t)
      BY <2>1 DEF Refused, PoolMove
    <2>2. CASE LookupIdentity(t) \/ ClaimIdentity(t) \/ LookupOverlay(t)
      BY <2>2 DEF LookupIdentity, ClaimIdentity, LookupOverlay, KeepPool, PoolMove
    <2>3. CASE CheckIdentity(t) \/ LoadIdentity(t) \/ ReadOverlay(t)
      <3>1. \E v \in Versions : Reads(t, v)
        BY <2>3 DEF CheckIdentity, LoadIdentity, ReadOverlay
      <3> QED
        BY <3>1 DEF PoolMove
    <2>4. CASE LoadIdentityFails(t) \/ ReadOverlayFails(t) \/ Render(t)
      <3>1. Returns(t) /\ lease[t].at = "held"
        BY <2>4, <2>k DEF LoadIdentityFails, ReadOverlayFails, Render, At, Fits
      <3> QED
        BY <3>1 DEF PoolMove
    <2>5. CASE ReadMeta(t)
      <3>1. KeepPool \/ (Returns(t) /\ lease[t].at = "held")
        BY <2>5, <2>k DEF ReadMeta, At, Fits
      <3> QED
        BY <3>1 DEF PoolMove, KeepPool
    <2>6. CASE MetaFails(t) \/ Answer(t)
      <3>1. KeepPool \/ (Returns(t) /\ lease[t].at = "held")
        BY <2>6 DEF MetaFails, Answer, Held
      <3> QED
        BY <3>1 DEF PoolMove, KeepPool
    <2>7. CASE MetaRead(t)
      <3>1. KeepPool \/ (Borrows(t) /\ lease[t].at = "off")
        BY <2>7, <2>k DEF MetaRead, At, Fits, Held
      <3> QED
        BY <3>1 DEF PoolMove, KeepPool
    <2> QED
      BY <1>2, <2>1, <2>2, <2>3, <2>4, <2>5, <2>6, <2>7 DEF RequestStep
  <1>3. CASE UNCHANGED vars
    BY <1>3 DEF vars, PoolMove
  <1> QED
    BY <1>1, <1>2, <1>3 DEF Next, Step, PoolMove

LEMMA DetailInvStep ==
    ASSUME DetailInv, [Next]_vars
    PROVE  DetailInv'
  <1>p. PoolInv'
    BY PoolMoves, PoolInvStep DEF DetailInv
  <1>d. /\ disk \in [meta : Generations, chunk : Generations] /\ version \in Versions
        /\ MaxVersion \in Nat /\ MaxGeneration \in Nat /\ PoolInv
    BY PoolAssumption, SidecarAssumption DEF DetailInv, DiskOK, PoolInv, PoolTypeOK
  <1>1. ASSUME NEW t \in Threads, RequestStep(t)
        PROVE  DetailInv'
    BY <1>1, <1>p, RefusedKeeps, LookupIdentityKeeps, CheckIdentityKeeps, ClaimIdentityKeeps,
       LoadIdentityKeeps, LoadIdentityFailsKeeps, ReadMetaKeeps, MetaFailsKeeps, MetaReadKeeps,
       LookupOverlayKeeps, ReadOverlayKeeps, ReadOverlayFailsKeeps, RenderKeeps, AnswerKeeps
       DEF RequestStep
  <1>2. ASSUME NEW t \in Threads, Step(t) \/ \E kind \in {"lines", "layout"} : Begin(t, kind)
        PROVE  DetailInv'
    BY <1>1, <1>2, <1>p, PoolStepKeeps, ReadStepKeeps, BeginKeeps DEF Step
  <1>3. ASSUME Review \/ CloseAll \/ OthersBorrow \/ OthersReturn, UNCHANGED <<sidecarVars, serviceVars>>
        PROVE  DetailInv'
    <2>1. /\ lease' = lease /\ \A u \in Threads : SnapOf(u)' = SnapOf(u)
          /\ version' \in {version, version + 1}
      BY <1>3, <1>d, OthersOf
    <2>2. version' \in Versions /\ version <= version'
      BY <1>p, <1>d, <2>1 DEF PoolInv, PoolTypeOK, Versions
    <2>3. PICK v \in Versions : version' = v /\ version <= v
      BY <2>2
    <2>4. /\ disk' = [meta |-> disk.meta, chunk |-> disk.chunk]
          /\ disk.meta \in Generations /\ disk.chunk \in Generations
          /\ disk.meta <= disk.meta /\ disk.chunk <= disk.chunk
      BY <1>3, <1>d DEF sidecarVars, Generations
    <2>5. UNCHANGED <<metaCache, chunkCache, overlays, identities, index, request, load, lease>>
      BY <1>3, <2>1 DEF sidecarVars, serviceVars
    <2> QED
      BY <1>p, <2>1, <2>3, <2>4, <2>5, BesideKeeps
  <1>4. ASSUME SaveChunks \/ SaveMeta, UNCHANGED <<poolVars, serviceVars>>
        PROVE  DetailInv'
    <2>1. PICK m \in Generations, c \in Generations :
             disk' = [meta |-> m, chunk |-> c] /\ disk.meta <= m /\ disk.chunk <= c
      BY <1>4, <1>d DEF SaveChunks, SaveMeta, Generations
    <2>2. UNCHANGED <<metaCache, chunkCache, overlays, identities, index, request, load, lease>>
      BY <1>4 DEF SaveChunks, SaveMeta, poolVars, serviceVars
    <2>3. /\ version' = version /\ version <= version
          /\ \A u \in Threads : SnapOf(u)' = SnapOf(u)
      BY <1>4, <1>d DEF poolVars, SnapOf, Versions
    <2> QED
      BY <1>p, <1>d, <2>1, <2>2, <2>3, BesideKeeps
  <1>5. CASE UNCHANGED vars
    BY <1>5 DEF vars, poolVars, sidecarVars, serviceVars, DetailInv, PoolInv, PoolTypeOK, Lent, Counted,
                Open, Leased, Connecting, CachesOK, DiskOK, GoodAt, SnapOf
  <1> QED
    BY <1>2, <1>3, <1>4, <1>5 DEF Next

LEMMA DetailInvInit ==
    ASSUME Init
    PROVE  DetailInv
  <1>1. PoolTypeOK
    <2>1. version \in Versions /\ active \in Nat /\ connecting \in Nat
      BY PoolAssumption DEF Init, PoolInit, Versions
    <2>2. shut \in BOOLEAN
      BY Zenon DEF Init, PoolInit
    <2>3. /\ snapshot \in [Conns -> Versions \cup {None}]
          /\ lease \in [Threads -> [at : Places, conn : Conns \cup {None}]]
          /\ idle \subseteq Conns /\ others \subseteq Conns
      BY DEF Init, PoolInit, NoLease, Places
    <2> QED
      BY <2>1, <2>2, <2>3 DEF PoolTypeOK
  <1>2. Leased = {} /\ Connecting = {} /\ Open = {}
    BY DEF Init, PoolInit, NoLease, Leased, Connecting, Open
  <1>3. Lent
    BY <1>2, NoneAssumption DEF Init, PoolInit, NoLease, Lent
  <1>4. Counted
    BY <1>2, FS_EmptySet, PoolAssumption DEF Init, PoolInit, Counted
  <1>5. /\ version \in Versions /\ 0 \in Generations
        /\ disk = [meta |-> 0, chunk |-> 0]
    BY PoolAssumption, SidecarAssumption DEF Init, PoolInit, SidecarInit, Versions, Generations
  <1>6. DiskOK /\ disk.meta \in Generations /\ disk.chunk \in Generations
    BY <1>5 DEF DiskOK
  <1>7. \A t \in Threads : request[t] = NoRequest /\ load[t] = NoLoad /\ lease[t].at = "off"
    BY ServiceAssumption DEF Init, PoolInit, SidecarInit, NoLease
  <1>8. \A t \in Threads : GoodAt(t)
    BY <1>5, <1>6, <1>7, NoneIsFine DEF GoodAt
  <1>9. request \in [Threads -> Request] /\ load \in [Threads -> Load]
    BY <1>5, <1>6, <1>7, NoneIsFine, ServiceAssumption DEF Init, SidecarInit
  <1>10. CachesOK
    BY DEF Init, SidecarInit, CachesOK
  <1> QED
    BY <1>1, <1>3, <1>4, <1>6, <1>8, <1>9, <1>10 DEF DetailInv, PoolInv

(* The pool counts its connections rightly, and a request's place, lease,   *)
(* snapshot, read of the store and cached values fit together, in every     *)
(* reachable state (connection_pool.py, vnext_service.py, sidecar_store.py).*)
THEOREM DetailCorrect == Spec => []DetailInv
  BY DetailInvInit, DetailInvStep, PTL DEF Spec

(* MySQLConnectionPool never has more connections open and being made than  *)
(* MaxConnections.                                                          *)
THEOREM PoolCorrect == Spec => []PoolBounded
  <1>1. DetailInv => PoolBounded
    BY DEF DetailInv, PoolInv, Counted, PoolBounded, Connecting
  <1> QED
    BY <1>1, DetailCorrect, PTL

(* No answer is older than the moment its request came, whatever caches,    *)
(* snapshots and loads of other requests it is put together from.           *)
THEOREM AnswersCurrent == Spec => []AnswerIsCurrent
  <1>1. ASSUME DetailInv
        PROVE  AnswerIsCurrent
    <2>1. ASSUME NEW t \in Threads, Answering(t)
          PROVE  /\ request[t].rows >= request[t].began[1]
                 /\ load[t].meta >= request[t].began[2]
                 /\ request[t].kind = "lines" => load[t].lines >= request[t].began[3]
      <3>k. /\ request[t] \in Request /\ load[t] \in Load /\ Fits(request[t], lease[t], load[t])
            /\ FreshRows(request[t], lease[t], SnapOf(t), version)
            /\ FreshFiles(request[t], load[t], disk.meta, disk.chunk)
        BY <1>1, Knows
      <3>1. request[t].at \in {"composed", "render"} /\ load[t].at = "done"
        BY <2>1, <3>k DEF Answering, At, Fits
      <3>2. /\ request[t].rows \in Versions /\ request[t].id \in Versions
            /\ request[t].began[1] <= request[t].id /\ request[t].id <= request[t].rows
        BY <3>1, <3>k DEF FreshRows, Identified
      <3>3. request[t].began[2] <= load[t].meta /\ load[t].meta \in Generations
        BY <3>1, <3>k DEF FreshFiles
      <3>4. request[t].kind = "lines" => request[t].began[3] <= load[t].lines /\ load[t].lines \in Generations
        BY <2>1, <3>1, <3>k DEF Answering, At, Fits, FreshFiles
      <3> QED
        BY <3>2, <3>3, <3>4, <3>k, Arithmetic
    <2> QED
      BY <2>1 DEF AnswerIsCurrent
  <1> QED
    BY <1>1, DetailCorrect, PTL

-----------------------------------------------------------------------------
(* Who waits, and for whom *)

(* The owner of the identity's event loads it; who waits, waits for it. *)
IdentityFlight ==
    /\ idFlight # None => idFlight \in Threads /\ request[idFlight].at = "load"
    /\ \A t \in Threads : request[t].at = "waitIdentity" => idFlight # None

(* The owner of an overlay's event reads that overlay. *)
OverlayFlight ==
    /\ \A o \in ovFlight : /\ o.owner \in Threads /\ request[o.owner].at = "read"
                           /\ o.key = <<request[o.owner].id, request[o.owner].kind>>
    /\ \A t \in Threads : request[t].at = "waitOverlay" =>
          \E o \in ovFlight : o.key = <<request[t].id, request[t].kind>>

(* The owner of a chunk's event decodes that chunk. *)
ChunkFlight ==
    /\ \A o \in inflight : /\ o.owner \in Threads /\ load[o.owner].at = "decode"
                           /\ o.key = <<load[o.owner].meta, load[o.owner].msig, load[o.owner].sig>>
    /\ \A t \in Threads : load[t].at = "wait" =>
          \E o \in inflight : o.key = <<load[t].meta, load[t].msig, load[t].sig>>

FlightInv == IdentityFlight /\ OverlayFlight /\ ChunkFlight

Settled == {"idle", "lookup", "check", "claim", "identified", "meta", "overlay", "composed", "render"}

(* What a step does to the requests and to the events they wait for. *)
RequestMove ==
    \/ UNCHANGED <<request, idFlight, ovFlight>>
    \/ \E t \in Threads : \E r :
          /\ Moves(t, r) /\ request[t].at \in Settled /\ r.at \in Settled
          /\ UNCHANGED <<idFlight, ovFlight>>
    \/ \E t \in Threads : ClaimIdentity(t)
    \/ \E t \in Threads : \E mine :
          /\ WakeIdentity(t, mine) /\ request[t].at = "load" /\ mine.at \in Settled
          /\ idFlight' = None /\ UNCHANGED ovFlight
    \/ \E t \in Threads : LookupOverlay(t)
    \/ \E t \in Threads : \E mine :
          /\ WakeOverlay(t, mine) /\ request[t].at = "read" /\ mine.at \in Settled
          /\ ovFlight' = ovFlight \ OverlayOwner(OverlayKey(t)) /\ UNCHANGED idFlight

(* What a step does to the reads of the store. *)
LoadMove ==
    \/ UNCHANGED <<load, inflight>>
    \/ \E t \in Threads : \E d :
          /\ Reading(t, d) /\ load[t].at # "decode" /\ d.at \notin {"decode", "wait"} /\ UNCHANGED inflight
    \/ \E t \in Threads : \E sig \in Generations : LooksFor(t, sig) /\ load[t].at # "decode"
    \/ \E t \in Threads : \E d :
          /\ load' = Woken(t, d) /\ load[t].at = "decode" /\ d.at \notin {"decode", "wait"}
          /\ inflight' = inflight \ Owner(KeyOf(t))

LEMMA RequestMoves ==
    ASSUME DetailInv, [Next]_vars
    PROVE  RequestMove
  <1>1. ASSUME NEW t \in Threads, NEW kind \in {"lines", "layout"}, Begin(t, kind)
        PROVE  RequestMove
    <2>1. PICK r : r = [NoRequest EXCEPT !.at = "lookup", !.kind = kind,
                                         !.began = <<version, disk.meta, disk.chunk>>]
      OBVIOUS
    <2>2. Moves(t, r) /\ r.at = "lookup" /\ request[t].at = "idle" /\ UNCHANGED <<idFlight, ovFlight>>
      BY <1>1, <2>1 DEF Begin, Moves, NoRequest, KeepCaches, At
    <2> QED
      BY <2>2 DEF RequestMove, Settled
  <1>2. ASSUME NEW t \in Threads, RequestStep(t)
        PROVE  RequestMove
    <2>k. /\ Fits(request[t], lease[t], load[t]) /\ request[t] \in Request
          /\ request \in [Threads -> Request]
      BY Knows
    <2>1. ASSUME NEW place \in Settled, Goes(t, place), request[t].at \in Settled,
                 UNCHANGED <<idFlight, ovFlight>>
          PROVE  RequestMove
      <3>1. place \in RequestPlaces
        BY DEF Settled, RequestPlaces
      <3>2. PICK r \in Request : Moves(t, r) /\ r.at = place
        BY <2>1, <2>k, <3>1, GoesOf
      <3> QED
        BY <2>1, <3>2 DEF RequestMove
    <2>2. ASSUME Over(t), request[t].at \in Settled, UNCHANGED <<idFlight, ovFlight>>
          PROVE  RequestMove
      <3>1. Moves(t, NoRequest) /\ NoRequest.at \in Settled
        BY <2>2 DEF Over, Moves, NoRequest, Settled
      <3> QED
        BY <2>2, <3>1 DEF RequestMove
    <2>3. CASE Refused(t)
      <3>1. request[t].at \in {"lookup", "overlay"}
        BY <2>3, <2>k DEF Refused, Fits, Request, RequestPlaces
      <3> QED
        BY <2>2, <2>3, <3>1 DEF Refused, Settled, KeepCaches
    <2>4. CASE LookupIdentity(t)
      <3>1. PICK place \in {"check", "claim"} :
              request' = [request EXCEPT ![t].at = place, ![t].full = index]
        BY <2>4 DEF LookupIdentity
      <3>2. PICK r : r = [request[t] EXCEPT !.at = place, !.full = index]
        OBVIOUS
      <3>3. Moves(t, r) /\ r.at = place
        BY <2>k, <3>1, <3>2 DEF Moves, Request
      <3> QED
        BY <2>4, <3>3 DEF LookupIdentity, At, RequestMove, Settled, KeepCaches
    <2>5. CASE CheckIdentity(t)
      <3>1. PICK r : r = request'[t]
        OBVIOUS
      <3>2. Moves(t, r)
        BY <2>5, <2>k, <3>1 DEF CheckIdentity, Moves
      <3>3. r.at \in {"identified", "claim"}
        BY <2>5, <2>k, <3>1 DEF CheckIdentity, Request
      <3> QED
        BY <2>5, <3>2, <3>3 DEF CheckIdentity, At, RequestMove, Settled
    <2>6. CASE ClaimIdentity(t)
      BY <2>6 DEF RequestMove
    <2>7. CASE LoadIdentity(t)
      <3>1. PICK v \in Versions : WakeIdentity(t, [request[t] EXCEPT !.at = "identified", !.id = v])
        BY <2>7 DEF LoadIdentity
      <3>2. PICK mine : mine = [request[t] EXCEPT !.at = "identified", !.id = v]
        OBVIOUS
      <3>3. mine.at = "identified"
        BY <2>k, <3>2 DEF Request
      <3> QED
        BY <2>7, <3>1, <3>2, <3>3 DEF LoadIdentity, At, RequestMove, Settled
    <2>8. CASE LoadIdentityFails(t)
      <3>1. NoRequest.at \in Settled
        BY DEF NoRequest, Settled
      <3> QED
        BY <2>8, <3>1 DEF LoadIdentityFails, At, RequestMove
    <2>9. CASE ReadMeta(t) \/ MetaRead(t)
      <3>1. \E place \in {"meta", "overlay"} : Goes(t, place)
        BY <2>9 DEF ReadMeta, MetaRead
      <3>2. request[t].at \in {"identified", "meta"} /\ UNCHANGED <<idFlight, ovFlight>>
        BY <2>9 DEF ReadMeta, MetaRead, At, KeepCaches
      <3> QED
        BY <2>1, <3>1, <3>2 DEF Settled
    <2>10. CASE MetaFails(t) \/ Answer(t)
      <3>1. /\ Over(t) /\ request[t].at \in {"meta", "composed", "render"}
            /\ UNCHANGED <<idFlight, ovFlight>>
        BY <2>10 DEF MetaFails, Answer, Answering, At, KeepCaches
      <3> QED
        BY <2>2, <3>1 DEF Settled
    <2>11. CASE Render(t)
      BY <2>1, <2>11 DEF Render, At, KeepCaches, Settled
    <2>12. CASE LookupOverlay(t)
      BY <2>12 DEF RequestMove
    <2>13. CASE ReadOverlay(t)
      <3>1. PICK v \in Versions : WakeOverlay(t, [request[t] EXCEPT !.at = "composed", !.rows = v])
        BY <2>13 DEF ReadOverlay
      <3>2. PICK mine : mine = [request[t] EXCEPT !.at = "composed", !.rows = v]
        OBVIOUS
      <3>3. mine.at = "composed"
        BY <2>k, <3>2 DEF Request
      <3> QED
        BY <2>13, <3>1, <3>2, <3>3 DEF ReadOverlay, At, RequestMove, Settled
    <2>14. CASE ReadOverlayFails(t)
      <3>1. NoRequest.at \in Settled
        BY DEF NoRequest, Settled
      <3> QED
        BY <2>14, <3>1 DEF ReadOverlayFails, At, RequestMove
    <2> QED
      BY <1>2, <2>3, <2>4, <2>5, <2>6, <2>7, <2>8, <2>9, <2>10, <2>11, <2>12, <2>13, <2>14 DEF RequestStep
  <1>3. CASE UNCHANGED serviceVars
    BY <1>3 DEF serviceVars, RequestMove
  <1> QED
    BY <1>1, <1>2, <1>3 DEF Next, Step, vars

LEMMA LoadMoves ==
    ASSUME DetailInv, [Next]_vars
    PROVE  LoadMove
  <1>1. ASSUME NEW t \in Threads, RequestStep(t)
        PROVE  LoadMove
    <2>k. Fits(request[t], lease[t], load[t]) /\ request[t] \in Request /\ load \in [Threads -> Load]
      BY Knows
    <2>1. CASE \/ LookupIdentity(t) \/ CheckIdentity(t) \/ ClaimIdentity(t) \/ LoadIdentity(t)
               \/ LoadIdentityFails(t) \/ LookupOverlay(t) \/ ReadOverlay(t)
      BY <2>1 DEF LookupIdentity, CheckIdentity, ClaimIdentity, LoadIdentity, LoadIdentityFails,
                  LookupOverlay, ReadOverlay, sidecarVars, LoadMove
    <2>2. ASSUME load[t].at # "decode", UNCHANGED inflight, load' = [load EXCEPT ![t] = NoLoad]
          PROVE  LoadMove
      <3>1. Reading(t, NoLoad) /\ NoLoad.at = "off"
        BY <2>2 DEF Reading, NoLoad
      <3> QED
        BY <2>2, <3>1 DEF LoadMove
    <2>3. CASE Refused(t)
      BY <2>2, <2>3, <2>k DEF Refused, Fits, Request, RequestPlaces, KeepStore
    <2>4. CASE MetaFails(t) \/ Answer(t) \/ ReadOverlayFails(t)
      BY <2>2, <2>4, <2>k DEF MetaFails, Answer, Answering, ReadOverlayFails, At, Fits, Request, KeepStore
    <2>5. CASE MetaRead(t)
      <3>1. load[t].at = "done" /\ UNCHANGED inflight
        BY <2>5 DEF MetaRead, KeepStore
      <3>2. UNCHANGED load \/ load' = [load EXCEPT ![t] = NoLoad]
        BY <2>5 DEF MetaRead
      <3> QED
        BY <2>2, <3>1, <3>2 DEF LoadMove
    <2>6. CASE ReadMeta(t)
      <3>1. PICK d : d = [NoLoad EXCEPT !.at = "meta"]
        OBVIOUS
      <3>2. Reading(t, d) /\ d.at = "meta" /\ load[t].at = "off" /\ UNCHANGED inflight
        BY <2>6, <2>k, <3>1 DEF ReadMeta, Reading, NoLoad, At, Fits, KeepStore
      <3> QED
        BY <3>2 DEF LoadMove
    <2>7. CASE Render(t)
      <3>1. PICK d : d = [NoLoad EXCEPT !.at = "meta", !.want = "lines"]
        OBVIOUS
      <3>2. Reading(t, d) /\ d.at = "meta" /\ load[t].at = "off" /\ UNCHANGED inflight
        BY <2>7, <2>k, <3>1 DEF Render, Reading, NoLoad, At, Fits, KeepStore
      <3> QED
        BY <3>2 DEF LoadMove
    <2> QED
      BY <1>1, <2>1, <2>3, <2>4, <2>5, <2>6, <2>7 DEF RequestStep
  <1>2. ASSUME NEW t \in Threads, ReadStep(t)
        PROVE  LoadMove
    <2>k. /\ load[t] \in Load /\ load \in [Threads -> Load] /\ CachesOK
          /\ FreshFiles(request[t], load[t], disk.meta, disk.chunk)
          /\ disk.meta \in Generations /\ disk.chunk \in Generations
      BY Knows
    <2>1. CASE StatMeta(t)
      <3>1. load[t].at = "meta" /\ UNCHANGED inflight /\ AfterMeta(t) \in {"done", "chunk"}
        BY <2>1 DEF StatMeta, AfterMeta
      <3>2. \E d : Reading(t, d) /\ d.at \in {"done", "chunk", "open"}
        <4>1. ASSUME NEW m \in metaCache, NEW a \in {"done", "chunk"},
                     Loads(t, [at |-> a, sig |-> disk.meta, meta |-> m.meta, msig |-> m.sig])
              PROVE  \E d : Reading(t, d) /\ d.at \in {"done", "chunk", "open"}
          <5>0. m.meta \in Generations /\ m.sig \in Generations /\ a \in LoadPlaces
            BY <2>k DEF CachesOK, LoadPlaces
          <5>1. \E d \in Load : Reading(t, d) /\ d.at = a
            BY <4>1, <5>0, <2>k, LoadsCached
          <5> QED
            BY <5>1
        <4>2. ASSUME Loads(t, [at |-> "open", sig |-> disk.meta])
              PROVE  \E d : Reading(t, d) /\ d.at \in {"done", "chunk", "open"}
          <5>1. \E d \in Load : Reading(t, d) /\ d.at = "open"
            BY <4>2, <2>k, LoadsOpen DEF LoadPlaces
          <5> QED
            BY <5>1
        <4> QED
          BY <2>1, <3>1, <4>1, <4>2 DEF StatMeta
      <3> QED
        BY <3>1, <3>2 DEF LoadMove
    <2>2. CASE OpenMeta(t)
      <3>1. load[t].at = "open" /\ UNCHANGED inflight /\ AfterMeta(t) \in {"done", "chunk"}
        BY <2>2 DEF OpenMeta, AfterMeta
      <3>2. load[t].sig \in Generations
        BY <3>1, <2>k DEF FreshFiles
      <3>3. \E g, s \in Generations : Loads(t, [at |-> AfterMeta(t), meta |-> g, msig |-> s])
        <4>1. CASE {m \in metaCache : m.sig = load[t].sig} # {}
          <5>1. PICK m \in metaCache : Loads(t, [at |-> AfterMeta(t), meta |-> m.meta, msig |-> m.sig])
            BY <2>2, <4>1 DEF OpenMeta
          <5> QED
            BY <2>k, <5>1 DEF CachesOK
        <4>2. CASE {m \in metaCache : m.sig = load[t].sig} = {}
          <5>1. Loads(t, [at |-> AfterMeta(t), meta |-> disk.meta, msig |-> load[t].sig])
            BY <2>2, <4>2 DEF OpenMeta
          <5> QED
            BY <2>k, <3>2, <5>1
        <4> QED
          BY <4>1, <4>2
      <3>4. PICK a \in {"done", "chunk"} : \E g, s \in Generations : Loads(t, [at |-> a, meta |-> g, msig |-> s])
        BY <3>1, <3>3
      <3>5. \E d \in Load : Reading(t, d) /\ d.at = a
        BY <2>k, <3>4, LoadsMeta DEF LoadPlaces
      <3> QED
        BY <3>1, <3>5 DEF LoadMove
    <2>3. CASE OpenMetaFails(t)
      <3>1. \E d \in Load : Reading(t, d) /\ d.at = "failed"
        BY <2>3, <2>k, LoadsAt DEF OpenMetaFails, LoadPlaces
      <3> QED
        BY <2>3, <3>1 DEF OpenMetaFails, LoadMove
    <2>4. CASE LookupChunk(t)
      BY <2>4, <2>k DEF LookupChunk, LoadMove
    <2>5. CASE LookAgain(t)
      BY <2>5, <2>k DEF LookAgain, LoadMove, FreshFiles
    <2>6. CASE DecodeChunk(t)
      <3>1. PICK d : d = [load[t] EXCEPT !.at = "done", !.lines = disk.chunk]
        OBVIOUS
      <3>2. d.at = "done"
        BY <2>k, <3>1 DEF Load
      <3> QED
        BY <2>6, <3>1, <3>2 DEF DecodeChunk, LoadMove
    <2>7. CASE DecodeFails(t)
      <3>1. PICK d : d = [load[t] EXCEPT !.at = "failed"]
        OBVIOUS
      <3>2. d.at = "failed"
        BY <2>k, <3>1 DEF Load
      <3> QED
        BY <2>7, <3>1, <3>2 DEF DecodeFails, ReleaseOwner, LoadMove
    <2> QED
      BY <1>2, <2>1, <2>2, <2>3, <2>4, <2>5, <2>6, <2>7 DEF ReadStep
  <1>3. CASE UNCHANGED <<load, inflight>>
    BY <1>3 DEF LoadMove
  <1> QED
    BY <1>1, <1>2, <1>3 DEF Next, Step, Begin, SaveChunks, SaveMeta, sidecarVars, vars

(* A step that leaves the owners where they are. *)
LEMMA IdentityKept ==
    ASSUME IdentityFlight, UNCHANGED idFlight,
           \A u \in Threads : request[u].at = "load" => request'[u].at = "load",
           \A u \in Threads : request'[u].at = "waitIdentity" => request[u].at = "waitIdentity"
    PROVE  IdentityFlight'
  BY DEF IdentityFlight

LEMMA OverlayKept ==
    ASSUME OverlayFlight, UNCHANGED ovFlight,
           \A u \in Threads : request[u].at = "read" => request'[u] = request[u],
           \A u \in Threads : request'[u].at = "waitOverlay" => request'[u] = request[u]
    PROVE  OverlayFlight'
  <1>1. \A o \in ovFlight : /\ o.owner \in Threads /\ request'[o.owner].at = "read"
                            /\ o.key = <<request'[o.owner].id, request'[o.owner].kind>>
    BY DEF OverlayFlight
  <1>2. \A t \in Threads : request'[t].at = "waitOverlay" =>
          \E o \in ovFlight : o.key = <<request'[t].id, request'[t].kind>>
    BY DEF OverlayFlight
  <1> QED
    BY <1>1, <1>2 DEF OverlayFlight

LEMMA RequestFlights ==
    ASSUME IdentityFlight, OverlayFlight, request \in [Threads -> Request], RequestMove
    PROVE  IdentityFlight' /\ OverlayFlight'
  <1>n. None \notin Threads
    BY NoneAssumption
  <1>1. CASE UNCHANGED <<request, idFlight, ovFlight>>
    BY <1>1 DEF IdentityFlight, OverlayFlight
  <1>2. ASSUME NEW t \in Threads, NEW r, Moves(t, r), request[t].at \in Settled, r.at \in Settled,
               UNCHANGED <<idFlight, ovFlight>>
        PROVE  IdentityFlight' /\ OverlayFlight'
    <2>1. request'[t] = r /\ \A u \in Threads : u # t => request'[u] = request[u]
      BY <1>2 DEF Moves
    <2>2. r.at \notin {"waitIdentity", "waitOverlay"} /\ request[t].at \notin {"load", "read"}
      BY <1>2 DEF Settled
    <2> QED
      BY <1>2, <2>1, <2>2, IdentityKept, OverlayKept
  <1>3. ASSUME NEW t \in Threads, ClaimIdentity(t)
        PROVE  IdentityFlight' /\ OverlayFlight'
    <2>1. PICK place \in {"load", "waitIdentity"} :
             /\ Goes(t, place) /\ (place = "load" => idFlight = None /\ idFlight' = t)
             /\ (place = "waitIdentity" => idFlight # None /\ idFlight' = idFlight)
      BY <1>3 DEF ClaimIdentity
    <2>2. request[t].at = "claim" /\ UNCHANGED ovFlight
      BY <1>3 DEF ClaimIdentity, At
    <2>3. request'[t].at = place /\ \A u \in Threads : u # t => request'[u] = request[u]
      BY <2>1 DEF Goes, Request
    <2>4. OverlayFlight'
      BY <2>1, <2>2, <2>3, OverlayKept
    <2>5. IdentityFlight'
      BY <1>n, <2>1, <2>2, <2>3 DEF IdentityFlight
    <2> QED
      BY <2>4, <2>5
  <1>4. ASSUME NEW t \in Threads, NEW mine, WakeIdentity(t, mine), request[t].at = "load",
               mine.at \in Settled, idFlight' = None, UNCHANGED ovFlight
        PROVE  IdentityFlight' /\ OverlayFlight'
    <2>1. /\ request'[t] = mine
          /\ \A u \in Threads : u # t =>
                \/ request'[u] = request[u] /\ request[u].at # "waitIdentity"
                \/ request[u].at = "waitIdentity" /\ request'[u].at = "lookup"
      BY <1>4 DEF WakeIdentity, At, Request
    <2>2. mine.at \notin {"waitIdentity", "waitOverlay"}
      BY <1>4 DEF Settled
    <2>3. IdentityFlight'
      BY <1>4, <2>1, <2>2 DEF IdentityFlight
    <2>4. OverlayFlight'
      BY <1>4, <2>1, <2>2, OverlayKept
    <2> QED
      BY <2>3, <2>4
  <1>5. ASSUME NEW t \in Threads, LookupOverlay(t)
        PROVE  IdentityFlight' /\ OverlayFlight'
    <2>1. request[t].at = "overlay" /\ UNCHANGED idFlight
      BY <1>5 DEF LookupOverlay, At
    <2>2. PICK r : r = request'[t]
      OBVIOUS
    <2>3. /\ r.at \in {"composed", "read", "waitOverlay"} /\ r.id = request[t].id /\ r.kind = request[t].kind
          /\ \A u \in Threads : u # t => request'[u] = request[u]
      BY <1>5, <2>2 DEF LookupOverlay, Goes, Request
    <2>4. IdentityFlight'
      BY <2>1, <2>2, <2>3, IdentityKept
    <2>5. PICK key : key = <<request[t].id, request[t].kind>>
      OBVIOUS
    <2>6. \/ r.at = "composed" /\ UNCHANGED ovFlight
          \/ r.at = "read" /\ ovFlight' = ovFlight \cup {[key |-> key, owner |-> t]}
          \/ r.at = "waitOverlay" /\ UNCHANGED ovFlight /\ \E o \in ovFlight : o.key = key
      BY <1>5, <2>2, <2>5 DEF LookupOverlay, Goes, Request, OverlayKey, OverlayOwner
    <2>7. \A o \in ovFlight : o.owner \in Threads /\ o.owner # t
      BY <2>1 DEF OverlayFlight
    <2>8. \A o \in ovFlight' : /\ o.owner \in Threads /\ request'[o.owner].at = "read"
                               /\ o.key = <<request'[o.owner].id, request'[o.owner].kind>>
      <3>1. TAKE o \in ovFlight'
      <3>2. CASE o \in ovFlight
        BY <2>3, <2>7, <3>2 DEF OverlayFlight
      <3>3. CASE o \notin ovFlight
        <4>1. o = [key |-> key, owner |-> t] /\ r.at = "read"
          BY <2>6, <3>1, <3>3
        <4> QED
          BY <2>2, <2>3, <2>5, <4>1
      <3> QED
        BY <3>2, <3>3
    <2>9. \A u \in Threads : request'[u].at = "waitOverlay" =>
             \E o \in ovFlight' : o.key = <<request'[u].id, request'[u].kind>>
      <3>1. SUFFICES ASSUME NEW u \in Threads, request'[u].at = "waitOverlay"
                     PROVE  \E o \in ovFlight : o.key = <<request'[u].id, request'[u].kind>>
        BY <2>6
      <3>2. CASE u = t
        BY <2>2, <2>3, <2>5, <2>6, <3>1, <3>2
      <3>3. CASE u # t
        BY <2>3, <3>1, <3>3 DEF OverlayFlight
      <3> QED
        BY <3>2, <3>3
    <2> QED
      BY <2>4, <2>8, <2>9 DEF OverlayFlight
  <1>6. ASSUME NEW t \in Threads, NEW mine, WakeOverlay(t, mine), request[t].at = "read",
               mine.at \in Settled, ovFlight' = ovFlight \ OverlayOwner(OverlayKey(t)), UNCHANGED idFlight
        PROVE  IdentityFlight' /\ OverlayFlight'
    <2>1. PICK key : key = <<request[t].id, request[t].kind>>
      OBVIOUS
    <2>2. \A u \in Threads : u # t =>
             \/ request'[u] = request[u] /\ ~(request[u].at = "waitOverlay" /\ <<request[u].id, request[u].kind>> = key)
             \/ request[u].at = "waitOverlay" /\ request'[u].at = "overlay"
      BY <1>6, <2>1 DEF WakeOverlay, At, Request, OverlayKey
    <2>3. request'[t] = mine /\ mine.at \notin {"waitIdentity", "waitOverlay"}
      BY <1>6 DEF Settled, WakeOverlay
    <2>4. IdentityFlight'
      BY <1>6, <2>2, <2>3, IdentityKept
    <2>5. \A o : o \in ovFlight' <=> o \in ovFlight /\ o.key # key
      BY <1>6, <2>1 DEF OverlayOwner, OverlayKey
    <2>6. \A o \in ovFlight' : /\ o.owner \in Threads /\ request'[o.owner].at = "read"
                               /\ o.key = <<request'[o.owner].id, request'[o.owner].kind>>
      <3>1. TAKE o \in ovFlight'
      <3>2. /\ o.owner \in Threads /\ request[o.owner].at = "read"
            /\ o.key = <<request[o.owner].id, request[o.owner].kind>> /\ o.owner # t
        BY <2>1, <2>5 DEF OverlayFlight
      <3> QED
        BY <2>2, <3>2
    <2>7. \A u \in Threads : request'[u].at = "waitOverlay" =>
             \E o \in ovFlight' : o.key = <<request'[u].id, request'[u].kind>>
      <3>1. SUFFICES ASSUME NEW u \in Threads, request'[u].at = "waitOverlay"
                     PROVE  \E o \in ovFlight' : o.key = <<request'[u].id, request'[u].kind>>
        OBVIOUS
      <3>2. request'[u] = request[u] /\ <<request[u].id, request[u].kind>> # key
        BY <2>2, <2>3, <3>1
      <3>3. \E o \in ovFlight : o.key = <<request[u].id, request[u].kind>>
        BY <3>1, <3>2 DEF OverlayFlight
      <3> QED
        BY <2>5, <3>2, <3>3
    <2> QED
      BY <2>4, <2>6, <2>7 DEF OverlayFlight
  <1> QED
    BY <1>1, <1>2, <1>3, <1>4, <1>5, <1>6 DEF RequestMove

(* The key of a read of the store. *)
KeyIn(d) == <<d.meta, d.msig, d.sig>>

LEMMA LoadFlights ==
    ASSUME ChunkFlight, load \in [Threads -> Load], CachesOK, LoadMove
    PROVE  ChunkFlight'
  <1>1. CASE UNCHANGED <<load, inflight>>
    BY <1>1 DEF ChunkFlight
  <1>2. ASSUME NEW t \in Threads, NEW d, Reading(t, d), load[t].at # "decode",
               d.at \notin {"decode", "wait"}, UNCHANGED inflight
        PROVE  ChunkFlight'
    <2>1. load'[t] = d /\ \A u \in Threads : u # t => load'[u] = load[u]
      BY <1>2 DEF Reading
    <2>2. \A o \in inflight : /\ o.owner \in Threads /\ load'[o.owner].at = "decode"
                              /\ o.key = <<load'[o.owner].meta, load'[o.owner].msig, load'[o.owner].sig>>
      BY <1>2, <2>1 DEF ChunkFlight
    <2>3. \A u \in Threads : load'[u].at = "wait" =>
             \E o \in inflight : o.key = <<load'[u].meta, load'[u].msig, load'[u].sig>>
      BY <1>2, <2>1 DEF ChunkFlight
    <2> QED
      BY <1>2, <2>2, <2>3 DEF ChunkFlight
  <1>3. ASSUME NEW t \in Threads, NEW sig \in Generations, LooksFor(t, sig), load[t].at # "decode"
        PROVE  ChunkFlight'
    <2>1. PICK key : key = <<load[t].meta, load[t].msig, sig>>
      OBVIOUS
    <2>2. PICK d : /\ Reading(t, d)
                   /\ \/ d.at = "done" /\ UNCHANGED inflight
                      \/ /\ d.at = "decode" /\ inflight' = inflight \cup {[key |-> key, owner |-> t]}
                         /\ KeyIn(d) = key
                      \/ /\ d.at = "wait" /\ UNCHANGED inflight /\ KeyIn(d) = key
                         /\ \E o \in inflight : o.key = key
      <3>1. ASSUME NEW c \in chunkCache, Loads(t, [at |-> "done", sig |-> sig, lines |-> c.lines])
            PROVE  \E d : Reading(t, d) /\ d.at = "done"
        <4>1. c.lines \in Generations /\ "done" \in LoadPlaces
          BY DEF CachesOK, LoadPlaces
        <4>2. \E d \in Load : Reading(t, d) /\ d.at = "done"
          BY <3>1, <4>1, LoadsLines
        <4> QED
          BY <4>2
      <3>2. ASSUME NEW a \in {"decode", "wait"}, Loads(t, [at |-> a, sig |-> sig])
            PROVE  \E d : Reading(t, d) /\ d.at = a /\ KeyIn(d) = key
        <4>1. a \in LoadPlaces
          BY DEF LoadPlaces
        <4>2. \E d \in Load : /\ Reading(t, d) /\ d.at = a /\ d.sig = sig
                              /\ d.meta = load[t].meta /\ d.msig = load[t].msig
          BY <3>2, <4>1, LoadsOpen
        <4> QED
          BY <2>1, <4>2 DEF KeyIn
      <3>3. CASE \E c \in chunkCache : /\ Loads(t, [at |-> "done", sig |-> sig, lines |-> c.lines])
                                       /\ UNCHANGED inflight
        BY <3>1, <3>3
      <3>4. CASE Loads(t, [at |-> "decode", sig |-> sig]) /\ inflight' = inflight \cup {[key |-> key, owner |-> t]}
        BY <3>2, <3>4
      <3>5. CASE Loads(t, [at |-> "wait", sig |-> sig]) /\ UNCHANGED inflight /\ Owner(key) # {}
        BY <3>2, <3>5 DEF Owner
      <3> QED
        BY <1>3, <2>1, <3>3, <3>4, <3>5 DEF LooksFor
    <2>3. load'[t] = d /\ \A u \in Threads : u # t => load'[u] = load[u]
      BY <2>2 DEF Reading
    <2>4. \A o \in inflight : o.owner \in Threads /\ o.owner # t
      BY <1>3 DEF ChunkFlight
    <2>5. \A o \in inflight' : /\ o.owner \in Threads /\ load'[o.owner].at = "decode"
                               /\ o.key = <<load'[o.owner].meta, load'[o.owner].msig, load'[o.owner].sig>>
      <3>1. TAKE o \in inflight'
      <3>2. CASE o \in inflight
        BY <2>3, <2>4, <3>2 DEF ChunkFlight
      <3>3. CASE o \notin inflight
        <4>1. o = [key |-> key, owner |-> t] /\ d.at = "decode" /\ KeyIn(d) = key
          BY <2>2, <3>1, <3>3
        <4> QED
          BY <2>3, <4>1 DEF KeyIn
      <3> QED
        BY <3>2, <3>3
    <2>6. \A u \in Threads : load'[u].at = "wait" =>
             \E o \in inflight' : o.key = <<load'[u].meta, load'[u].msig, load'[u].sig>>
      <3>1. SUFFICES ASSUME NEW u \in Threads, load'[u].at = "wait"
                     PROVE  \E o \in inflight : o.key = <<load'[u].meta, load'[u].msig, load'[u].sig>>
        BY <2>2
      <3>2. CASE u = t
        BY <2>2, <2>3, <3>1, <3>2 DEF KeyIn
      <3>3. CASE u # t
        BY <2>3, <3>1, <3>3 DEF ChunkFlight
      <3> QED
        BY <3>2, <3>3
    <2> QED
      BY <2>5, <2>6 DEF ChunkFlight
  <1>4. ASSUME NEW t \in Threads, NEW d, load' = Woken(t, d), load[t].at = "decode",
               d.at \notin {"decode", "wait"}, inflight' = inflight \ Owner(KeyOf(t))
        PROVE  ChunkFlight'
    <2>1. PICK key : key = KeyOf(t)
      OBVIOUS
    <2>2. /\ load'[t] = d
          /\ \A u \in Threads : u # t =>
             \/ load'[u] = load[u] /\ ~(load[u].at = "wait" /\ KeyOf(u) = key)
             \/ load[u].at = "wait" /\ load'[u].at = "again"
      BY <1>4, <2>1, ServiceAssumption DEF Woken, Load
    <2>3. \A o : o \in inflight' <=> o \in inflight /\ o.key # key
      BY <1>4, <2>1 DEF Owner
    <2>4. \A o \in inflight' : /\ o.owner \in Threads /\ load'[o.owner].at = "decode"
                               /\ o.key = <<load'[o.owner].meta, load'[o.owner].msig, load'[o.owner].sig>>
      <3>1. TAKE o \in inflight'
      <3>2. /\ o.owner \in Threads /\ load[o.owner].at = "decode"
            /\ o.key = <<load[o.owner].meta, load[o.owner].msig, load[o.owner].sig>> /\ o.owner # t
        BY <2>1, <2>3 DEF ChunkFlight, KeyOf
      <3> QED
        BY <2>2, <3>2
    <2>5. \A u \in Threads : load'[u].at = "wait" =>
             \E o \in inflight' : o.key = <<load'[u].meta, load'[u].msig, load'[u].sig>>
      <3>1. SUFFICES ASSUME NEW u \in Threads, load'[u].at = "wait"
                     PROVE  \E o \in inflight' : o.key = <<load'[u].meta, load'[u].msig, load'[u].sig>>
        OBVIOUS
      <3>2. load'[u] = load[u] /\ KeyOf(u) # key
        BY <1>4, <2>2, <3>1
      <3>3. \E o \in inflight : o.key = KeyOf(u)
        BY <3>1, <3>2 DEF ChunkFlight, KeyOf
      <3> QED
        BY <2>3, <3>2, <3>3 DEF KeyOf
    <2> QED
      BY <2>4, <2>5 DEF ChunkFlight
  <1> QED
    BY <1>1, <1>2, <1>3, <1>4 DEF LoadMove

(* Whoever waits for another request's identity, overlay or chunk waits for *)
(* one that is still loading it, whatever fails, is evicted or given up.    *)
THEOREM WaitersCorrect == Spec => []WaitersAreServed
  <1>1. Init => FlightInv
    BY ServiceAssumption DEF Init, SidecarInit, NoRequest, NoLoad, FlightInv,
                             IdentityFlight, OverlayFlight, ChunkFlight
  <1>2. DetailInv /\ FlightInv /\ [Next]_vars => FlightInv'
    <2>1. SUFFICES ASSUME DetailInv, FlightInv, [Next]_vars
                   PROVE  FlightInv'
      OBVIOUS
    <2>2. request \in [Threads -> Request] /\ load \in [Threads -> Load] /\ CachesOK
      BY <2>1 DEF DetailInv
    <2> QED
      BY <2>1, <2>2, RequestMoves, LoadMoves, RequestFlights, LoadFlights DEF FlightInv
  <1>3. FlightInv => WaitersAreServed
    BY ServiceAssumption DEF FlightInv, IdentityFlight, OverlayFlight, ChunkFlight, WaitersAreServed,
       ChunkWaitersServed, OverlayOwner, OverlayKey, Owner, KeyOf, At
  <1> QED
    BY <1>1, <1>2, <1>3, DetailCorrect, PTL DEF Spec

==============================================================================
