---------------------------- MODULE ConnectionPool ----------------------------
(***************************************************************************)
(* MySQLConnectionPool of app/db/connection_pool.py, and the connections   *)
(* it hands out: REPEATABLE READ with autocommit off, so a connection goes *)
(* on reading the snapshot of its first read until it is rolled back.      *)
(*                                                                         *)
(* A thread looks for a connection ("want"), makes one outside the lock    *)
(* ("connect") and works with it ("held"); "refused" is the exception.     *)
(* What other requests and job callbacks hold is "others".                 *)
(***************************************************************************)
EXTENDS Naturals, FiniteSets

CONSTANTS
    Threads,         \* the request threads
    Conns,           \* names for raw connections
    MaxConnections,
    MaxVersion,      \* bound on the reviews that are committed
    MaxOthers,       \* bound on the leases of other work
    None

ASSUME PoolAssumption == MaxConnections \in Nat \ {0} /\ MaxVersion \in Nat /\ MaxOthers \in Nat
ASSUME NoneAssumption == None \notin Conns \cup Threads \cup Nat

VARIABLES
    version,     \* what is committed: the data version, and the facts with it
    snapshot,    \* the version a connection reads, None before its first read
    idle,        \* connections in the queue
    active,      \* _active_count
    connecting,  \* _connecting_count
    shut,        \* _is_shutdown
    lease,       \* where a thread is with its connection
    others       \* connections lent to other work

poolVars == <<version, snapshot, idle, active, connecting, shut, lease, others>>

Places == {"off", "want", "connect", "held", "refused"}
Versions == 0 .. MaxVersion
NoLease == [at |-> "off", conn |-> None]

PoolTypeOK ==
    /\ version \in Versions
    /\ snapshot \in [Conns -> Versions \cup {None}]
    /\ idle \subseteq Conns
    /\ active \in Nat /\ connecting \in Nat
    /\ shut \in BOOLEAN
    /\ lease \in [Threads -> [at : Places, conn : Conns \cup {None}]]
    /\ others \subseteq Conns

PoolInit ==
    /\ version = 0
    /\ snapshot = [c \in Conns |-> None]
    /\ idle = {}
    /\ active = 0 /\ connecting = 0
    /\ shut = FALSE
    /\ lease = [t \in Threads |-> NoLease]
    /\ others = {}

Leased == {lease[t].conn : t \in Threads} \ {None}
Open == idle \cup Leased \cup others

Lease(t, place, c) == lease' = [lease EXCEPT ![t] = [at |-> place, conn |-> c]]

(* max(0, count - 1) *)
Less(count) == IF count = 0 THEN 0 ELSE count - 1

-----------------------------------------------------------------------------
(* borrow_connection *)

(* The pool is asked once, before the loop, whether it is closed. *)
Asks(t) == Lease(t, IF shut THEN "refused" ELSE "want", None)

(* A connection of the queue that is young and answers the ping, which      *)
(* starts no transaction *)
Borrow(t) ==
    /\ lease[t].at = "want"
    /\ \E c \in idle : Lease(t, "held", c) /\ idle' = idle \ {c}
    /\ UNCHANGED <<version, snapshot, active, connecting, shut, others>>

(* One that is too old, or dead: it is closed, and the loop goes on. *)
BorrowDiscards(t) ==
    /\ lease[t].at = "want"
    /\ \E c \in idle : idle' = idle \ {c} /\ snapshot' = [snapshot EXCEPT ![c] = None]
    /\ active' = Less(active)
    /\ UNCHANGED <<version, connecting, shut, lease, others>>

(* Mutant: only the connections that exist are counted. *)
HasCapacityNow == active < MaxConnections

(* A slot is free, counting the connections that are being made. *)
HasCapacity == active + connecting < MaxConnections

(* The slot is reserved, and the connection made without the lock. *)
Reserve(t) ==
    /\ lease[t].at = "want"
    /\ idle = {}
    /\ HasCapacity
    /\ connecting' = connecting + 1
    /\ Lease(t, "connect", None)
    /\ UNCHANGED <<version, snapshot, idle, active, shut, others>>

(* It succeeds, or raises. *)
Connect(t) ==
    /\ lease[t].at = "connect"
    /\ connecting' = Less(connecting)
    /\ \/ \E c \in Conns \ Open : Lease(t, "held", c) /\ active' = active + 1
       \/ Lease(t, "refused", None) /\ UNCHANGED active
    /\ UNCHANGED <<version, snapshot, idle, shut, others>>

(* Nothing came back before the deadline. *)
BorrowTimeout(t) ==
    /\ lease[t].at = "want"
    /\ idle = {} /\ ~HasCapacity
    /\ Lease(t, "refused", None)
    /\ UNCHANGED <<version, snapshot, idle, active, connecting, shut, others>>

(* Other work borrows in the same way; it reads what is committed. *)
OthersBorrow ==
    /\ ~shut
    /\ Cardinality(others) < MaxOthers
    /\ \/ \E c \in idle :
             /\ idle' = idle \ {c} /\ others' = others \cup {c}
             /\ snapshot' = [snapshot EXCEPT ![c] = IF @ = None THEN version ELSE @]
             /\ UNCHANGED active
       \/ /\ idle = {} /\ HasCapacity
          /\ \E c \in Conns \ Open :
                /\ others' = others \cup {c}
                /\ snapshot' = [snapshot EXCEPT ![c] = version]
          /\ active' = active + 1
          /\ UNCHANGED idle
    /\ UNCHANGED <<version, connecting, shut, lease>>

-----------------------------------------------------------------------------
(* What a statement reads.  The proxy of a read-only scope makes one        *)
(* statement again on a new connection when the old one was lost: it then   *)
(* reads what is committed now.                                             *)
ReadsAt(t, v) ==
    LET c == lease[t].conn IN
    /\ lease[t].at = "held"
    /\ v \in {IF snapshot[c] = None THEN version ELSE snapshot[c], version}
    /\ snapshot' = [snapshot EXCEPT ![c] = v]

-----------------------------------------------------------------------------
(* return_connection *)

(* Mutant: a scope that only read is not rolled back. *)
KeepSnapshot(c) == snapshot' = snapshot

(* rollback_if_dirty: autocommit is off, so every scope is rolled back. *)
RollbackIfDirty(c) == snapshot' = [snapshot EXCEPT ![c] = None]

(* A scope ends: the connection is rolled back and put into the queue, or   *)
(* closed, since the rollback failed or the pool is shut.                   *)
GivesBack(c) ==
    \/ /\ ~shut
       /\ RollbackIfDirty(c)
       /\ idle' = idle \cup {c}
       /\ UNCHANGED active
    \/ /\ snapshot' = [snapshot EXCEPT ![c] = None]
       /\ active' = Less(active)
       /\ UNCHANGED idle

Returns(t) ==
    /\ GivesBack(lease[t].conn)
    /\ Lease(t, "off", None)
    /\ UNCHANGED <<version, connecting, shut, others>>

OthersReturn ==
    /\ \E c \in others : GivesBack(c) /\ others' = others \ {c}
    /\ UNCHANGED <<version, connecting, shut, lease>>

(* close_all: the queue is emptied; what is lent out is closed on return. *)
CloseAll ==
    /\ ~shut
    /\ shut' = TRUE
    /\ idle' = {}
    /\ snapshot' = [c \in Conns |-> IF c \in idle THEN None ELSE snapshot[c]]
    /\ active' = active - Cardinality(idle)
    /\ UNCHANGED <<version, connecting, lease, others>>

-----------------------------------------------------------------------------
(* A review commits new facts together with the next data version. *)
Review ==
    /\ version < MaxVersion
    /\ version' = version + 1
    /\ UNCHANGED <<snapshot, idle, active, connecting, shut, lease, others>>

PoolStep(t) ==
    Borrow(t) \/ BorrowDiscards(t) \/ Reserve(t) \/ Connect(t) \/ BorrowTimeout(t)

(* The server never sees more connections than the pool may have, however   *)
(* borrowers, discards, failed connects and close_all interleave.           *)
PoolBounded ==
    Cardinality(Open) + Cardinality({t \in Threads : lease[t].at = "connect"})
        <= MaxConnections
=============================================================================
