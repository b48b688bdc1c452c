------------------------------- MODULE Cutover -------------------------------
(***************************************************************************)
(* What an upgrade promises its users: writes go to one release on its own *)
(* database.  They are closed while anything is exchanged, and opened for  *)
(* a release and a database that belong together.  Users of a candidate    *)
(* are not taken back to the previous release, unless an upgrade that was  *)
(* left to the operator came before.                                       *)
(***************************************************************************)
CONSTANT Ids    \* releases, and their databases; 0 is the previous one

VARIABLES
    open,       \* writes are accepted
    release,    \* by this release
    db,         \* on this database
    held        \* an upgrade has been left to the operator

Init == open = TRUE /\ release = 0 /\ db = 0 /\ held = FALSE

Close ==
    /\ open /\ (release = 0 \/ held)
    /\ open' = FALSE /\ UNCHANGED <<release, db>>

Exchange == ~open /\ release' \in Ids /\ db' \in Ids /\ UNCHANGED open

Open == ~open /\ release = db /\ open' = TRUE /\ UNCHANGED <<release, db>>

Next ==
    /\ Close \/ Exchange \/ Open \/ UNCHANGED <<open, release, db>>
    /\ held' \in {held, TRUE}

Spec == Init /\ [][Next]_<<open, release, db, held>>
=============================================================================
