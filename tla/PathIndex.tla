----------------------------- MODULE PathIndex -----------------------------
(* What the file records promise to someone who looks files up by account   *)
(* and path: a place holds at most one file, a file is in at most one place *)
(* and moves when it is stored elsewhere, and nobody's file is overwritten. *)
CONSTANTS Ids, Places, None

VARIABLE at     \* the file at a place, or None

TypeOK == at \in [Places -> Ids \cup {None}]

\* No file is found at two places.
OnePlaceEach == \A p, q \in Places : at[p] = at[q] /\ at[p] # None => p = q

Init == TypeOK /\ OnePlaceEach

Place ==
    \E id \in Ids, p \in Places :
        /\ at[p] \in {id, None}
        /\ at' = [q \in Places |-> IF q = p THEN id
                                   ELSE IF at[q] = id THEN None ELSE at[q]]

Take == \E p \in Places : at' = [at EXCEPT ![p] = None]

Spec == Init /\ [][Place \/ Take]_at
=============================================================================
