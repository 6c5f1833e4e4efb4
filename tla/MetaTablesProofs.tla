-------------------------- MODULE MetaTablesProofs --------------------------
(* What the statements of MetaTables do to a table and to the other ones.    *)
EXTENDS MetaTables, TLAPS

\* A statement leaves the other tables alone.
LEMMA PutFrame ==
    ASSUME NEW db, DOMAIN db = Tables, NEW t \in Tables, NEW id, NEW row
    PROVE  /\ DOMAIN Put(db, t, id, row) = Tables
           /\ \A u \in Tables \ {t} : Put(db, t, id, row)[u] = db[u]
BY DEF Put

\* The rows after an upsert, and after one that is refused.
LEMMA PutRows ==
    ASSUME NEW db, DOMAIN db = Tables, NEW t \in Tables, NEW id, NEW row, ~Refused(db, t, id, row)
    PROVE  LET after == Put(db, t, id, row)[t]
           IN  /\ DOMAIN after = DOMAIN db[t] \cup {id}
               /\ \A k \in DOMAIN db[t] \ {id} : after[k] = db[t][k]
               /\ after[id] = Stored(db, t, id, row)
BY DEF Put

LEMMA PutRefused ==
    ASSUME NEW db, NEW t, NEW id, NEW row, Refused(db, t, id, row)
    PROVE  Put(db, t, id, row) = db
BY DEF Put

LEMMA DropRows ==
    ASSUME NEW db, DOMAIN db = Tables, NEW t \in Tables, NEW id
    PROVE  LET after == Drop(db, t, id)
           IN  /\ DOMAIN after = Tables
               /\ \A u \in Tables \ {t} : after[u] = db[u]
               /\ DOMAIN after[t] = DOMAIN db[t] \ {id}
               /\ \A k \in DOMAIN after[t] : after[t][k] = db[t][k]
BY DEF Drop, Restrict

\* Deleting an account deletes the rows that refer to it.
LEMMA DropAccountRows ==
    ASSUME NEW db, DOMAIN db = Tables, NEW id
    PROVE  LET after == DropAccount(db, id)
           IN  /\ DOMAIN after = Tables
               /\ DOMAIN after["accounts"] = DOMAIN db["accounts"] \ {id}
               /\ \A t \in Dependent :
                    DOMAIN after[t] = {k \in DOMAIN db[t] : db[t][k].account # id}
               /\ \A t \in {"files", "shared_drives"} : after[t] = db[t]
               /\ \A t \in Tables : \A k \in DOMAIN after[t] :
                    k \in DOMAIN db[t] /\ after[t][k] = db[t][k]
BY DEF DropAccount, Restrict, Dependent, Tables
=============================================================================
