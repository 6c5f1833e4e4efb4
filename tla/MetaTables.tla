----------------------------- MODULE MetaTables -----------------------------
(* internal/storage: the tables of the metadata database and what the SQL   *)
(* of store.go does to them under the keys, indexes and foreign keys of the *)
(* migrations.  The pool holds one connection and every method runs one     *)
(* statement, so a call is one step from a database to a database; a        *)
(* statement that breaks a constraint is refused and changes nothing.       *)
(*                                                                          *)
(* A table maps the primary key of a row to its other columns.  Columns     *)
(* that neither a constraint nor a property looks at are left out.          *)
EXTENDS Functions

CONSTANTS
    DefaultAccount, DefaultEmail,   \* the row seeded by migration 2
    None                            \* an empty string

Tables == {"accounts", "token_refs", "sync_state", "pending_ops", "folders", "shared_drives", "files"}

\* Tables whose rows refer to an account ON DELETE CASCADE.
Dependent == {"token_refs", "sync_state", "pending_ops", "folders"}

\* Tables whose upsert leaves created_at alone.
Dated == {"accounts", "files", "folders", "shared_drives"}

\* What NewStorage leaves behind: every table, the default account, and the
\* files a database of schema 1 already held, now owned by that account.
Migrated(files) ==
    [accounts |-> [id \in {DefaultAccount} |->
                      [email |-> DefaultEmail, primary |-> TRUE, created |-> 0]],
     token_refs |-> <<>>, sync_state |-> <<>>, pending_ops |-> <<>>, folders |-> <<>>,
     shared_drives |-> <<>>, files |-> files]

\* The columns of a unique index, for the tables that have one.
UniqueKey(t, row) ==
    IF t = "accounts" THEN row.email ELSE <<row.account, row.path>>

\* Mutant: the tables have no unique index.
ClashesNever(db, t, id, row) == FALSE

Clashes(db, t, id, row) ==
    /\ t \in {"accounts", "files", "folders"}
    /\ \E other \in DOMAIN db[t] \ {id} : UniqueKey(t, db[t][other]) = UniqueKey(t, row)

\* Mutant: foreign keys are not enforced.
DanglesNever(db, t, row) == FALSE

Dangles(db, t, row) == t \in Dependent /\ row.account \notin DOMAIN db.accounts

Refused(db, t, id, row) == Clashes(db, t, id, row) \/ Dangles(db, t, row)

\* Mutant: the upsert overwrites created_at.
StoredRestamped(db, t, id, row) == row

\* The row an upsert leaves: created_at stays.
Stored(db, t, id, row) ==
    IF t \in Dated /\ id \in DOMAIN db[t] THEN [row EXCEPT !.created = db[t][id].created] ELSE row

\* INSERT ... ON CONFLICT(primary key) DO UPDATE.
Put(db, t, id, row) ==
    IF Refused(db, t, id, row) THEN db
    ELSE [db EXCEPT ![t] = [k \in DOMAIN db[t] \cup {id} |->
                               IF k = id THEN Stored(db, t, id, row) ELSE db[t][k]]]

\* INSERT: a primary key that is taken is refused too.
Insert(db, t, id, row) == IF id \in DOMAIN db[t] THEN db ELSE Put(db, t, id, row)

\* DELETE ... WHERE id = ?
Drop(db, t, id) == [db EXCEPT ![t] = Restrict(@, DOMAIN @ \ {id})]

\* Mutant: nothing cascades.
DropAccountAlone(db, id) == Drop(db, "accounts", id)

\* DELETE FROM accounts: the rows that refer to the account go with it.
DropAccount(db, id) ==
    [t \in DOMAIN db |->
        IF t = "accounts" THEN Restrict(db[t], DOMAIN db[t] \ {id})
        ELSE IF t \in Dependent THEN Restrict(db[t], {k \in DOMAIN db[t] : db[t][k].account # id})
        ELSE db[t]]

\* SELECT ... WHERE account_id = ? AND path = ?, None without a row.
AtPath(db, t, account, path) ==
    LET ids == {id \in DOMAIN db[t] : db[t][id].account = account /\ db[t][id].path = path}
    IN  IF ids = {} THEN None ELSE CHOOSE id \in ids : TRUE
=============================================================================
