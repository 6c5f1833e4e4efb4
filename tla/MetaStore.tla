------------------------------ MODULE MetaStore ------------------------------
(* internal/storage/store.go: one action per method that writes, called in   *)
(* any order by the parts of the daemon that will use the database.          *)
EXTENDS MetaTables, Naturals

CONSTANTS
    AccountIds, Emails, FileIds, FolderIds, OpIds, DriveIds, Paths,
    Times,      \* created_at of a record, in the seconds unixTime keeps
    MaxCalls    \* bound: calls in a behaviour

ASSUME MetaStoreAssumption ==
    /\ DefaultAccount \in AccountIds /\ DefaultEmail \in Emails
    /\ None \notin AccountIds \cup Emails \cup FileIds \cup FolderIds \cup OpIds
                   \cup DriveIds \cup Paths
    /\ Times \subseteq Nat /\ MaxCalls \in Nat

VARIABLES
    db,         \* the database file
    calls

vars == <<db, calls>>

OrEmpty(set) == set \cup {None}

\* Schema 1 knew no accounts and had a unique index on the path.
LegacyFiles ==
    UNION {[ids -> [account : {DefaultAccount}, path : Paths, created : Times]] :
             ids \in SUBSET FileIds}

Init ==
    /\ \E files \in LegacyFiles :
         /\ \A i, j \in DOMAIN files : files[i].path = files[j].path => i = j
         /\ db = Migrated(files)
    /\ calls = 0

\* Mutant: the arguments are not validated.
CallUnvalidated(required, result) ==
    /\ calls < MaxCalls /\ calls' = calls + 1
    /\ db' = result

\* A call validates its arguments before it runs its statement.
Call(required, result) ==
    /\ calls < MaxCalls /\ calls' = calls + 1
    /\ db' = IF None \in required THEN db ELSE result

UpsertAccount ==
    \E id \in OrEmpty(AccountIds), email \in OrEmpty(Emails), primary \in BOOLEAN, at \in Times :
        Call({id, email}, Put(db, "accounts", id,
                              [email |-> email, primary |-> primary, created |-> at]))

DeleteAccount == \E id \in OrEmpty(AccountIds) : Call({}, DropAccount(db, id))

\* A token reference always names a key: the empty one is refused like an
\* empty account.
UpsertTokenRef ==
    \E account \in OrEmpty(AccountIds) :
        Call({account}, Put(db, "token_refs", account, [account |-> account]))

DeleteTokenRef ==
    \E account \in OrEmpty(AccountIds) : Call({account}, Drop(db, "token_refs", account))

UpsertSyncState ==
    \E account \in OrEmpty(AccountIds) :
        Call({account}, Put(db, "sync_state", account, [account |-> account]))

UpsertFile ==
    \E id \in OrEmpty(FileIds), account \in OrEmpty(AccountIds), path \in OrEmpty(Paths),
       at \in Times :
        Call({id, account, path},
             Put(db, "files", id, [account |-> account, path |-> path, created |-> at]))

DeleteFile ==
    \E account \in AccountIds, path \in Paths :
        Call({}, Drop(db, "files", AtPath(db, "files", account, path)))

UpsertFolder ==
    \E id \in OrEmpty(FolderIds), account \in OrEmpty(AccountIds), path \in OrEmpty(Paths),
       at \in Times :
        Call({id, account, path},
             Put(db, "folders", id, [account |-> account, path |-> path, created |-> at]))

UpsertSharedDrive ==
    \E id \in OrEmpty(DriveIds), at \in Times :
        Call({id}, Put(db, "shared_drives", id, [created |-> at]))

\* A state that the caller leaves empty is "queued".
AddPendingOp ==
    \E id \in OrEmpty(OpIds), account \in OrEmpty(AccountIds),
       state \in OrEmpty({"queued", "done"}) :
        Call({id, account},
             Insert(db, "pending_ops", id,
                    [account |-> account, state |-> IF state = None THEN "queued" ELSE state]))

UpdatePendingOp ==
    \E id \in OpIds, state \in {"queued", "done"} :
        Call({}, IF id \in DOMAIN db.pending_ops
                 THEN [db EXCEPT !.pending_ops[id].state = state] ELSE db)

DeletePendingOp == \E id \in OpIds : Call({}, Drop(db, "pending_ops", id))

Next ==
    \/ UpsertAccount \/ DeleteAccount \/ UpsertTokenRef \/ DeleteTokenRef
    \/ UpsertSyncState \/ UpsertFile \/ DeleteFile \/ UpsertFolder
    \/ UpsertSharedDrive \/ AddPendingOp \/ UpdatePendingOp \/ DeletePendingOp

Spec == Init /\ [][Next]_vars

-----------------------------------------------------------------------------
Table(ids, rows) == UNION {[keys -> rows] : keys \in SUBSET ids}
Located == [account : AccountIds, path : Paths, created : Times]

TypeOK ==
    /\ db.accounts \in Table(AccountIds, [email : Emails, primary : BOOLEAN,
                                          created : Times \cup {0}])
    /\ \A t \in {"token_refs", "sync_state"} :
         db[t] \in Table(AccountIds, [account : AccountIds])
    /\ db.files \in Table(FileIds, Located) /\ db.folders \in Table(FolderIds, Located)
    /\ db.shared_drives \in Table(DriveIds, [created : Times])
    /\ db.pending_ops \in Table(OpIds, [account : AccountIds, state : {"queued", "done"}])
    /\ calls \in 0..MaxCalls

\* No order of sign-ins, sign-outs and sync calls leaves a token reference, a
\* sync state, a pending operation or a folder of an account that is gone
\* (DeleteAccount and the foreign keys of migration 2).
NoDanglingRows ==
    \A t \in Dependent : \A id \in DOMAIN db[t] : db[t][id].account \in DOMAIN db.accounts

\* "DeleteAccount removes an account (and cascades dependent rows)": a file
\* record is a dependent row like a folder record.
NoOrphanFiles ==
    \A id \in DOMAIN db.files : db.files[id].account \in DOMAIN db.accounts

\* A record keeps the creation time it was first stored with, whatever a later
\* upsert of the same id says.
CreationTimeKept ==
    [][\A t \in Dated : \A id \in DOMAIN db[t] \cap DOMAIN db'[t] :
          db'[t][id].created = db[t][id].created]_vars

\* UpsertFile, DeleteFile and GetFileByPath together are an index by place,
\* although the rows are keyed by file id: an upsert that moves a file clears
\* its old place, and one that would take another file's place fails.
Index == INSTANCE PathIndex WITH
            Ids <- FileIds, Places <- AccountIds \X Paths,
            at <- [p \in AccountIds \X Paths |-> AtPath(db, "files", p[1], p[2])]
FilesAreIndexed == Index!Spec
=============================================================================
