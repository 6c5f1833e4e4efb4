--------------------------- MODULE MetaStoreProofs ---------------------------
(* MetaStore for any ids, paths and number of calls: its types, the foreign  *)
(* keys, created_at, and the file records as an index by place.              *)
EXTENDS MetaStore, MetaTablesProofs

IdsOf == [accounts |-> AccountIds, token_refs |-> AccountIds, sync_state |-> AccountIds,
          pending_ops |-> OpIds, folders |-> FolderIds, shared_drives |-> DriveIds,
          files |-> FileIds]

RowsOf == [accounts |-> [email : Emails, primary : BOOLEAN, created : Times \cup {0}],
           token_refs |-> [account : AccountIds], sync_state |-> [account : AccountIds],
           pending_ops |-> [account : AccountIds, state : {"queued", "done"}],
           folders |-> Located, shared_drives |-> [created : Times], files |-> Located]

TypesOf(t) == db[t] \in Table(IdsOf[t], RowsOf[t])

UniqueFiles ==
    \A i, j \in DOMAIN db.files :
        db.files[i].account = db.files[j].account /\ db.files[i].path = db.files[j].path => i = j

StoreInv ==
    /\ DOMAIN db = Tables /\ \A t \in Tables : TypesOf(t)
    /\ NoDanglingRows /\ UniqueFiles
    /\ calls \in 0..MaxCalls

\* Records that were there keep their time.
TimesKept ==
    \A t \in Dated : \A id \in DOMAIN db[t] \cap DOMAIN db'[t] :
        db'[t][id].created = db[t][id].created

\* What a statement does to the database, the calls aside.
Keeps ==
    /\ DOMAIN db' = Tables /\ \A t \in Tables : TypesOf(t)'
    /\ NoDanglingRows' /\ UniqueFiles' /\ TimesKept

-----------------------------------------------------------------------------
(* Tables as functions.                                                      *)

LEMMA TableRows ==
    ASSUME NEW ids, NEW rows, NEW f \in Table(ids, rows)
    PROVE  DOMAIN f \subseteq ids /\ \A k \in DOMAIN f : f[k] \in rows
BY DEF Table

LEMMA TableOf ==
    ASSUME NEW ids, NEW rows, NEW f,
           f = [k \in DOMAIN f |-> f[k]], DOMAIN f \subseteq ids, \A k \in DOMAIN f : f[k] \in rows
    PROVE  f \in Table(ids, rows)
<1>1. f \in [DOMAIN f -> rows]
  OBVIOUS
<1> QED
  BY <1>1 DEF Table

LEMMA TypesAre ==
    TypeOK <=> (\A t \in Tables : TypesOf(t)) /\ calls \in 0..MaxCalls
BY DEF TypeOK, Tables, TypesOf, IdsOf, RowsOf

-----------------------------------------------------------------------------
(* The statements.                                                           *)

LEMMA NothingKeeps ==
    ASSUME StoreInv, UNCHANGED db
    PROVE  Keeps
BY DEF StoreInv, Keeps, TypesOf, NoDanglingRows, UniqueFiles, TimesKept

LEMMA StoredTypes ==
    ASSUME StoreInv, NEW t \in Tables, NEW id, NEW row \in RowsOf[t]
    PROVE  /\ Stored(db, t, id, row) \in RowsOf[t]
           /\ t \in Dependent => Stored(db, t, id, row).account = row.account
           /\ t = "files" => /\ Stored(db, t, id, row).account = row.account
                             /\ Stored(db, t, id, row).path = row.path
           /\ t \in Dated /\ id \in DOMAIN db[t] =>
                Stored(db, t, id, row).created = db[t][id].created
<1>1. CASE ~(t \in Dated /\ id \in DOMAIN db[t])
  BY <1>1 DEF Stored
<1>2. CASE t \in Dated /\ id \in DOMAIN db[t]
  <2>1. db[t][id] \in RowsOf[t]
    BY <1>2, TableRows DEF StoreInv, TypesOf
  <2>2. Stored(db, t, id, row) = [row EXCEPT !.created = db[t][id].created]
    BY <1>2 DEF Stored
  <2>3. CASE t = "accounts"
    BY <1>2, <2>1, <2>2, <2>3 DEF RowsOf, Dependent
  <2>4. CASE t \in {"files", "folders"}
    <3>1. db[t][id] \in Located /\ row \in Located /\ RowsOf[t] = Located
      BY <2>1, <2>4 DEF RowsOf
    <3> QED
      BY <2>2, <3>1 DEF Located
  <2>5. CASE t = "shared_drives"
    BY <1>2, <2>1, <2>2, <2>5 DEF RowsOf, Dependent
  <2> QED
    BY <1>2, <2>3, <2>4, <2>5 DEF Dated
<1> QED
  BY <1>1, <1>2

LEMMA PutKeeps ==
    ASSUME StoreInv, NEW t \in Tables, NEW id \in IdsOf[t], NEW row \in RowsOf[t],
           db' = Put(db, t, id, row)
    PROVE  Keeps
<1>1. CASE Refused(db, t, id, row)
  BY <1>1, PutRefused, NothingKeeps
<1>2. CASE ~Refused(db, t, id, row)
  <2> DEFINE stored == Stored(db, t, id, row)
  <2>1. DOMAIN db' = Tables /\ \A u \in Tables \ {t} : db'[u] = db[u]
    BY PutFrame DEF StoreInv
  <2>2. /\ DOMAIN db'[t] = DOMAIN db[t] \cup {id} /\ db'[t][id] = stored
        /\ \A k \in DOMAIN db[t] \ {id} : db'[t][k] = db[t][k]
    BY <1>2, PutRows DEF StoreInv
  <2>3. /\ stored \in RowsOf[t]
        /\ t \in Dependent => stored.account = row.account
        /\ t = "files" => stored.account = row.account /\ stored.path = row.path
        /\ t \in Dated /\ id \in DOMAIN db[t] => stored.created = db[t][id].created
    BY StoredTypes
  <2>4. TypesOf(t)'
    <3>1. DOMAIN db[t] \subseteq IdsOf[t] /\ \A k \in DOMAIN db[t] : db[t][k] \in RowsOf[t]
      BY TableRows DEF StoreInv, TypesOf
    <3>2. DOMAIN db'[t] \subseteq IdsOf[t] /\ \A k \in DOMAIN db'[t] : db'[t][k] \in RowsOf[t]
      BY <2>2, <2>3, <3>1
    <3>3. db'[t] = [k \in DOMAIN db'[t] |-> db'[t][k]]
      BY <1>2 DEF Put, StoreInv
    <3> QED
      BY <3>2, <3>3, TableOf DEF TypesOf
  <2>5. \A u \in Tables : TypesOf(u)'
    BY <2>1, <2>4 DEF StoreInv, TypesOf
  <2>6. DOMAIN db.accounts \subseteq DOMAIN db'.accounts
    BY <2>1, <2>2 DEF Tables
  <2>7. t \in Dependent => row.account \in DOMAIN db.accounts
    BY <1>2 DEF Refused, Dangles
  <2>8. NoDanglingRows'
    BY <2>1, <2>2, <2>3, <2>6, <2>7 DEF StoreInv, NoDanglingRows, Dependent, Tables
  <2>9. UniqueFiles'
    <3>1. CASE t # "files"
      BY <2>1, <3>1 DEF StoreInv, UniqueFiles, Tables
    <3>2. CASE t = "files"
      <4>1. \A k \in DOMAIN db.files \ {id} :
              ~(db.files[k].account = row.account /\ db.files[k].path = row.path)
        BY <1>2, <3>2 DEF Refused, Clashes, UniqueKey
      <4> QED
        BY <2>2, <2>3, <3>2, <4>1 DEF StoreInv, UniqueFiles
    <3> QED
      BY <3>1, <3>2
  <2>10. TimesKept
    BY <2>1, <2>2, <2>3 DEF TimesKept, Dated, Tables
  <2> QED
    BY <2>1, <2>5, <2>8, <2>9, <2>10 DEF Keeps
<1> QED
  BY <1>1, <1>2

LEMMA DropKeeps ==
    ASSUME StoreInv, NEW t \in Tables \ {"accounts"}, NEW id, db' = Drop(db, t, id)
    PROVE  Keeps
<1>1. /\ DOMAIN db' = Tables /\ \A u \in Tables \ {t} : db'[u] = db[u]
      /\ DOMAIN db'[t] = DOMAIN db[t] \ {id} /\ \A k \in DOMAIN db'[t] : db'[t][k] = db[t][k]
  BY DropRows DEF StoreInv
<1>2. TypesOf(t)'
  <2>1. DOMAIN db[t] \subseteq IdsOf[t] /\ \A k \in DOMAIN db[t] : db[t][k] \in RowsOf[t]
    BY TableRows DEF StoreInv, TypesOf
  <2>2. db'[t] = [k \in DOMAIN db'[t] |-> db'[t][k]]
    BY DEF Drop, Restrict, StoreInv
  <2> QED
    BY <1>1, <2>1, <2>2, TableOf DEF TypesOf
<1>3. \A u \in Tables : TypesOf(u)'
  BY <1>1, <1>2 DEF StoreInv, TypesOf
<1>4. NoDanglingRows' /\ UniqueFiles' /\ TimesKept
  BY <1>1 DEF StoreInv, NoDanglingRows, UniqueFiles, TimesKept, Dependent, Dated, Tables
<1> QED
  BY <1>1, <1>3, <1>4 DEF Keeps

LEMMA DropAccountKeeps ==
    ASSUME StoreInv, NEW id, db' = DropAccount(db, id)
    PROVE  Keeps
<1>1. /\ DOMAIN db' = Tables /\ DOMAIN db'.accounts = DOMAIN db.accounts \ {id}
      /\ \A t \in Dependent : DOMAIN db'[t] = {k \in DOMAIN db[t] : db[t][k].account # id}
      /\ \A t \in {"files", "shared_drives"} : db'[t] = db[t]
      /\ \A t \in Tables : \A k \in DOMAIN db'[t] : k \in DOMAIN db[t] /\ db'[t][k] = db[t][k]
  BY DropAccountRows DEF StoreInv
<1>2. ASSUME NEW t \in Tables PROVE TypesOf(t)'
  <2>1. DOMAIN db[t] \subseteq IdsOf[t] /\ \A k \in DOMAIN db[t] : db[t][k] \in RowsOf[t]
    BY TableRows DEF StoreInv, TypesOf
  <2>2. CASE t \in Dependent \cup {"accounts"}
    <3>1. db'[t] = [k \in DOMAIN db'[t] |-> db'[t][k]]
      BY <2>2 DEF DropAccount, Restrict, StoreInv, Dependent, Tables
    <3> QED
      BY <1>1, <2>1, <3>1, TableOf DEF TypesOf
  <2>3. CASE t \in {"files", "shared_drives"}
    BY <1>1, <2>3 DEF StoreInv, TypesOf
  <2> QED
    BY <2>2, <2>3 DEF Tables, Dependent
<1>3. NoDanglingRows' /\ UniqueFiles' /\ TimesKept
  BY <1>1 DEF StoreInv, NoDanglingRows, UniqueFiles, TimesKept, Dependent, Dated, Tables
<1> QED
  BY <1>1, <1>2, <1>3 DEF Keeps

-----------------------------------------------------------------------------
(* The methods: each is one statement, or none.                              *)

LEMMA CallDoes ==
    ASSUME NEW required, NEW result, Call(required, result)
    PROVE  db' = db \/ (None \notin required /\ db' = result)
BY DEF Call

LEMMA InsertDoes ==
    ASSUME NEW t, NEW id, NEW row, db' = Insert(db, t, id, row)
    PROVE  db' = db \/ db' = Put(db, t, id, row)
BY DEF Insert

LEMMA StepKeeps ==
    ASSUME StoreInv, Next
    PROVE  Keeps
<1> USE NothingKeeps, MetaStoreAssumption DEF OrEmpty, IdsOf, RowsOf, Tables
<1>1. CASE UpsertAccount
  BY <1>1, CallDoes, PutKeeps DEF UpsertAccount
<1>2. CASE DeleteAccount
  BY <1>2, CallDoes, DropAccountKeeps DEF DeleteAccount
<1>3. CASE UpsertTokenRef
  BY <1>3, CallDoes, PutKeeps DEF UpsertTokenRef
<1>4. CASE DeleteTokenRef
  BY <1>4, CallDoes, DropKeeps DEF DeleteTokenRef
<1>5. CASE UpsertSyncState
  BY <1>5, CallDoes, PutKeeps DEF UpsertSyncState
<1>6. CASE UpsertFile
  BY <1>6, CallDoes, PutKeeps DEF UpsertFile, Located
<1>7. CASE DeleteFile
  BY <1>7, CallDoes, DropKeeps DEF DeleteFile
<1>8. CASE UpsertFolder
  BY <1>8, CallDoes, PutKeeps DEF UpsertFolder, Located
<1>9. CASE UpsertSharedDrive
  BY <1>9, CallDoes, PutKeeps DEF UpsertSharedDrive
<1>10. CASE AddPendingOp
  BY <1>10, CallDoes, InsertDoes, PutKeeps DEF AddPendingOp
<1>11. CASE UpdatePendingOp
  <2>1. PICK id \in OpIds, state \in {"queued", "done"} :
          db' = db \/ (id \in DOMAIN db.pending_ops /\ db' = [db EXCEPT !.pending_ops[id].state = state])
    BY <1>11, CallDoes DEF UpdatePendingOp
  <2>2. CASE id \in DOMAIN db.pending_ops /\ db' = [db EXCEPT !.pending_ops[id].state = state]
    <3> DEFINE rows == [account : AccountIds, state : {"queued", "done"}]
    <3>1. db.pending_ops \in Table(OpIds, rows)
      BY DEF StoreInv, TypesOf
    <3>2. /\ DOMAIN db' = Tables /\ \A u \in Tables \ {"pending_ops"} : db'[u] = db[u]
          /\ db'.pending_ops = [db.pending_ops EXCEPT ![id].state = state]
      BY <2>2 DEF StoreInv
    <3>3. db.pending_ops[id] \in rows
      <4> HIDE DEF rows
      <4> QED
        BY <2>2, <3>1, TableRows
    <3>4. \A k \in DOMAIN db.pending_ops : db'.pending_ops[k].account = db.pending_ops[k].account
      BY <3>2, <3>3
    <3>5. TypesOf("pending_ops")'
      BY <3>1, <3>2, <3>3, TableRows, TableOf DEF TypesOf
    <3>6. \A u \in Tables : TypesOf(u)'
      BY <3>2, <3>5 DEF StoreInv, TypesOf
    <3>7. DOMAIN db'.pending_ops = DOMAIN db.pending_ops
      BY <3>2
    <3>8. NoDanglingRows'
      BY <3>2, <3>4, <3>7 DEF StoreInv, NoDanglingRows, Dependent
    <3> QED
      BY <3>2, <3>6, <3>8 DEF StoreInv, Keeps, UniqueFiles, TimesKept, Dated
  <2> QED
    BY <2>1, <2>2
<1>12. CASE DeletePendingOp
  BY <1>12, CallDoes, DropKeeps DEF DeletePendingOp
<1> QED
  BY <1>1, <1>2, <1>3, <1>4, <1>5, <1>6, <1>7, <1>8, <1>9, <1>10, <1>11, <1>12 DEF Next

LEMMA CallsCounted ==
    ASSUME calls \in 0..MaxCalls, Next
    PROVE  calls' \in 0..MaxCalls
<1> USE MetaStoreAssumption DEF Call
<1>1. ASSUME NEW required, NEW result, Call(required, result) PROVE calls' \in 0..MaxCalls
  BY <1>1
<1> QED
  BY <1>1 DEF Next, UpsertAccount, DeleteAccount, UpsertTokenRef, DeleteTokenRef, UpsertSyncState,
       UpsertFile, DeleteFile, UpsertFolder, UpsertSharedDrive, AddPendingOp, UpdatePendingOp,
       DeletePendingOp

LEMMA Initially ==
    ASSUME Init
    PROVE  StoreInv
<1>1. PICK files \in LegacyFiles :
        /\ \A i, j \in DOMAIN files : files[i].path = files[j].path => i = j
        /\ db = Migrated(files)
  BY DEF Init
<1>2. PICK ids \in SUBSET FileIds :
        files \in [ids -> [account : {DefaultAccount}, path : Paths, created : Times]]
  BY DEF LegacyFiles
<1>3. files \in Table(FileIds, Located)
  BY <1>2, MetaStoreAssumption, TableOf DEF Located
<1>4. DOMAIN db = Tables /\ NoDanglingRows /\ UniqueFiles
  BY <1>1 DEF Migrated, Tables, NoDanglingRows, Dependent, UniqueFiles
<1>5. db.accounts \in Table(AccountIds, RowsOf.accounts)
  <2>1. db.accounts = [k \in {DefaultAccount} |->
                         [email |-> DefaultEmail, primary |-> TRUE, created |-> 0]]
    BY <1>1 DEF Migrated
  <2> QED
    BY <2>1, MetaStoreAssumption, TableOf DEF RowsOf
<1>6. ASSUME NEW set, NEW rows PROVE <<>> \in Table(set, rows)
  BY <<>> \in [{} -> rows] DEF Table
<1>7. TypesOf("accounts") /\ TypesOf("files")
  BY <1>1, <1>3, <1>5 DEF TypesOf, IdsOf, RowsOf, Migrated
<1>8. \A t \in Tables \ {"accounts", "files"} : db[t] = <<>>
  BY <1>1 DEF Tables, Migrated
<1>9. \A t \in Tables : TypesOf(t)
  BY <1>6, <1>7, <1>8 DEF TypesOf
<1> QED
  BY <1>4, <1>9, MetaStoreAssumption DEF StoreInv, Init

LEMMA StoreStep ==
    ASSUME StoreInv, [Next]_vars
    PROVE  StoreInv' /\ TimesKept
<1>1. CASE Next
  BY <1>1, StepKeeps, CallsCounted DEF StoreInv, Keeps
<1>2. CASE UNCHANGED vars
  BY <1>2, NothingKeeps DEF StoreInv, Keeps, vars
<1> QED
  BY <1>1, <1>2

LEMMA StoreInvariant == Spec => []StoreInv
<1> QED
  BY Initially, StoreStep, PTL DEF Spec

-----------------------------------------------------------------------------

\* Every call leaves the tables well typed, whatever its arguments.
THEOREM TypeCorrect == Spec => []TypeOK
<1>1. StoreInv => TypeOK
  BY TypesAre DEF StoreInv
<1> QED
  BY StoreInvariant, <1>1, PTL

\* No order of calls leaves a row of an account that is gone.
THEOREM NothingDangles == Spec => []NoDanglingRows
<1>1. StoreInv => NoDanglingRows
  BY DEF StoreInv
<1> QED
  BY StoreInvariant, <1>1, PTL

\* No upsert changes the creation time of a record.
THEOREM TimesAreKept == Spec => CreationTimeKept
<1>1. StoreInv /\ [Next]_vars => [TimesKept]_vars
  BY StoreStep
<1> QED
  BY StoreInvariant, <1>1, PTL DEF Spec, CreationTimeKept, TimesKept

-----------------------------------------------------------------------------
(* The file records are an index by place.                                   *)

Places == AccountIds \X Paths
IsAt(d, id, p) == d.files[id].account = p[1] /\ d.files[id].path = p[2]
FileAt(d, p) == AtPath(d, "files", p[1], p[2])

LEMMA FoundAt ==
    ASSUME NEW d, NEW p, NEW id \in DOMAIN d.files, IsAt(d, id, p),
           \A k \in DOMAIN d.files : IsAt(d, k, p) => k = id
    PROVE  FileAt(d, p) = id
BY DEF FileAt, AtPath, IsAt

LEMMA NothingAt ==
    ASSUME NEW d, NEW p, \A k \in DOMAIN d.files : ~IsAt(d, k, p)
    PROVE  FileAt(d, p) = None
BY DEF FileAt, AtPath, IsAt

LEMMA SomethingAt ==
    ASSUME NEW d, NEW p, FileAt(d, p) # None
    PROVE  FileAt(d, p) \in DOMAIN d.files /\ IsAt(d, FileAt(d, p), p)
BY DEF FileAt, AtPath, IsAt

LEMMA FileIdsAre ==
    ASSUME StoreInv
    PROVE  /\ DOMAIN db.files \subseteq FileIds /\ None \notin DOMAIN db.files
           /\ \A k \in DOMAIN db.files : db.files[k] \in Located
BY TableRows, MetaStoreAssumption DEF StoreInv, TypesOf, Tables, IdsOf, RowsOf

LEMMA FileMoves ==
    ASSUME StoreInv, StoreInv', NEW id \in FileIds, NEW p \in Places,
           DOMAIN db'.files = DOMAIN db.files \cup {id}, IsAt(db', id, p),
           \A k \in DOMAIN db.files \ {id} : db'.files[k] = db.files[k],
           NEW q \in Places
    PROVE  FileAt(db', q) = IF q = p THEN id ELSE IF FileAt(db, q) = id THEN None ELSE FileAt(db, q)
<1>1. /\ \A i, j \in DOMAIN db.files : IsAt(db, i, q) /\ IsAt(db, j, q) => i = j
      /\ \A i, j \in DOMAIN db'.files : IsAt(db', i, q) /\ IsAt(db', j, q) => i = j
  BY DEF StoreInv, UniqueFiles, IsAt
<1>2. \A k \in DOMAIN db.files \ {id} : IsAt(db', k, q) <=> IsAt(db, k, q)
  BY DEF IsAt
<1>3. CASE q = p
  BY <1>1, <1>3, FoundAt
<1>4. CASE q # p
  <2>1. ~IsAt(db', id, q)
    BY <1>4 DEF IsAt, Places
  <2>2. CASE \A k \in DOMAIN db.files : ~IsAt(db, k, q)
    <3>1. \A k \in DOMAIN db'.files : ~IsAt(db', k, q)
      BY <1>2, <2>1, <2>2
    <3> QED
      BY <1>4, <2>2, <3>1, NothingAt
  <2>3. ASSUME NEW k \in DOMAIN db.files, IsAt(db, k, q)
        PROVE  FileAt(db', q) = IF q = p THEN id
                                ELSE IF FileAt(db, q) = id THEN None ELSE FileAt(db, q)
    <3>1. FileAt(db, q) = k
      BY <1>1, <2>3, FoundAt
    <3>2. CASE k = id
      <4>1. \A j \in DOMAIN db'.files : ~IsAt(db', j, q)
        BY <1>1, <1>2, <2>1, <2>3, <3>2
      <4> QED
        BY <1>4, <3>1, <3>2, <4>1, NothingAt
    <3>3. CASE k # id
      <4>1. k \in DOMAIN db'.files /\ IsAt(db', k, q)
        BY <1>2, <2>3, <3>3
      <4>2. FileAt(db', q) = k
        BY <1>1, <4>1, FoundAt
      <4> QED
        BY <1>4, <3>1, <3>3, <4>2
    <3> QED
      BY <3>2, <3>3
  <2> QED
    BY <2>2, <2>3
<1> QED
  BY <1>3, <1>4

LEMMA FileGoes ==
    ASSUME StoreInv, NEW p \in Places, db' = Drop(db, "files", FileAt(db, p)), NEW q \in Places
    PROVE  FileAt(db', q) = IF q = p THEN None ELSE FileAt(db, q)
<1> DEFINE gone == FileAt(db, p)
<1>1. /\ DOMAIN db'.files = DOMAIN db.files \ {gone}
      /\ \A k \in DOMAIN db'.files : db'.files[k] = db.files[k]
  BY DropRows DEF StoreInv, Tables
<1>2. \A i, j \in DOMAIN db.files : IsAt(db, i, q) /\ IsAt(db, j, q) => i = j
  BY DEF StoreInv, UniqueFiles, IsAt
<1>3. \A k \in DOMAIN db'.files : IsAt(db', k, q) <=> IsAt(db, k, q)
  BY <1>1 DEF IsAt
<1>4. ASSUME \A k \in DOMAIN db'.files : ~IsAt(db', k, q) PROVE FileAt(db', q) = None
  BY <1>4, NothingAt
<1>5. CASE \A k \in DOMAIN db.files : ~IsAt(db, k, q)
  BY <1>1, <1>3, <1>4, <1>5, NothingAt
<1>6. ASSUME NEW k \in DOMAIN db.files, IsAt(db, k, q)
      PROVE  FileAt(db', q) = IF q = p THEN None ELSE FileAt(db, q)
  <2>1. FileAt(db, q) = k
    BY <1>2, <1>6, FoundAt
  <2>2. CASE q = p
    BY <1>1, <1>2, <1>3, <1>4, <1>6, <2>1, <2>2
  <2>3. CASE q # p
    <3>1. gone # k
      <4>1. SUFFICES ASSUME gone = k PROVE FALSE
        OBVIOUS
      <4>2. IsAt(db, k, p)
        BY <4>1, SomethingAt, FileIdsAre
      <4>3. p[1] = q[1] /\ p[2] = q[2]
        BY <1>6, <4>2 DEF IsAt
      <4> QED
        BY <2>3, <4>3 DEF Places
    <3>2. k \in DOMAIN db'.files /\ IsAt(db', k, q)
      BY <1>1, <1>3, <1>6, <3>1
    <3>3. FileAt(db', q) = k
      BY <1>1, <1>2, <1>3, <3>2, FoundAt
    <3> QED
      BY <2>1, <2>3, <3>3
  <2> QED
    BY <2>2, <2>3
<1> QED
  BY <1>5, <1>6

LEMMA IndexStep ==
    ASSUME StoreInv, StoreInv', [Next]_vars
    PROVE  [Index!Place \/ Index!Take]_[p \in Places |-> FileAt(db, p)]
<1> DEFINE at == [p \in Places |-> FileAt(db, p)]
<1>1. ASSUME db'.files = db.files PROVE at' = at
  <2>1. ASSUME NEW p PROVE FileAt(db', p) = FileAt(db, p)
    <3> DEFINE before == {id \in DOMAIN db.files : IsAt(db, id, p)}
               after  == {id \in DOMAIN db'.files : IsAt(db', id, p)}
    <3>1. FileAt(db, p) = IF before = {} THEN None ELSE CHOOSE id \in before : TRUE
      BY DEF FileAt, AtPath, IsAt
    <3>2. FileAt(db', p) = IF after = {} THEN None ELSE CHOOSE id \in after : TRUE
      BY DEF FileAt, AtPath, IsAt
    <3>3. before = after
      BY <1>1 DEF IsAt
    <3> HIDE DEF before, after
    <3> QED
      BY <3>1, <3>2, <3>3
  <2> QED
    BY <2>1
<1>2. ASSUME UpsertFile PROVE at' = at \/ Index!Place
  <2>1. PICK id \in OrEmpty(FileIds), account \in OrEmpty(AccountIds), path \in OrEmpty(Paths),
             time \in Times :
          Call({id, account, path},
               Put(db, "files", id, [account |-> account, path |-> path, created |-> time]))
    BY <1>2 DEF UpsertFile
  <2> DEFINE row == [account |-> account, path |-> path, created |-> time]
             p   == <<account, path>>
  <2>2. CASE db' = db
    BY <1>1, <2>2
  <2>3. CASE /\ None \notin {id, account, path} /\ db' = Put(db, "files", id, row)
             /\ ~Refused(db, "files", id, row)
    <3>1. id \in FileIds /\ p \in Places
      BY <2>3 DEF OrEmpty, Places
    <3>2. row \in RowsOf["files"]
      BY <3>1 DEF RowsOf, Located, Places
    <3>3. /\ DOMAIN db'["files"] = DOMAIN db["files"] \cup {id}
          /\ db'["files"][id] = Stored(db, "files", id, row)
          /\ \A k \in DOMAIN db["files"] \ {id} : db'["files"][k] = db["files"][k]
      BY <2>3, PutRows DEF StoreInv, Tables
    <3>4. Stored(db, "files", id, row).account = account /\ Stored(db, "files", id, row).path = path
      BY <3>2, StoredTypes DEF Tables
    <3>5. IsAt(db', id, p)
      BY <3>3, <3>4 DEF IsAt
    <3>6. \A q \in Places :
            FileAt(db', q) = IF q = p THEN id ELSE IF FileAt(db, q) = id THEN None ELSE FileAt(db, q)
      BY <3>1, <3>3, <3>5, FileMoves
    <3>7. at[p] \in {id, None}
      <4>1. \A k \in DOMAIN db.files \ {id} : ~IsAt(db, k, p)
        BY <2>3 DEF Refused, Clashes, UniqueKey, IsAt
      <4> QED
        BY <3>1, <4>1, SomethingAt
    <3>8. at' = [q \in Places |-> IF q = p THEN id ELSE IF at[q] = id THEN None ELSE at[q]]
      BY <3>6
    <3> QED
      BY <3>1, <3>7, <3>8 DEF Index!Place, FileAt, Places
  <2> QED
    BY <2>1, <2>2, <2>3, CallDoes, PutRefused
<1>3. ASSUME DeleteFile PROVE at' = at \/ Index!Take
  <2>1. PICK account \in AccountIds, path \in Paths :
          db' = db \/ db' = Drop(db, "files", AtPath(db, "files", account, path))
    BY <1>3, CallDoes DEF DeleteFile
  <2> DEFINE p == <<account, path>>
  <2>2. CASE db' = db
    BY <1>1, <2>2
  <2>3. CASE db' = Drop(db, "files", FileAt(db, p))
    <3>1. p \in Places
      BY DEF Places
    <3>2. \A q \in Places : FileAt(db', q) = IF q = p THEN None ELSE FileAt(db, q)
      BY <2>3, <3>1, FileGoes
    <3>3. at' = [at EXCEPT ![p] = None]
      BY <3>1, <3>2
    <3> QED
      BY <3>1, <3>3 DEF Index!Take, FileAt, Places
  <2> QED
    BY <2>1, <2>2, <2>3 DEF FileAt
<1>4. ASSUME NEW t \in Tables \ {"files"}, NEW id, NEW row, db' = Put(db, t, id, row)
      PROVE  db'.files = db.files
  BY <1>4, PutFrame, PutRefused DEF StoreInv, Tables
<1>5. ASSUME NEW t \in Tables \ {"files"}, NEW id, db' = Drop(db, t, id) PROVE db'.files = db.files
  BY <1>5, DropRows DEF StoreInv, Tables
<1>6. ASSUME NEW id, db' = DropAccount(db, id) PROVE db'.files = db.files
  BY <1>6, DropAccountRows DEF StoreInv
<1>7. CASE UpsertAccount \/ UpsertTokenRef \/ UpsertSyncState \/ UpsertFolder \/ UpsertSharedDrive
  <2>1. ASSUME UpsertAccount PROVE db'.files = db.files
    BY <1>4, <2>1, CallDoes DEF UpsertAccount, Tables
  <2>2. ASSUME UpsertTokenRef PROVE db'.files = db.files
    BY <1>4, <2>2, CallDoes DEF UpsertTokenRef, Tables
  <2>3. ASSUME UpsertSyncState PROVE db'.files = db.files
    BY <1>4, <2>3, CallDoes DEF UpsertSyncState, Tables
  <2>4. ASSUME UpsertFolder PROVE db'.files = db.files
    BY <1>4, <2>4, CallDoes DEF UpsertFolder, Tables
  <2>5. ASSUME UpsertSharedDrive PROVE db'.files = db.files
    BY <1>4, <2>5, CallDoes DEF UpsertSharedDrive, Tables
  <2> QED
    BY <1>1, <1>7, <2>1, <2>2, <2>3, <2>4, <2>5
<1>8. CASE DeleteAccount \/ DeleteTokenRef \/ DeletePendingOp
  <2>1. ASSUME DeleteAccount PROVE db'.files = db.files
    BY <1>6, <2>1, CallDoes DEF DeleteAccount
  <2>2. ASSUME DeleteTokenRef PROVE db'.files = db.files
    BY <1>5, <2>2, CallDoes DEF DeleteTokenRef, Tables
  <2>3. ASSUME DeletePendingOp PROVE db'.files = db.files
    BY <1>5, <2>3, CallDoes DEF DeletePendingOp, Tables
  <2> QED
    BY <1>1, <1>8, <2>1, <2>2, <2>3
<1>9. CASE AddPendingOp
  <2>1. db'.files = db.files
    BY <1>4, <1>9, CallDoes, InsertDoes DEF AddPendingOp, Tables
  <2> QED
    BY <1>1, <2>1
<1>10. CASE UpdatePendingOp
  <2>1. db'.files = db.files
    BY <1>10, CallDoes DEF UpdatePendingOp, StoreInv, Tables
  <2> QED
    BY <1>1, <2>1
<1>11. CASE UNCHANGED vars
  BY <1>1, <1>11 DEF vars
<1> QED
  BY <1>2, <1>3, <1>7, <1>8, <1>9, <1>10, <1>11 DEF Next

\* Under every sequence of calls the file records are an index by place.
THEOREM FilesIndexed == Spec => FilesAreIndexed
<1>1. StoreInv => Index!Init
  <2>1. ASSUME StoreInv, NEW p \in Places PROVE FileAt(db, p) \in FileIds \cup {None}
    BY <2>1, SomethingAt, FileIdsAre
  <2>2. ASSUME StoreInv, NEW p \in Places, NEW q \in Places,
               FileAt(db, p) = FileAt(db, q), FileAt(db, p) # None
        PROVE  p = q
    <3>1. IsAt(db, FileAt(db, p), p) /\ IsAt(db, FileAt(db, p), q)
      BY <2>2, SomethingAt
    <3>2. p[1] = q[1] /\ p[2] = q[2]
      BY <3>1 DEF IsAt
    <3> QED
      BY <3>2 DEF Places
  <2> QED
    BY <2>1, <2>2 DEF Index!Init, Index!TypeOK, Index!OnePlaceEach, FileAt, Places
<1>2. StoreInv /\ StoreInv' /\ [Next]_vars =>
        [Index!Place \/ Index!Take]_[p \in AccountIds \X Paths |-> AtPath(db, "files", p[1], p[2])]
  BY IndexStep DEF Places, FileAt
<1> QED
  BY StoreInvariant, <1>1, <1>2, PTL DEF Spec, FilesAreIndexed, Index!Spec

\* What the index promises to whoever uses it, told from its own steps.
LEMMA IndexKeepsPlaces == FilesAreIndexed => [](Index!TypeOK /\ Index!OnePlaceEach)
<1> DEFINE at == [p \in AccountIds \X Paths |-> AtPath(db, "files", p[1], p[2])]
<1>1. Index!TypeOK /\ Index!OnePlaceEach /\ [Index!Place \/ Index!Take]_at =>
        (Index!TypeOK /\ Index!OnePlaceEach)'
  <2> SUFFICES ASSUME Index!TypeOK, Index!OnePlaceEach, [Index!Place \/ Index!Take]_at
               PROVE  (Index!TypeOK /\ Index!OnePlaceEach)'
    OBVIOUS
  <2> HIDE DEF at
  <2>1. /\ at \in [Places -> FileIds \cup {None}]
        /\ \A p, q \in Places : at[p] = at[q] /\ at[p] # None => p = q
    BY DEF Index!TypeOK, Index!OnePlaceEach, at, Places
  <2>2. /\ at' \in [Places -> FileIds \cup {None}]
        /\ \A p, q \in Places : at'[p] = at'[q] /\ at'[p] # None => p = q
    <3>1. CASE Index!Place
      <4>1. PICK id \in FileIds, p \in Places :
               at' = [q \in Places |-> IF q = p THEN id ELSE IF at[q] = id THEN None ELSE at[q]]
        BY <3>1 DEF Index!Place, at, Places
      <4> QED
        BY <2>1, <4>1
    <3>2. CASE Index!Take
      <4>1. PICK p \in Places : at' = [at EXCEPT ![p] = None]
        BY <3>2 DEF Index!Take, at, Places
      <4> QED
        BY <2>1, <4>1
    <3>3. CASE UNCHANGED at
      BY <2>1, <3>3
    <3> QED
      BY <3>1, <3>2, <3>3
  <2> QED
    BY <2>2 DEF Index!TypeOK, Index!OnePlaceEach, at, Places
<1> QED
  BY <1>1, PTL DEF FilesAreIndexed, Index!Spec, Index!Init

\* Therefore the database promises it too: a file is found at one path of one
\* account only, whatever calls moved it or took its path (store.go:304).
THEOREM OnePlaceOnly == Spec => [](Index!TypeOK /\ Index!OnePlaceEach)
  BY FilesIndexed, IndexKeepsPlaces, PTL
=============================================================================
