------------------------- MODULE AuthServiceProofs -------------------------
(* The safety properties of AuthService, for any number of users and         *)
(* refreshers.  Types, SignedOutStaysOut and the bound on primary accounts   *)
(* hold for any callers; the other theorems need that no two users are in    *)
(* calls about one account.  The code has no lock that keeps them apart, and *)
(* one user alone needs none.                                                *)
EXTENDS AuthService, MetaTablesProofs, FiniteSetTheorems

Accounts == DOMAIN db.accounts
Refs     == DOMAIN db.token_refs

AccountRow == [email : Emails \cup {DefaultEmail}, primary : BOOLEAN, created : {0}]

\* What a statement on accounts or token references leaves behind.
DatabaseOK ==
    /\ DOMAIN db = Tables
    /\ Accounts \subseteq AccountIds /\ \A id \in Accounts : db.accounts[id] \in AccountRow
    /\ Refs \subseteq AccountIds /\ \A id \in Refs : db.token_refs[id].account = id
    /\ SignedOutStaysOut

-----------------------------------------------------------------------------
(* The statements.                                                           *)

LEMMA InitialDatabase ==
    ASSUME db = Migrated(<<>>)
    PROVE  DatabaseOK /\ Accounts = {DefaultAccount} /\ Refs = {}
BY DEF Migrated, DatabaseOK, Accounts, Refs, AccountIds, AccountRow, SignedOutStaysOut, Tables

LEMMA StoredAccount ==
    ASSUME DatabaseOK, NEW id \in AccountIds, NEW row \in AccountRow,
           ~Refused(db, "accounts", id, row), db' = Put(db, "accounts", id, row)
    PROVE  /\ DatabaseOK'
           /\ Accounts' = Accounts \cup {id} /\ Refs' = Refs
           /\ db'.accounts[id] = row
           /\ \A k \in Accounts \ {id} : db'.accounts[k] = db.accounts[k]
<1>1. DOMAIN db' = Tables /\ db'.token_refs = db.token_refs
  BY PutFrame DEF DatabaseOK, Tables
<1>2. /\ DOMAIN db'["accounts"] = DOMAIN db["accounts"] \cup {id}
      /\ \A k \in DOMAIN db["accounts"] \ {id} : db'["accounts"][k] = db["accounts"][k]
      /\ db'["accounts"][id] = Stored(db, "accounts", id, row)
  BY PutRows DEF DatabaseOK, Tables, Dated
<1>3. db'.accounts[id] = row
  BY <1>2 DEF DatabaseOK, AccountRow, Accounts, Stored
<1> QED
  BY <1>1, <1>2, <1>3 DEF DatabaseOK, Accounts, Refs, SignedOutStaysOut

\* The foreign key refuses a reference to an account that is gone.
LEMMA StoredRef ==
    ASSUME DatabaseOK, NEW id \in AccountIds, db' = Put(db, "token_refs", id, [account |-> id])
    PROVE  /\ DatabaseOK'
           /\ Accounts' = Accounts /\ db'.accounts = db.accounts
           /\ Refs' = IF id \in Accounts THEN Refs \cup {id} ELSE Refs
<1> DEFINE row == [account |-> id]
<1>1. Refused(db, "token_refs", id, row) <=> id \notin Accounts
  BY DEF Refused, Clashes, Dangles, Dependent, Accounts
<1>2. CASE id \in Accounts
  <2>1. DOMAIN db' = Tables /\ db'.accounts = db.accounts
    BY PutFrame DEF DatabaseOK, Tables
  <2>2. /\ DOMAIN db'["token_refs"] = DOMAIN db["token_refs"] \cup {id}
        /\ db'["token_refs"][id] = Stored(db, "token_refs", id, row)
        /\ \A k \in DOMAIN db["token_refs"] \ {id} : db'["token_refs"][k] = db["token_refs"][k]
    BY <1>1, <1>2, PutRows DEF DatabaseOK, Tables
  <2>3. Stored(db, "token_refs", id, row).account = id
    BY DEF Stored, Dated
  <2> QED
    BY <1>2, <2>1, <2>2, <2>3 DEF DatabaseOK, Accounts, Refs, SignedOutStaysOut
<1>3. CASE id \notin Accounts
  <2>1. db' = db
    BY <1>1, <1>3, PutRefused
  <2> QED
    BY <1>3, <2>1 DEF DatabaseOK, Accounts, Refs, SignedOutStaysOut
<1> QED
  BY <1>2, <1>3

LEMMA DroppedRef ==
    ASSUME DatabaseOK, NEW id, db' = Drop(db, "token_refs", id)
    PROVE  /\ DatabaseOK'
           /\ Accounts' = Accounts /\ db'.accounts = db.accounts
           /\ Refs' = Refs \ {id}
BY DropRows DEF DatabaseOK, Tables, Accounts, Refs, SignedOutStaysOut

LEMMA DroppedAccount ==
    ASSUME DatabaseOK, NEW id, db' = DropAccount(db, id)
    PROVE  /\ DatabaseOK'
           /\ Accounts' = Accounts \ {id} /\ Refs' = Refs \ {id}
           /\ \A k \in Accounts' : db'.accounts[k] = db.accounts[k]
<1>1. /\ DOMAIN db' = Tables /\ Accounts' = Accounts \ {id}
      /\ Refs' = {k \in Refs : db.token_refs[k].account # id}
      /\ \A k \in Accounts' : db'.accounts[k] = db.accounts[k]
      /\ \A k \in Refs' : db'.token_refs[k] = db.token_refs[k]
  BY DropAccountRows DEF DatabaseOK, Tables, Dependent, Accounts, Refs
<1>2. \A k \in Refs : db.token_refs[k].account = k
  BY DEF DatabaseOK
<1>3. Refs' = Refs \ {id}
  BY <1>1, <1>2
<1> QED
  BY <1>1, <1>3 DEF DatabaseOK, Accounts, Refs, SignedOutStaysOut

-----------------------------------------------------------------------------
(* The actions that change the database.                                     *)

General == TypeOK /\ DatabaseOK

LEMMA StoreAccountEffect ==
    ASSUME General, NEW c \in Users, StoreAccount(c)
    PROVE  /\ DatabaseOK' /\ Refs' = Refs
           /\ pc' \in {[pc EXCEPT ![c] = "ref"], [pc EXCEPT ![c] = "idle"]}
           /\ UNCHANGED <<secrets, session, up, arg, stuck>>
           /\ \/ /\ Accounts' = Accounts \cup {arg[c].id} /\ cut' = cut
                 /\ db'.accounts[arg[c].id].primary = arg[c].primary
                 /\ \A k \in Accounts \ {arg[c].id} : db'.accounts[k] = db.accounts[k]
              \/ /\ db' = db /\ Goto(c, "idle") /\ cut' = cut \cup HalfDone({c})
<1> DEFINE id  == arg[c].id
           row == [email |-> arg[c].email, primary |-> arg[c].primary, created |-> 0]
<1>1. PICK step \in {"ref", "idle"} :
        Statement(c, ~Valid(arg[c]) \/ Refused(db, "accounts", id, row),
                  Put(db, "accounts", id, row), step)
  BY DEF StoreAccount
<1>2. arg[c] \in Account
  BY DEF StoreAccount, General, TypeOK, Callers
<1>3. CASE db' = db /\ Goto(c, "idle") /\ cut' = cut \cup HalfDone({c})
  BY <1>1, <1>3 DEF General, Statement, Goto, DatabaseOK, Accounts, Refs, SignedOutStaysOut
<1>4. CASE /\ Valid(arg[c]) /\ ~Refused(db, "accounts", id, row)
           /\ db' = Put(db, "accounts", id, row) /\ Goto(c, step) /\ UNCHANGED cut
  <2>1. id \in AccountIds /\ row \in AccountRow
    BY <1>2, <1>4 DEF Account, AccountRow, Valid
  <2>2. /\ DatabaseOK' /\ Accounts' = Accounts \cup {id} /\ Refs' = Refs
        /\ db'.accounts[id] = row
        /\ \A k \in Accounts \ {id} : db'.accounts[k] = db.accounts[k]
    BY <1>4, <2>1, StoredAccount DEF General
  <2>3. row.primary = arg[c].primary
    OBVIOUS
  <2>4. pc' \in {[pc EXCEPT ![c] = "ref"], [pc EXCEPT ![c] = "idle"]}
    BY <1>4 DEF Goto
  <2> QED
    BY <1>1, <1>4, <2>2, <2>3, <2>4 DEF Statement
<1> QED
  BY <1>1, <1>3, <1>4 DEF Statement

LEMMA StoreRefEffect ==
    ASSUME General, NEW c \in Users, StoreRef(c)
    PROVE  /\ DatabaseOK' /\ Accounts' = Accounts /\ db'.accounts = db.accounts
           /\ UNCHANGED <<secrets, session, up, arg, stuck>>
           /\ \/ Refs' = Refs \cup {arg[c].id} /\ arg[c].id \in Accounts /\ cut' = cut
                 /\ Goto(c, "secret")
              \/ Refs' = Refs /\ cut' = cut \cup HalfDone({c}) /\ Goto(c, "idle")
<1> DEFINE id  == arg[c].id
           row == [account |-> id]
<1>1. Statement(c, Refused(db, "token_refs", id, row), Put(db, "token_refs", id, row), "secret")
  BY DEF StoreRef
<1>2. id \in AccountIds
  BY DEF StoreRef, General, TypeOK, Account, Callers
<1>3. CASE UNCHANGED db /\ Goto(c, "idle") /\ cut' = cut \cup HalfDone({c})
  BY <1>1, <1>3 DEF General, Statement, DatabaseOK, Accounts, Refs, SignedOutStaysOut
<1>4. CASE /\ ~Refused(db, "token_refs", id, row) /\ db' = Put(db, "token_refs", id, row)
           /\ Goto(c, "secret") /\ UNCHANGED cut
  <2>1. id \in Accounts
    BY <1>4 DEF Refused, Dangles, Dependent, Accounts
  <2> QED
    BY <1>1, <1>2, <1>4, <2>1, StoredRef DEF General, Statement
<1> QED
  BY <1>1, <1>3, <1>4 DEF Statement

LEMMA DeleteAccountEffect ==
    ASSUME General, NEW c \in Users, DeleteAccount(c)
    PROVE  /\ DatabaseOK' /\ UNCHANGED <<secrets, session, up, arg, stuck>>
           /\ \/ /\ Accounts' = Accounts \ {arg[c].id} /\ Refs' = Refs \ {arg[c].id}
                 /\ \A k \in Accounts' : db'.accounts[k] = db.accounts[k]
                 /\ cut' = cut /\ Goto(c, "clear")
              \/ db' = db /\ cut' = cut \cup HalfDone({c}) /\ Goto(c, "idle")
<1>1. Statement(c, FALSE, DropAccount(db, arg[c].id), "clear")
  BY DEF DeleteAccount
<1>2. CASE UNCHANGED db /\ Goto(c, "idle") /\ cut' = cut \cup HalfDone({c})
  BY <1>1, <1>2 DEF General, Statement, DatabaseOK, Accounts, Refs, SignedOutStaysOut
<1>3. CASE db' = DropAccount(db, arg[c].id) /\ Goto(c, "clear") /\ UNCHANGED cut
  BY <1>1, <1>3, DroppedAccount DEF General, Statement
<1> QED
  BY <1>1, <1>2, <1>3 DEF Statement

LEMMA UndoRefEffect ==
    ASSUME General, NEW c \in Users, UndoRef(c)
    PROVE  /\ DatabaseOK' /\ Accounts' = Accounts /\ db'.accounts = db.accounts
           /\ Refs' \in {Refs, Refs \ {arg[c].id}}
<1>1. CASE db' = db
  BY <1>1 DEF General, DatabaseOK, Accounts, Refs, SignedOutStaysOut
<1>2. CASE db' = Drop(db, "token_refs", arg[c].id)
  BY <1>2, DroppedRef DEF General
<1> QED
  BY <1>1, <1>2 DEF UndoRef

LEMMA WriteRefEffect ==
    ASSUME General, NEW c \in Refreshers, WriteRef(c)
    PROVE  /\ DatabaseOK' /\ Accounts' = Accounts /\ db'.accounts = db.accounts
           /\ arg[c].id \in AccountIds
           /\ Refs' = Refs \/ (arg[c].id \in Accounts /\ Refs' = Refs \cup {arg[c].id})
<1>1. arg[c].id \in AccountIds
  BY DEF WriteRef, General, TypeOK, Account, Callers
<1>2. CASE db' = db
  BY <1>1, <1>2 DEF General, DatabaseOK, Accounts, Refs, SignedOutStaysOut
<1>3. CASE db' = Put(db, "token_refs", arg[c].id, [account |-> arg[c].id])
  BY <1>1, <1>3, StoredRef DEF General
<1> QED
  BY <1>2, <1>3 DEF WriteRef

-----------------------------------------------------------------------------
(* Types and SignedOutStaysOut, for any callers.                             *)

LEMMA InitiallyGeneral ==
    ASSUME Init PROVE General
<1>1. DatabaseOK /\ Accounts = {DefaultAccount} /\ Refs = {}
  BY InitialDatabase DEF Init
<1> QED
  BY <1>1 DEF Init, General, TypeOK, DatabaseOK, Accounts, Refs, AccountRow

Steps == {"idle", "account", "ref", "secret", "undo", "publish", "delete", "clear", "read", "write"}

CallsOK ==
    /\ pc \in [Callers -> Steps]
    /\ arg \in [Callers -> Account \cup {None}]
    /\ \A c \in Callers : pc[c] # "idle" => arg[c] \in Account

RestOK ==
    /\ secrets \subseteq AccountIds /\ stuck \subseteq secrets /\ cut \subseteq AccountIds
    /\ session \in AccountIds \cup {None} /\ up \in BOOLEAN

LEMMA GeneralParts == General <=> DatabaseOK /\ CallsOK /\ RestOK
BY DEF General, TypeOK, DatabaseOK, CallsOK, RestOK, Accounts, Refs, AccountRow, Steps

LEMMA SameDatabase == ASSUME DatabaseOK, UNCHANGED db PROVE DatabaseOK'
BY DEF DatabaseOK, Accounts, Refs, SignedOutStaysOut

\* A call goes on, about the same account, or begins about one.
LEMMA CallGoesOn ==
    ASSUME CallsOK, NEW c \in Callers, pc[c] # "idle", NEW step \in Steps, Goto(c, step), UNCHANGED arg
    PROVE  CallsOK'
BY DEF CallsOK, Goto

LEMMA CallBegins ==
    ASSUME CallsOK, NEW c \in Callers, NEW account \in Account, NEW step \in Steps, Goto(c, step),
           arg' = [arg EXCEPT ![c] = account]
    PROVE  CallsOK'
BY DEF CallsOK, Goto

LEMMA CallerAccount ==
    ASSUME CallsOK, NEW c \in Callers, pc[c] # "idle"
    PROVE  arg[c] \in Account /\ arg[c].id \in AccountIds
BY DEF CallsOK, Account

LEMMA HalfDoneIds ==
    ASSUME CallsOK, NEW callers \in SUBSET Callers
    PROVE  HalfDone(callers) \subseteq AccountIds
BY CallerAccount DEF HalfDone

LEMMA UnknownAccount == ASSUME NEW id \in AccountIds PROVE Unknown(id) \in Account
BY DEF Unknown, Account

LEMMA GeneralStep ==
    ASSUME General, [Next]_vars
    PROVE  General'
<1> USE GeneralParts DEF Callers
<1>1. DatabaseOK /\ CallsOK /\ RestOK
  OBVIOUS
<1>2. General' <=> DatabaseOK' /\ CallsOK' /\ RestOK'
  BY DEF General, TypeOK, DatabaseOK, CallsOK, RestOK, Accounts, Refs, AccountRow, Steps
<1>4. ASSUME NEW c \in Users, BeginSignIn(c) PROVE General'
  <2>1. PICK id \in GoogleIds, email \in Emails \cup {None}, first \in {FALSE, IsFirstAccount(db)} :
          arg' = [arg EXCEPT ![c] = [id |-> id, email |-> email, primary |-> first]]
    BY <1>4 DEF BeginSignIn
  <2>2. first \in BOOLEAN
    BY DEF IsFirstAccount
  <2>3. [id |-> id, email |-> email, primary |-> first] \in Account
    BY <2>2 DEF Account, AccountIds
  <2>4. CallsOK'
    BY <1>1, <1>4, <2>1, <2>3, CallBegins DEF BeginSignIn, Steps
  <2> QED
    BY <1>1, <1>2, <1>4, <2>4, SameDatabase DEF BeginSignIn, RestOK
<1>5. ASSUME NEW c \in Users, StoreAccount(c) PROVE General'
  <2>1. DatabaseOK' /\ UNCHANGED <<secrets, session, up, arg, stuck>>
    BY <1>5, StoreAccountEffect
  <2>2. pc[c] # "idle" /\ (Goto(c, "ref") \/ Goto(c, "idle"))
    BY <1>5, StoreAccountEffect DEF StoreAccount, Goto
  <2>3. CallsOK'
    BY <1>1, <2>1, <2>2, CallGoesOn DEF Steps
  <2>4. cut' = cut \/ cut' = cut \cup HalfDone({c})
    BY <1>5, StoreAccountEffect
  <2> QED
    BY <1>1, <1>2, <2>1, <2>3, <2>4, HalfDoneIds DEF RestOK
<1>6. ASSUME NEW c \in Users, StoreRef(c) PROVE General'
  <2>1. DatabaseOK' /\ UNCHANGED <<secrets, session, up, arg, stuck>>
    BY <1>6, StoreRefEffect
  <2>2. pc[c] # "idle" /\ (Goto(c, "secret") \/ Goto(c, "idle"))
    BY <1>6, StoreRefEffect DEF StoreRef
  <2>3. CallsOK'
    BY <1>1, <2>1, <2>2, CallGoesOn DEF Steps
  <2>4. cut' = cut \/ cut' = cut \cup HalfDone({c})
    BY <1>6, StoreRefEffect
  <2> QED
    BY <1>1, <1>2, <2>1, <2>3, <2>4, HalfDoneIds DEF RestOK
<1>7. ASSUME NEW c \in Users, StoreSecret(c) PROVE General'
  <2>1. CallsOK'
    BY <1>1, <1>7, CallGoesOn DEF StoreSecret, Steps
  <2>2. arg[c].id \in AccountIds
    BY <1>1, <1>7, CallerAccount DEF StoreSecret
  <2> QED
    BY <1>1, <1>2, <1>7, <2>1, <2>2, SameDatabase DEF StoreSecret, RestOK
<1>8. ASSUME NEW c \in Users, UndoRef(c) PROVE General'
  <2>1. CallsOK'
    BY <1>1, <1>8, CallGoesOn DEF UndoRef, Steps
  <2>2. arg[c].id \in AccountIds
    BY <1>1, <1>8, CallerAccount DEF UndoRef
  <2>3. DatabaseOK'
    BY <1>8, UndoRefEffect
  <2> QED
    BY <1>1, <1>2, <1>8, <2>1, <2>2, <2>3 DEF UndoRef, RestOK
<1>9. ASSUME NEW c \in Users, PublishState(c) PROVE General'
  <2>1. CallsOK'
    BY <1>1, <1>9, CallGoesOn DEF PublishState, Steps
  <2>2. arg[c].id \in AccountIds
    BY <1>1, <1>9, CallerAccount DEF PublishState
  <2> QED
    BY <1>1, <1>2, <1>9, <2>1, <2>2, SameDatabase DEF PublishState, RestOK
<1>10. ASSUME NEW c \in Users, DeleteSecret(c) PROVE General'
  <2>1. PICK id \in AccountIds :
          /\ arg' = [arg EXCEPT ![c] = Unknown(id)]
          /\ \/ secrets' = secrets \ {id} /\ stuck' = stuck \ {id}
             \/ id \in secrets /\ stuck' = stuck \cup {id} /\ UNCHANGED secrets
    BY <1>10 DEF DeleteSecret
  <2>2. CallsOK'
    BY <1>1, <1>10, <2>1, UnknownAccount, CallBegins DEF DeleteSecret, Steps
  <2> QED
    BY <1>1, <1>2, <1>10, <2>1, <2>2, SameDatabase DEF DeleteSecret, RestOK
<1>11. ASSUME NEW c \in Users, DeleteAccount(c) PROVE General'
  <2>1. DatabaseOK' /\ UNCHANGED <<secrets, session, up, arg, stuck>>
    BY <1>11, DeleteAccountEffect
  <2>2. pc[c] # "idle" /\ (Goto(c, "clear") \/ Goto(c, "idle"))
    BY <1>11, DeleteAccountEffect DEF DeleteAccount
  <2>3. CallsOK'
    BY <1>1, <2>1, <2>2, CallGoesOn DEF Steps
  <2>4. cut' = cut \/ cut' = cut \cup HalfDone({c})
    BY <1>11, DeleteAccountEffect
  <2> QED
    BY <1>1, <1>2, <2>1, <2>3, <2>4, HalfDoneIds DEF RestOK
<1>12. ASSUME NEW c \in Users, ClearState(c) PROVE General'
  <2>1. CallsOK'
    BY <1>1, <1>12, CallGoesOn DEF ClearState, Steps
  <2> QED
    BY <1>1, <1>2, <1>12, <2>1, SameDatabase DEF ClearState, RestOK
<1>13. ASSUME NEW c \in Refreshers, ReadRef(c) PROVE General'
  <2>1. PICK id \in Refs : arg' = [arg EXCEPT ![c] = Unknown(id)]
    BY <1>13 DEF ReadRef, Refs
  <2>2. Unknown(id) \in Account
    BY <1>1, UnknownAccount DEF DatabaseOK
  <2>3. CallsOK'
    BY <1>1, <1>13, <2>1, <2>2, CallBegins DEF ReadRef, Steps
  <2> QED
    BY <1>1, <1>2, <1>13, <2>3, SameDatabase DEF ReadRef, RestOK
<1>14. ASSUME NEW c \in Refreshers, ReadSecret(c) PROVE General'
  <2>1. CallsOK'
    BY <1>1, <1>14, CallGoesOn DEF ReadSecret, Steps
  <2> QED
    BY <1>1, <1>2, <1>14, <2>1, SameDatabase DEF ReadSecret, RestOK
<1>15. ASSUME NEW c \in Refreshers, WriteRef(c) PROVE General'
  <2>1. CallsOK'
    BY <1>1, <1>15, CallGoesOn DEF WriteRef, Steps
  <2>2. DatabaseOK' /\ arg[c].id \in AccountIds
    BY <1>15, WriteRefEffect
  <2> QED
    BY <1>1, <1>2, <1>15, <2>1, <2>2 DEF WriteRef, RestOK
<1>16. CASE Crash
  <2>1. CallsOK'
    BY <1>16 DEF Crash, CallsOK, Steps
  <2> QED
    BY <1>1, <1>2, <1>16, <2>1, SameDatabase, HalfDoneIds DEF Crash, RestOK
<1>17. CASE Restart
  <2>1. CallsOK'
    BY <1>1, <1>17 DEF Restart, CallsOK
  <2>2. session' \in AccountIds \cup {None}
    BY <1>1, <1>17 DEF Restart, ActiveAccount, DatabaseOK, Accounts
  <2> QED
    BY <1>1, <1>2, <1>17, <2>1, <2>2, SameDatabase DEF Restart, RestOK
<1>18. CASE UNCHANGED vars
  <2>1. CallsOK' /\ RestOK'
    BY <1>1, <1>18 DEF vars, CallsOK, RestOK
  <2> QED
    BY <1>1, <1>2, <1>18, <2>1, SameDatabase DEF vars
<1> QED
  BY <1>4, <1>5, <1>6, <1>7, <1>8, <1>9, <1>10, <1>11, <1>12, <1>13, <1>14, <1>15, <1>16, <1>17, <1>18
     DEF Next, SignIn, SignOut, RefreshAccessToken

\* The database and the keyring keep their types, and every caller that is in
\* a call has an account to work on.
THEOREM TypeCorrect == Spec => []TypeOK
<1> QED
  BY InitiallyGeneral, GeneralStep, PTL DEF Spec, General

\* However refreshes, sign-ins and sign-outs of any number of callers and
\* crashes interleave, no reference outlives its account.
THEOREM StaysOut == Spec => []SignedOutStaysOut
<1>1. General => SignedOutStaysOut
  BY DEF General, DatabaseOK
<1> QED
  BY InitiallyGeneral, GeneralStep, <1>1, PTL DEF Spec

-----------------------------------------------------------------------------
(* The other properties, for users who leave each other's accounts alone.    *)

\* Caller u has stored one of reference and token and not yet the other, or
\* removed one of them.
Between(u) == pc[u] \in {"secret", "undo", "delete"}

\* What user u has done by the step its call is at.
StepsOf(u) ==
    /\ pc[u] \in {"ref", "secret", "undo", "publish"} => arg[u].id \in Accounts
    /\ pc[u] \in {"secret", "undo", "publish"} => arg[u].id \in Refs
    /\ pc[u] = "publish" => arg[u].id \in secrets
    /\ pc[u] \in {"delete", "clear"} => arg[u].id \notin secrets \ stuck
    /\ pc[u] = "clear" => arg[u].id \notin Accounts

UsersInv ==
    /\ General /\ NoStrandedSecret /\ SessionHasAccount /\ AgreeInv
    /\ \A u \in Users : StepsOf(u)

\* The call of user c is about account id, if c is in a call, and no other is.
About(c, id) ==
    /\ pc[c] # "idle" => arg[c].id = id
    /\ \A u \in Users \ {c} : pc[u] # "idle" => arg[u].id # id

\* What UsersInv says of account id while the call of c is about it.
AccountInv(c, id) ==
    /\ StepsOf(c)
    /\ id \in secrets => id \in Accounts \cup stuck
    /\ ~Between(c) /\ id \notin cut \cup stuck => (id \in Refs <=> id \in secrets)

\* A step of c that changes nothing but what is stored for account id.
TouchesOnly(c, id) ==
    /\ \E step \in Steps : Goto(c, step)
    /\ \A u \in Users \ {c} : arg'[u] = arg[u]
    /\ Accounts' \ {id} = Accounts \ {id} /\ Refs' \ {id} = Refs \ {id}
    /\ secrets' \ {id} = secrets \ {id} /\ stuck' \ {id} = stuck \ {id}
    /\ cut' \ {id} = cut \ {id}

LEMMA HalfOfOne ==
    ASSUME NEW c PROVE HalfDone({c}) = IF Between(c) THEN {arg[c].id} ELSE {}
BY DEF HalfDone, Between

LEMMA HalfElsewhere ==
    ASSUME NEW c \in Users, NEW id, About(c, id)
    PROVE  id \in HalfDone(Users) <=> Between(c)
BY DEF HalfDone, Between, About

LEMMA AccountOfCall ==
    ASSUME UsersInv, NEW c \in Users, NEW id \in AccountIds, About(c, id)
    PROVE  AccountInv(c, id)
BY HalfElsewhere DEF UsersInv, AccountInv, NoStrandedSecret, AgreeInv, Accounts, Refs

LEMMA CallOfOne ==
    ASSUME AccountsApart, NEW c \in Users, pc[c] # "idle"
    PROVE  About(c, arg[c].id)
BY DEF AccountsApart, About

\* A step of one user keeps the invariant when it keeps what it says of the
\* account that the call is about.
LEMMA StepOfOne ==
    ASSUME UsersInv, General', NEW c \in Users, NEW id \in AccountIds,
           About(c, id), About(c, id)', TouchesOnly(c, id), AccountInv(c, id)', SessionHasAccount'
    PROVE  UsersInv'
<1>1. pc \in [Callers -> Steps] /\ Users \subseteq Callers
  BY GeneralParts DEF UsersInv, CallsOK, Callers
<1>2. \A u \in Users \ {c} : pc'[u] = pc[u] /\ arg'[u] = arg[u]
  BY <1>1 DEF TouchesOnly, Goto
<1>3. ASSUME NEW u \in Users PROVE StepsOf(u)'
  <2>1. CASE u = c
    BY <2>1 DEF AccountInv
  <2>2. CASE u # c
    <3>1. StepsOf(u) /\ pc'[u] = pc[u] /\ arg'[u] = arg[u] /\ (pc[u] # "idle" => arg[u].id # id)
      BY <1>2, <2>2 DEF UsersInv, About
    <3>2. CASE pc[u] = "idle"
      BY <3>1, <3>2 DEF StepsOf
    <3>3. CASE pc[u] # "idle"
      BY <3>1, <3>3 DEF StepsOf, TouchesOnly
    <3> QED
      BY <3>2, <3>3
  <2> QED
    BY <2>1, <2>2
<1>4. NoStrandedSecret'
  BY DEF UsersInv, NoStrandedSecret, TouchesOnly, AccountInv, Accounts
<1>5. ASSUME NEW k \in AccountIds \ {id}, k \in HalfDone(Users) PROVE k \in HalfDone(Users)'
  <2>1. PICK u \in Users : pc[u] \in {"secret", "undo", "delete"} /\ arg[u].id = k
    BY <1>5 DEF HalfDone
  <2>2. u # c
    BY <2>1 DEF About
  <2> QED
    BY <1>2, <2>1, <2>2 DEF HalfDone
<1>6. ASSUME NEW k \in AccountIds, k \notin (cut \cup stuck \cup HalfDone(Users))'
      PROVE  (k \in Refs <=> k \in secrets)'
  <2>1. CASE k = id
    <3>1. ~Between(c)'
      BY <1>6, <2>1 DEF HalfDone, Between, About
    <3> QED
      BY <1>6, <2>1, <3>1 DEF AccountInv
  <2>2. CASE k # id
    <3>1. k \notin cut \cup stuck \cup HalfDone(Users)
      BY <1>5, <1>6, <2>2 DEF TouchesOnly
    <3> QED
      BY <2>2, <3>1 DEF UsersInv, AgreeInv, TouchesOnly, Accounts, Refs
  <2> QED
    BY <2>1, <2>2
<1>7. AgreeInv'
  BY <1>6 DEF AgreeInv, Accounts, Refs
<1> QED
  BY <1>3, <1>4, <1>7 DEF UsersInv

\* The session survives a step that leaves it alone and removes no account.
LEMMA SessionStays ==
    ASSUME SessionHasAccount, CallsOK, NEW c \in Callers, pc[c] # "clear",
           NEW step \in Steps, Goto(c, step), session' = session, Accounts \subseteq Accounts'
    PROVE  SessionHasAccount'
BY DEF SessionHasAccount, CallsOK, Goto, Accounts, Callers

\* A call of user c goes on: AccountInv is what it relies on.
LEMMA CallGoing ==
    ASSUME UsersInv, AccountsApart, NEW c \in Users, pc[c] # "idle", UNCHANGED arg,
           NEW id, id = arg[c].id
    PROVE  /\ id \in AccountIds /\ About(c, id) /\ AccountInv(c, id)
           /\ (\E step \in Steps : Goto(c, step)) => About(c, id)'
<1>1. CallsOK /\ c \in Callers /\ Users \subseteq Callers
  BY GeneralParts DEF UsersInv, Callers
<1>2. id \in AccountIds /\ About(c, id)
  BY <1>1, CallerAccount, CallOfOne
<1>3. ASSUME NEW step \in Steps, Goto(c, step) PROVE About(c, id)'
  BY <1>1, <1>2, <1>3 DEF About, Goto, CallsOK
<1> QED
  BY <1>2, <1>3, AccountOfCall

\* A call of user c begins about account id.
LEMMA CallStarting ==
    ASSUME UsersInv, AccountsApart', NEW c \in Users, pc[c] = "idle",
           NEW id \in AccountIds, NEW account \in Account, account.id = id,
           arg' = [arg EXCEPT ![c] = account], NEW step \in Steps \ {"idle"}, Goto(c, step)
    PROVE  /\ About(c, id) /\ About(c, id)' /\ AccountInv(c, id)
           /\ \A u \in Users \ {c} : arg'[u] = arg[u]
<1>1. CallsOK /\ c \in Callers /\ Users \subseteq Callers
  BY GeneralParts DEF UsersInv, Callers
<1>2. /\ arg'[c] = account /\ pc'[c] = step
      /\ \A u \in Users \ {c} : arg'[u] = arg[u] /\ pc'[u] = pc[u]
  BY <1>1 DEF CallsOK, Goto
<1>3. About(c, id)'
  BY <1>2 DEF AccountsApart, About
<1>4. About(c, id)
  BY <1>2, <1>3 DEF About
<1> QED
  BY <1>2, <1>3, <1>4, AccountOfCall

LEMMA UserSteps ==
    ASSUME UsersInv, AccountsApart, AccountsApart', General',
           NEW c \in Users, SignIn(c) \/ SignOut(c)
    PROVE  UsersInv'
<1>1. /\ General /\ DatabaseOK /\ CallsOK /\ RestOK /\ SessionHasAccount
      /\ c \in Callers /\ Users \subseteq Callers
  BY GeneralParts DEF UsersInv, Callers
<1> PICK id : id = arg[c].id
  OBVIOUS
<1>2. ASSUME UNCHANGED db PROVE Accounts' = Accounts /\ Refs' = Refs
  BY <1>2 DEF Accounts, Refs
<1>3. ASSUME NEW step, Goto(c, step) PROVE pc'[c] = step
  BY <1>1, <1>3 DEF CallsOK, Goto
<1>4. CASE BeginSignIn(c)
  <2>1. PICK k \in GoogleIds, email \in Emails \cup {None}, first \in {FALSE, IsFirstAccount(db)} :
          arg' = [arg EXCEPT ![c] = [id |-> k, email |-> email, primary |-> first]]
    BY <1>4 DEF BeginSignIn
  <2>2. [id |-> k, email |-> email, primary |-> first] \in Account /\ k \in AccountIds
    <3>1. first \in BOOLEAN
      BY DEF IsFirstAccount
    <3> QED
      BY <3>1 DEF Account, AccountIds
  <2>3. /\ pc[c] = "idle" /\ Goto(c, "account") /\ UNCHANGED <<db, secrets, session, stuck, cut>>
        /\ Accounts' = Accounts /\ Refs' = Refs
    BY <1>2, <1>4 DEF BeginSignIn
  <2>4. /\ About(c, k) /\ About(c, k)' /\ AccountInv(c, k)
        /\ \A u \in Users \ {c} : arg'[u] = arg[u]
    BY <2>1, <2>2, <2>3, CallStarting DEF Steps
  <2>5. TouchesOnly(c, k)
    BY <2>3, <2>4 DEF TouchesOnly, Steps
  <2>6. AccountInv(c, k)'
    BY <1>3, <2>3, <2>4 DEF AccountInv, StepsOf, Between
  <2>7. SessionHasAccount'
    BY <1>1, <2>3, SessionStays DEF Steps
  <2> QED
    BY <2>2, <2>4, <2>5, <2>6, <2>7, StepOfOne
<1>5. CASE StoreAccount(c)
  <2>1. /\ pc[c] = "account" /\ Refs' = Refs /\ UNCHANGED <<secrets, session, up, arg, stuck>>
        /\ Goto(c, "ref") \/ Goto(c, "idle")
    BY <1>1, <1>5, StoreAccountEffect DEF StoreAccount, Goto
  <2>2. /\ id \in AccountIds /\ About(c, id) /\ AccountInv(c, id)
        /\ (\E step \in Steps : Goto(c, step)) /\ About(c, id)'
    BY <2>1, CallGoing DEF Steps
  <2>3. HalfDone({c}) = {}
    BY <2>1, HalfOfOne DEF Between
  <2>4. /\ cut' = cut
        /\ Accounts' = Accounts \cup {id} \/ (Accounts' = Accounts /\ Goto(c, "idle"))
    BY <1>1, <1>2, <1>5, <2>3, StoreAccountEffect
  <2>5. TouchesOnly(c, id)
    BY <2>1, <2>2, <2>4 DEF TouchesOnly
  <2>6. pc'[c] \in {"ref", "idle"} /\ (Accounts' = Accounts => pc'[c] = "idle" \/ id \in Accounts')
    BY <1>3, <2>1, <2>4
  <2>7. AccountInv(c, id)'
    BY <2>1, <2>2, <2>4, <2>6 DEF AccountInv, StepsOf, Between
  <2>8. SessionHasAccount'
    BY <1>1, <2>1, <2>4, SessionStays DEF Steps
  <2> QED
    BY <2>2, <2>5, <2>7, <2>8, StepOfOne
<1>6. CASE StoreRef(c)
  <2>1. pc[c] = "ref" /\ Accounts' = Accounts /\ UNCHANGED <<secrets, session, up, arg, stuck>>
    BY <1>1, <1>6, StoreRefEffect DEF StoreRef
  <2>2. HalfDone({c}) = {}
    BY <2>1, HalfOfOne DEF Between
  <2>3. /\ cut' = cut
        /\ \/ Refs' = Refs \cup {id} /\ Goto(c, "secret")
           \/ Refs' = Refs /\ Goto(c, "idle")
    BY <1>1, <1>6, <2>2, StoreRefEffect
  <2>4. /\ id \in AccountIds /\ About(c, id) /\ AccountInv(c, id)
        /\ (\E step \in Steps : Goto(c, step)) /\ About(c, id)'
    BY <2>1, <2>3, CallGoing DEF Steps
  <2>5. TouchesOnly(c, id)
    BY <2>1, <2>3, <2>4 DEF TouchesOnly
  <2>6. AccountInv(c, id)'
    BY <1>3, <2>1, <2>3, <2>4 DEF AccountInv, StepsOf, Between
  <2>7. SessionHasAccount'
    BY <1>1, <2>1, <2>3, SessionStays DEF Steps
  <2> QED
    BY <2>4, <2>5, <2>6, <2>7, StepOfOne
<1>7. CASE StoreSecret(c)
  <2>1. /\ pc[c] = "secret" /\ Accounts' = Accounts /\ Refs' = Refs
        /\ UNCHANGED <<session, up, arg, cut>>
        /\ \/ secrets' = secrets \cup {id} /\ stuck' = stuck \ {id} /\ Goto(c, "publish")
           \/ UNCHANGED <<secrets, stuck>> /\ Goto(c, "undo")
    BY <1>2, <1>7 DEF StoreSecret
  <2>2. /\ id \in AccountIds /\ About(c, id) /\ AccountInv(c, id)
        /\ (\E step \in Steps : Goto(c, step)) /\ About(c, id)'
    BY <2>1, CallGoing DEF Steps
  <2>3. TouchesOnly(c, id)
    BY <2>1, <2>2 DEF TouchesOnly
  <2>4. AccountInv(c, id)'
    BY <1>3, <2>1, <2>2 DEF AccountInv, StepsOf, Between
  <2>5. SessionHasAccount'
    BY <1>1, <2>1, SessionStays DEF Steps
  <2> QED
    BY <2>2, <2>3, <2>4, <2>5, StepOfOne
<1>8. CASE UndoRef(c)
  <2>1. /\ pc[c] = "undo" /\ Goto(c, "idle") /\ cut' = cut \cup {id}
        /\ UNCHANGED <<secrets, session, up, arg, stuck>>
    BY <1>8 DEF UndoRef
  <2>2. Accounts' = Accounts /\ Refs' \in {Refs, Refs \ {id}}
    BY <1>1, <1>8, UndoRefEffect
  <2>3. /\ id \in AccountIds /\ About(c, id) /\ AccountInv(c, id)
        /\ (\E step \in Steps : Goto(c, step)) /\ About(c, id)'
    BY <2>1, CallGoing DEF Steps
  <2>4. TouchesOnly(c, id)
    BY <2>1, <2>2, <2>3 DEF TouchesOnly
  <2>5. AccountInv(c, id)'
    BY <1>3, <2>1, <2>2, <2>3 DEF AccountInv, StepsOf, Between
  <2>6. SessionHasAccount'
    BY <1>1, <2>1, <2>2, SessionStays DEF Steps
  <2> QED
    BY <2>3, <2>4, <2>5, <2>6, StepOfOne
<1>9. CASE PublishState(c)
  <2>1. /\ pc[c] = "publish" /\ Goto(c, "idle") /\ session' = id /\ cut' = cut \ {id}
        /\ Accounts' = Accounts /\ Refs' = Refs /\ UNCHANGED <<secrets, up, arg, stuck>>
    BY <1>2, <1>9 DEF PublishState
  <2>2. /\ id \in AccountIds /\ About(c, id) /\ AccountInv(c, id)
        /\ (\E step \in Steps : Goto(c, step)) /\ About(c, id)'
    BY <2>1, CallGoing DEF Steps
  <2>3. id \in Accounts /\ id \in Refs /\ id \in secrets
    BY <2>1, <2>2 DEF AccountInv, StepsOf
  <2>4. TouchesOnly(c, id)
    BY <2>1, <2>2 DEF TouchesOnly
  <2>5. AccountInv(c, id)'
    BY <1>3, <2>1, <2>3 DEF AccountInv, StepsOf, Between
  <2>6. SessionHasAccount'
    BY <2>1, <2>3 DEF SessionHasAccount, Accounts
  <2> QED
    BY <2>2, <2>4, <2>5, <2>6, StepOfOne
<1>10. CASE DeleteSecret(c)
  <2>1. PICK k \in AccountIds :
          /\ arg' = [arg EXCEPT ![c] = Unknown(k)]
          /\ \/ secrets' = secrets \ {k} /\ stuck' = stuck \ {k}
             \/ k \in secrets /\ stuck' = stuck \cup {k} /\ UNCHANGED secrets
    BY <1>10 DEF DeleteSecret
  <2>2. /\ pc[c] = "idle" /\ Goto(c, "delete") /\ UNCHANGED <<session, up, cut>>
        /\ Accounts' = Accounts /\ Refs' = Refs
    BY <1>2, <1>10 DEF DeleteSecret
  <2>3. Unknown(k) \in Account /\ Unknown(k).id = k
    BY UnknownAccount DEF Unknown
  <2>4. /\ About(c, k) /\ About(c, k)' /\ AccountInv(c, k)
        /\ \A u \in Users \ {c} : arg'[u] = arg[u]
    BY <2>1, <2>2, <2>3, CallStarting DEF Steps
  <2>5. TouchesOnly(c, k)
    BY <2>1, <2>2, <2>4 DEF TouchesOnly, Steps
  <2>6. arg'[c].id = k /\ pc'[c] = "delete"
    BY <1>1, <1>3, <2>1, <2>2, <2>3 DEF CallsOK
  <2>7. AccountInv(c, k)'
    BY <2>1, <2>2, <2>4, <2>6 DEF AccountInv, StepsOf, Between
  <2>8. SessionHasAccount'
    BY <1>1, <2>2, SessionStays DEF Steps
  <2> QED
    BY <2>4, <2>5, <2>7, <2>8, StepOfOne
<1>11. CASE DeleteAccount(c)
  <2>1. pc[c] = "delete" /\ UNCHANGED <<secrets, session, up, arg, stuck>>
    BY <1>1, <1>11, DeleteAccountEffect DEF DeleteAccount
  <2>2. HalfDone({c}) = {id}
    BY <2>1, HalfOfOne DEF Between
  <2>3. \/ /\ Accounts' = Accounts \ {id} /\ Refs' = Refs \ {id}
           /\ cut' = cut /\ Goto(c, "clear")
        \/ Accounts' = Accounts /\ Refs' = Refs /\ cut' = cut \cup {id} /\ Goto(c, "idle")
    BY <1>1, <1>2, <1>11, <2>2, DeleteAccountEffect
  <2>4. /\ id \in AccountIds /\ About(c, id) /\ AccountInv(c, id)
        /\ (\E step \in Steps : Goto(c, step)) /\ About(c, id)'
    BY <2>1, <2>3, CallGoing DEF Steps
  <2>5. TouchesOnly(c, id)
    BY <2>1, <2>3, <2>4 DEF TouchesOnly
  <2>6. AccountInv(c, id)'
    BY <1>3, <2>1, <2>3, <2>4 DEF AccountInv, StepsOf, Between
  <2>7. CASE Goto(c, "clear")
    <3>1. SessionHasAccount'
      BY <1>3, <2>7 DEF SessionHasAccount
    <3> QED
      BY <2>4, <2>5, <2>6, <3>1, StepOfOne
  <2>8. CASE Accounts' = Accounts /\ Goto(c, "idle")
    <3>1. SessionHasAccount'
      BY <1>1, <2>1, <2>8, SessionStays DEF Steps
    <3> QED
      BY <2>4, <2>5, <2>6, <3>1, StepOfOne
  <2> QED
    BY <2>3, <2>7, <2>8
<1>12. CASE ClearState(c)
  <2>1. /\ pc[c] = "clear" /\ Goto(c, "idle") /\ session' = None /\ cut' = cut \ {id}
        /\ Accounts' = Accounts /\ Refs' = Refs /\ UNCHANGED <<secrets, up, arg, stuck>>
    BY <1>2, <1>12 DEF ClearState
  <2>2. /\ id \in AccountIds /\ About(c, id) /\ AccountInv(c, id)
        /\ (\E step \in Steps : Goto(c, step)) /\ About(c, id)'
    BY <2>1, CallGoing DEF Steps
  <2>3. TouchesOnly(c, id)
    BY <2>1, <2>2 DEF TouchesOnly
  <2>4. id \notin Refs /\ id \notin secrets \ stuck
    BY <1>1, <2>1, <2>2 DEF AccountInv, StepsOf, DatabaseOK, SignedOutStaysOut, Accounts, Refs
  <2>5. AccountInv(c, id)'
    BY <1>3, <2>1, <2>2, <2>4 DEF AccountInv, StepsOf, Between
  <2>6. SessionHasAccount'
    BY <2>1 DEF SessionHasAccount
  <2> QED
    BY <2>2, <2>3, <2>5, <2>6, StepOfOne
<1> QED
  BY <1>4, <1>5, <1>6, <1>7, <1>8, <1>9, <1>10, <1>11, <1>12 DEF SignIn, SignOut

LEMMA RefresherSteps ==
    ASSUME UsersInv, General', NEW c \in Refreshers, RefreshAccessToken(c)
    PROVE  UsersInv'
<1>1. /\ General /\ CallsOK /\ c \in Callers
      /\ \A u \in Users : u \in Callers /\ u # c
  BY GeneralParts, AuthServiceAssumption DEF UsersInv, Callers
<1>2. \A u \in Users : pc'[u] = pc[u] /\ arg'[u] = arg[u]
  BY <1>1 DEF RefreshAccessToken, ReadRef, ReadSecret, WriteRef, Goto, CallsOK
<1>3. HalfDone(Users)' = HalfDone(Users)
  BY <1>2 DEF HalfDone
<1>4. UNCHANGED <<secrets, session, stuck>>
  BY DEF RefreshAccessToken, ReadRef, ReadSecret, WriteRef
<1>5. CASE ReadRef(c) \/ ReadSecret(c)
  <2>1. UNCHANGED <<db, cut>>
    BY <1>5 DEF ReadRef, ReadSecret
  <2>2. \A u \in Users : StepsOf(u)'
    BY <1>2, <1>4, <2>1 DEF UsersInv, StepsOf, Accounts, Refs
  <2> QED
    BY <1>2, <1>3, <1>4, <2>1, <2>2 DEF UsersInv, NoStrandedSecret, SessionHasAccount, AgreeInv
<1>6. CASE WriteRef(c)
  <2>1. /\ Accounts' = Accounts
        /\ Refs' = Refs \/ Refs' = Refs \cup {arg[c].id}
        /\ cut' = IF arg[c].id \in Refs THEN cut ELSE cut \cup {arg[c].id}
    BY <1>1, <1>6, WriteRefEffect DEF WriteRef, Refs
  <2>2. \A u \in Users : StepsOf(u)'
    BY <1>2, <1>4, <2>1 DEF UsersInv, StepsOf
  <2>3. NoStrandedSecret' /\ SessionHasAccount'
    BY <1>2, <1>4, <2>1 DEF UsersInv, NoStrandedSecret, SessionHasAccount, Accounts
  <2>4. AgreeInv'
    BY <1>3, <1>4, <2>1 DEF UsersInv, AgreeInv, Refs
  <2> QED
    BY <2>2, <2>3, <2>4 DEF UsersInv
<1> QED
  BY <1>5, <1>6 DEF RefreshAccessToken

LEMMA UsersStep ==
    ASSUME UsersInv, AccountsApart, AccountsApart', [Next]_vars
    PROVE  UsersInv'
<1>1. General /\ General' /\ RestOK
  BY GeneralStep, GeneralParts DEF UsersInv
<1>2. CASE Crash
  <2>1. /\ \A u \in Users : pc'[u] = "idle"
        /\ session' = None /\ cut' = cut \cup HalfDone(Users) /\ UNCHANGED <<db, secrets, stuck>>
    BY <1>2 DEF Crash, Callers
  <2>2. (\A u \in Users : StepsOf(u)') /\ SessionHasAccount'
    BY <2>1 DEF StepsOf, SessionHasAccount
  <2>3. NoStrandedSecret' /\ AgreeInv'
    BY <2>1 DEF UsersInv, NoStrandedSecret, AgreeInv
  <2> QED
    BY <1>1, <2>2, <2>3 DEF UsersInv
<1>3. CASE Restart
  <2>1. UNCHANGED <<db, secrets, pc, arg, stuck, cut>>
    BY <1>3 DEF Restart
  <2>2. session' = None \/ session' \in Accounts
    BY <1>3 DEF Restart, ActiveAccount, Accounts
  <2>3. HalfDone(Users)' = HalfDone(Users) /\ \A u \in Users : StepsOf(u)'
    BY <2>1 DEF HalfDone, UsersInv, StepsOf, Accounts, Refs
  <2>4. NoStrandedSecret' /\ SessionHasAccount' /\ AgreeInv'
    BY <2>1, <2>2, <2>3 DEF UsersInv, NoStrandedSecret, SessionHasAccount, AgreeInv, Accounts
  <2> QED
    BY <1>1, <2>3, <2>4 DEF UsersInv
<1>4. CASE UNCHANGED vars
  <2>1. HalfDone(Users)' = HalfDone(Users) /\ \A u \in Users : StepsOf(u)'
    BY <1>4 DEF vars, HalfDone, UsersInv, StepsOf, Accounts, Refs
  <2> QED
    BY <1>1, <1>4, <2>1 DEF vars, UsersInv, NoStrandedSecret, SessionHasAccount, AgreeInv
<1> QED
  BY <1>1, <1>2, <1>3, <1>4, UserSteps, RefresherSteps DEF Next

LEMMA InitiallyUsers == ASSUME Init PROVE UsersInv
<1>1. General /\ Accounts = {DefaultAccount} /\ Refs = {}
  BY InitiallyGeneral, InitialDatabase DEF Init
<1>2. \A u \in Users : StepsOf(u)
  BY DEF Init, StepsOf, Callers
<1> QED
  BY <1>1, <1>2 DEF Init, UsersInv, NoStrandedSecret, SessionHasAccount, AgreeInv, Refs

LEMMA UsersInvariant == Spec /\ []AccountsApart => []UsersInv
<1>1. Init => UsersInv
  BY InitiallyUsers
<1>2. UsersInv /\ AccountsApart /\ AccountsApart' /\ [Next]_vars => UsersInv'
  BY UsersStep
<1> QED
  BY <1>1, <1>2, PTL DEF Spec

\* However the calls of any number of users, about different accounts,
\* interleave, fail and are cut off, a token in the keyring belongs to a known
\* account, unless the keyring refused to delete it.
THEOREM NothingStranded == Spec /\ []AccountsApart => []NoStrandedSecret
<1>1. UsersInv => NoStrandedSecret
  BY DEF UsersInv
<1> QED
  BY UsersInvariant, <1>1, PTL

\* With such users the session is an account of the database, although each
\* SignOut resets and each SignIn replaces what another one has set.
THEOREM SessionsAreKnown == Spec /\ []AccountsApart => []SessionHasAccount
<1>1. UsersInv => SessionHasAccount
  BY DEF UsersInv
<1> QED
  BY UsersInvariant, <1>1, PTL

\* With such users a sign-in that succeeds has stored everything it needs.
THEOREM SignInStoresAll == Spec /\ []AccountsApart => []SignInComplete
<1>1. UsersInv => SignInComplete
  BY DEF UsersInv, StepsOf, SignInComplete, Accounts, Refs
<1> QED
  BY UsersInvariant, <1>1, PTL

\* With such users database and keyring agree on who has a token, but for the
\* accounts of calls that were cut off, failed half way or were overtaken.
THEOREM StoresStayTogether == Spec /\ []AccountsApart => []StoresAgree
<1>1. UsersInv => StoresAgree
  BY DEF UsersInv, AgreeInv, HalfDone, StoresAgree
<1> QED
  BY UsersInvariant, <1>1, PTL

-----------------------------------------------------------------------------
(* Primary accounts, for any finite number of users, whose calls may overlap *)
(* in any way.                                                               *)

PrimaryInv == General /\ IsFiniteSet(PrimaryAccounts) /\ PrimariesCounted

\* What only takes primary accounts and marked users away keeps the count.
LEMMA NoMoreCounted ==
    ASSUME IsFiniteSet(Users), PrimaryInv, General',
           PrimaryAccounts' \subseteq PrimaryAccounts, Marked' \subseteq Marked
    PROVE  PrimaryInv'
<1>1. /\ IsFiniteSet(PrimaryAccounts') /\ IsFiniteSet(Marked) /\ IsFiniteSet(Marked')
      /\ Cardinality(PrimaryAccounts') <= Cardinality(PrimaryAccounts)
      /\ Cardinality(Marked') <= Cardinality(Marked)
  BY FS_Subset DEF PrimaryInv, Marked
<1>2. /\ Cardinality(PrimaryAccounts) \in Nat /\ Cardinality(PrimaryAccounts') \in Nat
      /\ Cardinality(Marked) \in Nat /\ Cardinality(Marked') \in Nat
      /\ Cardinality(Users) \in Nat
  BY <1>1, FS_CardinalityType DEF PrimaryInv
<1> QED
  BY <1>1, <1>2 DEF PrimaryInv, PrimariesCounted

LEMMA BeginSignInCounted ==
    ASSUME IsFiniteSet(Users), PrimaryInv, General', NEW c \in Users, BeginSignIn(c)
    PROVE  PrimaryInv'
<1>1. CallsOK /\ c \in Callers
  BY GeneralParts DEF PrimaryInv, Callers
<1>2. PICK id \in GoogleIds, email \in Emails \cup {None}, first \in {FALSE, IsFirstAccount(db)} :
        arg' = [arg EXCEPT ![c] = [id |-> id, email |-> email, primary |-> first]]
  BY DEF BeginSignIn
<1>3. arg'[c].primary = first /\ UNCHANGED db /\ pc[c] = "idle"
      /\ \A u \in Users \ {c} : pc'[u] = pc[u] /\ arg'[u] = arg[u]
  BY <1>1, <1>2 DEF BeginSignIn, Goto, CallsOK
<1>4. PrimaryAccounts' = PrimaryAccounts
  BY <1>3 DEF PrimaryAccounts
<1>5. CASE first
  <2>1. PrimaryAccounts' = {}
    BY <1>2, <1>4, <1>5 DEF IsFirstAccount, PrimaryAccounts
  <2>2. Cardinality(Marked') <= Cardinality(Users)
    BY FS_Subset DEF Marked
  <2>3. IsFiniteSet(PrimaryAccounts') /\ Cardinality(PrimaryAccounts') = 0
    BY <2>1, FS_EmptySet
  <2>4. Cardinality(Marked') \in Nat /\ Cardinality(Users) \in Nat
    BY FS_Subset, FS_CardinalityType DEF Marked
  <2> QED
    BY <2>2, <2>3, <2>4 DEF PrimaryInv, PrimariesCounted
<1>6. CASE ~first
  <2>1. Marked' \subseteq Marked
    BY <1>3, <1>6 DEF Marked
  <2> QED
    BY <1>4, <2>1, NoMoreCounted
<1> QED
  BY <1>5, <1>6

\* The marked user is one no more, and has made one primary account at most.
LEMMA StoreAccountCounted ==
    ASSUME IsFiniteSet(Users), PrimaryInv, General', NEW c \in Users, StoreAccount(c)
    PROVE  PrimaryInv'
<1>1. CallsOK /\ c \in Callers /\ General
  BY GeneralParts DEF PrimaryInv, Callers
<1>2. /\ pc[c] = "account" /\ UNCHANGED arg
      /\ \A u \in Users : pc'[u] = "account" => u # c /\ pc[u] = "account"
  <2>1. /\ pc[c] = "account" /\ UNCHANGED arg
        /\ pc' \in {[pc EXCEPT ![c] = "ref"], [pc EXCEPT ![c] = "idle"]}
    BY <1>1, StoreAccountEffect DEF StoreAccount
  <2> QED
    BY <1>1, <2>1 DEF CallsOK, Callers
<1>3. Marked' \subseteq Marked \ {c}
  BY <1>2 DEF Marked
<1>4. CASE db' = db
  BY <1>3, <1>4, NoMoreCounted DEF PrimaryAccounts
<1>5. CASE /\ Accounts' = Accounts \cup {arg[c].id}
           /\ db'.accounts[arg[c].id].primary = arg[c].primary
           /\ \A k \in Accounts \ {arg[c].id} : db'.accounts[k] = db.accounts[k]
  <2>1. CASE ~arg[c].primary
    <3>1. PrimaryAccounts' \subseteq PrimaryAccounts
      BY <1>5, <2>1 DEF PrimaryAccounts, Accounts
    <3> QED
      BY <1>3, <3>1, NoMoreCounted
  <2>2. CASE arg[c].primary
    <3>1. PrimaryAccounts' \subseteq PrimaryAccounts \cup {arg[c].id}
      BY <1>5 DEF PrimaryAccounts, Accounts
    <3>2. /\ IsFiniteSet(PrimaryAccounts')
          /\ Cardinality(PrimaryAccounts') <= Cardinality(PrimaryAccounts) + 1
      <4>1. /\ IsFiniteSet(PrimaryAccounts \cup {arg[c].id})
            /\ Cardinality(PrimaryAccounts \cup {arg[c].id}) \in
                 {Cardinality(PrimaryAccounts), Cardinality(PrimaryAccounts) + 1}
        BY FS_AddElement DEF PrimaryInv
      <4>2. /\ IsFiniteSet(PrimaryAccounts')
            /\ Cardinality(PrimaryAccounts') <= Cardinality(PrimaryAccounts \cup {arg[c].id})
        BY <3>1, <4>1, FS_Subset
      <4>3. Cardinality(PrimaryAccounts) \in Nat /\ Cardinality(PrimaryAccounts') \in Nat
        BY <4>2, FS_CardinalityType DEF PrimaryInv
      <4> QED
        BY <4>1, <4>2, <4>3
    <3>3. /\ IsFiniteSet(Marked) /\ IsFiniteSet(Marked')
          /\ Cardinality(Marked') + 1 <= Cardinality(Marked)
      <4>1. IsFiniteSet(Marked) /\ c \in Marked
        BY <1>2, <2>2, FS_Subset DEF Marked
      <4>2. IsFiniteSet(Marked \ {c}) /\ Cardinality(Marked \ {c}) = Cardinality(Marked) - 1
        BY <4>1, FS_RemoveElement
      <4>3. IsFiniteSet(Marked') /\ Cardinality(Marked') <= Cardinality(Marked \ {c})
        BY <1>3, <4>2, FS_Subset
      <4>4. Cardinality(Marked) \in Nat /\ Cardinality(Marked') \in Nat
        BY <4>1, <4>3, FS_CardinalityType
      <4> QED
        BY <4>1, <4>2, <4>3, <4>4
    <3>4. /\ Cardinality(PrimaryAccounts) \in Nat /\ Cardinality(PrimaryAccounts') \in Nat
          /\ Cardinality(Marked) \in Nat /\ Cardinality(Marked') \in Nat
          /\ Cardinality(Users) \in Nat
      BY <3>2, <3>3, FS_CardinalityType DEF PrimaryInv
    <3> QED
      BY <3>2, <3>3, <3>4 DEF PrimaryInv, PrimariesCounted
  <2> QED
    BY <2>1, <2>2
<1> QED
  BY <1>1, <1>4, <1>5, StoreAccountEffect

LEMMA PrimaryStep ==
    ASSUME IsFiniteSet(Users), PrimaryInv, [Next]_vars
    PROVE  PrimaryInv'
<1>1. /\ General /\ General' /\ CallsOK
      /\ \A u \in Users : u \in Callers /\ u \notin Refreshers
  BY GeneralStep, GeneralParts, AuthServiceAssumption DEF PrimaryInv, Callers
<1>2. ASSUME NEW c \in Users, BeginSignIn(c) PROVE PrimaryInv'
  BY <1>1, <1>2, BeginSignInCounted
<1>3. ASSUME NEW c \in Users, StoreAccount(c) PROVE PrimaryInv'
  BY <1>1, <1>3, StoreAccountCounted
\* Every other step adds no account and takes no call to storing one.
<1>4. ASSUME Accounts' \subseteq Accounts, \A k \in Accounts' : db'.accounts[k] = db.accounts[k],
             \A u \in Users : pc'[u] = "account" => pc[u] = "account" /\ arg'[u] = arg[u]
      PROVE  PrimaryInv'
  <2>1. PrimaryAccounts' \subseteq PrimaryAccounts
    BY <1>4 DEF PrimaryAccounts, Accounts
  <2>2. Marked' \subseteq Marked
    BY <1>4 DEF Marked
  <2> QED
    BY <1>1, <2>1, <2>2, NoMoreCounted
<1>5. ASSUME db'.accounts = db.accounts
      PROVE  Accounts' \subseteq Accounts /\ \A k \in Accounts' : db'.accounts[k] = db.accounts[k]
  BY <1>5 DEF Accounts
<1>6. ASSUME NEW c \in Callers, NEW step, step # "account", Goto(c, step),
             \A u \in Users \ {c} : arg'[u] = arg[u]
      PROVE  \A u \in Users : pc'[u] = "account" => pc[u] = "account" /\ arg'[u] = arg[u]
  BY <1>1, <1>6 DEF Goto, CallsOK
<1>7. ASSUME NEW c \in Users, StoreRef(c) \/ UndoRef(c) PROVE PrimaryInv'
  <2>1. db'.accounts = db.accounts
    BY <1>1, <1>7, StoreRefEffect, UndoRefEffect
  <2>2. UNCHANGED arg /\ (Goto(c, "secret") \/ Goto(c, "idle"))
    BY <1>1, <1>7, StoreRefEffect DEF UndoRef
  <2>3. \A u \in Users : pc'[u] = "account" => pc[u] = "account" /\ arg'[u] = arg[u]
    BY <1>1, <1>6, <2>2
  <2> QED
    BY <1>4, <1>5, <2>1, <2>3
<1>8. ASSUME NEW c \in Users, DeleteAccount(c) PROVE PrimaryInv'
  <2>1. UNCHANGED arg /\ (Goto(c, "clear") \/ Goto(c, "idle"))
    BY <1>1, <1>8, DeleteAccountEffect
  <2>2. \A u \in Users : pc'[u] = "account" => pc[u] = "account" /\ arg'[u] = arg[u]
    BY <1>1, <1>6, <2>1
  <2>3. Accounts' \subseteq Accounts /\ \A k \in Accounts' : db'.accounts[k] = db.accounts[k]
    BY <1>1, <1>8, DeleteAccountEffect DEF Accounts
  <2> QED
    BY <1>4, <2>2, <2>3
<1>9. ASSUME NEW c \in Users, StoreSecret(c) \/ PublishState(c) \/ DeleteSecret(c) \/ ClearState(c)
      PROVE  PrimaryInv'
  <2>1. PICK step \in {"publish", "undo", "idle", "delete"} : Goto(c, step)
    BY <1>9 DEF StoreSecret, PublishState, DeleteSecret, ClearState
  <2>2. db' = db /\ \A u \in Users \ {c} : arg'[u] = arg[u]
    BY <1>1, <1>9 DEF StoreSecret, PublishState, DeleteSecret, ClearState, CallsOK
  <2>3. \A u \in Users : pc'[u] = "account" => pc[u] = "account" /\ arg'[u] = arg[u]
    BY <1>1, <1>6, <2>1, <2>2
  <2> QED
    BY <1>4, <1>5, <2>2, <2>3
<1>10. ASSUME NEW c \in Refreshers, RefreshAccessToken(c) PROVE PrimaryInv'
  <2>1. db'.accounts = db.accounts
    BY <1>1, <1>10, WriteRefEffect DEF RefreshAccessToken, ReadRef, ReadSecret
  <2>2. \A u \in Users : pc'[u] = pc[u] /\ arg'[u] = arg[u]
    BY <1>1, <1>10 DEF RefreshAccessToken, ReadRef, ReadSecret, WriteRef, Goto, CallsOK
  <2> QED
    BY <1>4, <1>5, <2>1, <2>2
<1>11. CASE Crash \/ Restart \/ UNCHANGED vars
  <2>1. db' = db
    BY <1>11 DEF Crash, Restart, vars
  <2>2. \A u \in Users : pc'[u] = "account" => pc[u] = "account" /\ arg'[u] = arg[u]
    BY <1>1, <1>11 DEF Crash, Restart, vars
  <2> QED
    BY <1>4, <1>5, <2>1, <2>2
<1> QED
  BY <1>2, <1>3, <1>7, <1>8, <1>9, <1>10, <1>11 DEF Next, SignIn, SignOut

\* However many users sign in and out, and however their calls overlap, at most
\* one account for each of them is primary (auth.go:95: isFirstAccount is read
\* before the account is stored, and nothing keeps two sign-ins apart).
THEOREM PrimariesPerUser ==
    ASSUME IsFiniteSet(Users), Users # {}
    PROVE  Spec => []OnePrimaryPerUser
<1>1. Init => PrimaryInv
  <2>1. SUFFICES ASSUME Init PROVE PrimaryInv
    OBVIOUS
  <2>2. General /\ Accounts = {DefaultAccount} /\ \A u \in Users : pc[u] = "idle"
    BY <2>1, InitiallyGeneral, InitialDatabase DEF Init, Callers
  <2>3. PrimaryAccounts \subseteq {DefaultAccount} /\ Marked = {}
    BY <2>2 DEF PrimaryAccounts, Accounts, Marked
  <2>4. /\ IsFiniteSet(PrimaryAccounts) /\ Cardinality(PrimaryAccounts) \in Nat
        /\ Cardinality(PrimaryAccounts) <= 1
    <3>1. IsFiniteSet({DefaultAccount}) /\ Cardinality({DefaultAccount}) = 1
      BY FS_Singleton
    <3>2. IsFiniteSet(PrimaryAccounts) /\ Cardinality(PrimaryAccounts) <= 1
      BY <2>3, <3>1, FS_Subset
    <3> QED
      BY <3>2, FS_CardinalityType
  <2>5. Cardinality(Marked) = 0
    BY <2>3, FS_EmptySet
  <2>6. Cardinality(Users) \in Nat /\ Cardinality(Users) # 0
    BY FS_CardinalityType, FS_EmptySet
  <2> QED
    BY <2>2, <2>4, <2>5, <2>6 DEF PrimaryInv, PrimariesCounted
<1>2. PrimaryInv /\ [Next]_vars => PrimaryInv'
  BY PrimaryStep
<1>3. PrimaryInv => OnePrimaryPerUser
  <2>1. SUFFICES ASSUME PrimaryInv PROVE OnePrimaryPerUser
    OBVIOUS
  <2>2. IsFiniteSet(Marked)
    BY FS_Subset DEF Marked
  <2>3. /\ Cardinality(Marked) \in Nat /\ Cardinality(Users) \in Nat
        /\ Cardinality(PrimaryAccounts) \in Nat
    BY <2>1, <2>2, FS_CardinalityType DEF PrimaryInv
  <2> QED
    BY <2>1, <2>3 DEF PrimaryInv, PrimariesCounted, OnePrimaryPerUser
<1> QED
  BY <1>1, <1>2, <1>3, PTL DEF Spec

-----------------------------------------------------------------------------
\* One user asks for nothing: calls of one goroutine follow each other, and no
\* two accounts are primary.
THEOREM OneUserIsEnough ==
    ASSUME NEW u, Users = {u}
    PROVE  Spec => /\ []NoStrandedSecret /\ []SessionHasAccount /\ []SignInComplete
                   /\ []StoresAgree /\ [](Cardinality(PrimaryAccounts) <= 1)
<1>1. AccountsApart
  BY DEF AccountsApart
<1>2. []AccountsApart
  BY <1>1, PTL
<1>3. IsFiniteSet(Users) /\ Users # {} /\ Cardinality(Users) = 1
  BY FS_Singleton
<1>4. OnePrimaryPerUser => Cardinality(PrimaryAccounts) <= 1
  BY <1>3 DEF OnePrimaryPerUser
<1>5. Spec => []OnePrimaryPerUser
  BY <1>3, PrimariesPerUser
<1> QED
  BY <1>2, <1>4, <1>5, NothingStranded, SessionsAreKnown, SignInStoresAll, StoresStayTogether, PTL
=============================================================================
