---------------------------- MODULE AuthService ----------------------------
(* internal/auth/auth.go: signing in and out and refreshing tokens, over two *)
(* stores that share no transaction, the metadata database and the desktop   *)
(* keyring, while the process may end between any two steps.                 *)
(*                                                                           *)
(* A user of the client signs in or out, one thing at a time; background     *)
(* work refreshes tokens meanwhile.  A call that fails before its first step *)
(* that others can see (no client id, OAuth refused) changes nothing and is  *)
(* no action.  A statement or a keyring call may fail at any time.           *)
EXTENDS MetaTables, FiniteSets, Naturals

CONSTANTS
    GoogleIds,  \* "sub" claims of the accounts people sign in with
    Emails,     \* their addresses; a claim without one is None
    Users,      \* goroutines that sign in and out
    Refreshers  \* goroutines that refresh tokens

Callers    == Users \cup Refreshers
AccountIds == GoogleIds \cup {DefaultAccount}

ASSUME AuthServiceAssumption ==
    /\ DefaultAccount \notin GoogleIds /\ DefaultEmail \notin Emails
    /\ None \notin AccountIds \cup Emails \cup {DefaultEmail}
    /\ Users \cap Refreshers = {}

VARIABLES
    db,         \* the database file
    secrets,    \* the accounts with a refresh token in the keyring
    session,    \* Service.state: the account signed in, or None
    up,         \* the daemon runs
    pc,         \* per caller, the step its call is at
    arg,        \* per caller, the account its call is about
    stuck,      \* ghost: accounts whose secret the keyring failed to delete
    cut         \* ghost: accounts a call left half stored or half removed

vars == <<db, secrets, session, up, pc, arg, stuck, cut>>

PrimaryAccounts == {id \in DOMAIN db.accounts : db.accounts[id].primary}

Account == [id : AccountIds, email : Emails \cup {None}, primary : BOOLEAN]
Unknown(id) == [id |-> id, email |-> None, primary |-> FALSE]

Init ==
    /\ db = Migrated(<<>>) /\ secrets = {} /\ session = None
    /\ up = TRUE
    /\ pc = [c \in Callers |-> "idle"] /\ arg = [c \in Callers |-> None]
    /\ stuck = {} /\ cut = {}

Goto(c, step) == pc' = [pc EXCEPT ![c] = step]

\* Accounts whose reference is stored and token not yet, or the reverse.
HalfDone(callers) == {arg[c].id : c \in {d \in callers : pc[d] \in {"secret", "undo", "delete"}}}

\* A statement that takes the database to result, or fails and ends the call.
Statement(c, refused, result, step) ==
    /\ \/ ~refused /\ db' = result /\ Goto(c, step) /\ UNCHANGED cut
       \/ UNCHANGED db /\ Goto(c, "idle") /\ cut' = cut \cup HalfDone({c})
    /\ UNCHANGED <<secrets, session, up, arg, stuck>>

-----------------------------------------------------------------------------
(* SignIn: one action per effect, in the order of the code.                  *)

\* Mutant: the seeded account does not count.
IsFirstAccountOfGoogle(tables) == DOMAIN tables.accounts \subseteq {DefaultAccount}

IsFirstAccount(tables) == DOMAIN tables.accounts = {}

\* The OAuth flow has returned a token and claims; ListAccounts may fail.
BeginSignIn(c) ==
    /\ up /\ pc[c] = "idle"
    /\ \E id \in GoogleIds, email \in Emails \cup {None}, first \in {FALSE, IsFirstAccount(db)} :
         arg' = [arg EXCEPT ![c] = [id |-> id, email |-> email, primary |-> first]]
    /\ Goto(c, "account")
    /\ UNCHANGED <<db, secrets, session, up, stuck, cut>>

\* Mutant: an empty address is not refused.
ValidAlways(account) == TRUE

\* UpsertAccount wants an address.
Valid(account) == account.email # None

\* Without a refresh token SignIn ends here, the account stored.
StoreAccount(c) ==
    /\ pc[c] = "account"
    /\ LET id  == arg[c].id
           row == [email |-> arg[c].email, primary |-> arg[c].primary, created |-> 0]
       IN  \E step \in {"ref", "idle"} :
             Statement(c, ~Valid(arg[c]) \/ Refused(db, "accounts", id, row),
                       Put(db, "accounts", id, row), step)

StoreRef(c) ==
    /\ pc[c] = "ref"
    /\ LET id == arg[c].id
           row == [account |-> id]
       IN  Statement(c, Refused(db, "token_refs", id, row), Put(db, "token_refs", id, row), "secret")

\* Mutant: an error of the keyring goes unnoticed.
StoreSecretUnchecked(c) ==
    /\ pc[c] = "secret"
    /\ \/ secrets' = secrets \cup {arg[c].id} /\ stuck' = stuck \ {arg[c].id}
       \/ UNCHANGED <<secrets, stuck>>
    /\ Goto(c, "publish")
    /\ UNCHANGED <<db, session, up, arg, cut>>

StoreSecret(c) ==
    /\ pc[c] = "secret"
    /\ \/ /\ secrets' = secrets \cup {arg[c].id} /\ stuck' = stuck \ {arg[c].id}
          /\ Goto(c, "publish")
       \/ UNCHANGED <<secrets, stuck>> /\ Goto(c, "undo")
    /\ UNCHANGED <<db, session, up, arg, cut>>

\* The keyring refused the token: the reference goes, errors are ignored.
UndoRef(c) ==
    /\ pc[c] = "undo"
    /\ db' \in {db, Drop(db, "token_refs", arg[c].id)}
    /\ Goto(c, "idle")
    /\ cut' = cut \cup {arg[c].id}
    /\ UNCHANGED <<secrets, session, up, arg, stuck>>

PublishState(c) ==
    /\ pc[c] = "publish"
    /\ session' = arg[c].id
    /\ Goto(c, "idle")
    /\ cut' = cut \ {arg[c].id}
    /\ UNCHANGED <<db, secrets, up, arg, stuck>>

-----------------------------------------------------------------------------
(* SignOut.                                                                  *)

\* Mutant: only the secret of the account that is signed in is deleted.
DeleteSecretOfSession(c) ==
    /\ up /\ pc[c] = "idle"
    /\ \E id \in AccountIds :
         /\ arg' = [arg EXCEPT ![c] = Unknown(id)]
         /\ secrets' = IF id = session THEN secrets \ {id} ELSE secrets
    /\ Goto(c, "delete")
    /\ UNCHANGED <<db, session, up, stuck, cut>>

\* An error of the keyring is ignored.
DeleteSecret(c) ==
    /\ up /\ pc[c] = "idle"
    /\ \E id \in AccountIds :
         /\ arg' = [arg EXCEPT ![c] = Unknown(id)]
         /\ \/ secrets' = secrets \ {id} /\ stuck' = stuck \ {id}
            \/ id \in secrets /\ stuck' = stuck \cup {id} /\ UNCHANGED secrets
    /\ Goto(c, "delete")
    /\ UNCHANGED <<db, session, up, cut>>

DeleteAccount(c) ==
    /\ pc[c] = "delete"
    /\ Statement(c, FALSE, DropAccount(db, arg[c].id), "clear")

\* Mutant: the state is not reset.
ClearStateForgotten(c) ==
    /\ pc[c] = "clear"
    /\ Goto(c, "idle")
    /\ UNCHANGED <<db, secrets, session, up, arg, stuck, cut>>

\* The state is reset whichever account was signed in.
ClearState(c) ==
    /\ pc[c] = "clear"
    /\ session' = None
    /\ Goto(c, "idle")
    /\ cut' = cut \ {arg[c].id}
    /\ UNCHANGED <<db, secrets, up, arg, stuck>>

-----------------------------------------------------------------------------
(* RefreshAccessToken.                                                       *)

\* Without a reference the call fails.
ReadRef(c) ==
    /\ up /\ pc[c] = "idle"
    /\ \E id \in DOMAIN db.token_refs : arg' = [arg EXCEPT ![c] = Unknown(id)]
    /\ Goto(c, "read")
    /\ UNCHANGED <<db, secrets, session, up, stuck, cut>>

\* The token source is asked with what the keyring holds; either may fail.
ReadSecret(c) ==
    /\ pc[c] = "read"
    /\ \/ arg[c].id \in secrets /\ Goto(c, "write")
       \/ Goto(c, "idle")
    /\ UNCHANGED <<db, secrets, session, up, arg, stuck, cut>>

\* The reference read before is stored again, also when it is gone by now; an
\* error is only logged.
WriteRef(c) ==
    /\ pc[c] = "write"
    /\ db' \in {db, Put(db, "token_refs", arg[c].id, [account |-> arg[c].id])}
    /\ Goto(c, "idle")
    /\ cut' = IF arg[c].id \in DOMAIN db.token_refs THEN cut ELSE cut \cup {arg[c].id}
    /\ UNCHANGED <<secrets, session, up, arg, stuck>>

-----------------------------------------------------------------------------
(* The process ends, wherever its calls are, and starts again.               *)

Crash ==
    /\ up /\ up' = FALSE
    /\ session' = None
    /\ pc' = [c \in Callers |-> "idle"] /\ arg' = [c \in Callers |-> None]
    /\ cut' = cut \cup HalfDone(Users)
    /\ UNCHANGED <<db, secrets, stuck>>

\* findActiveAccount: a primary account with a token reference, or else the
\* first with one (any, here: ListAccounts sorts by a time in seconds).
ActiveAccount(refs) ==
    LET candidates == refs \cap DOMAIN db.accounts
        primaries  == {id \in candidates : db.accounts[id].primary}
    IN  IF candidates = {} THEN {None} ELSE IF primaries # {} THEN primaries ELSE candidates

\* NewService.  A reference that cannot be read is passed over.
Restart ==
    /\ ~up /\ up' = TRUE
    /\ \E refs \in SUBSET DOMAIN db.token_refs : session' \in ActiveAccount(refs)
    /\ UNCHANGED <<db, secrets, pc, arg, stuck, cut>>

SignIn(c) ==
    \/ BeginSignIn(c) \/ StoreAccount(c) \/ StoreRef(c)
    \/ StoreSecret(c) \/ UndoRef(c) \/ PublishState(c)
SignOut(c) == DeleteSecret(c) \/ DeleteAccount(c) \/ ClearState(c)
RefreshAccessToken(c) == ReadRef(c) \/ ReadSecret(c) \/ WriteRef(c)

Next ==
    \/ \E c \in Users : SignIn(c) \/ SignOut(c)
    \/ \E c \in Refreshers : RefreshAccessToken(c)
    \/ Crash \/ Restart

Spec == Init /\ [][Next]_vars

-----------------------------------------------------------------------------
TypeOK ==
    /\ DOMAIN db.accounts \subseteq AccountIds
    /\ \A id \in DOMAIN db.accounts :
         db.accounts[id] \in [email : Emails \cup {DefaultEmail}, primary : BOOLEAN, created : {0}]
    /\ DOMAIN db.token_refs \subseteq AccountIds
    /\ \A id \in DOMAIN db.token_refs : db.token_refs[id].account = id
    /\ secrets \subseteq AccountIds /\ stuck \subseteq secrets /\ cut \subseteq AccountIds
    /\ session \in AccountIds \cup {None} /\ up \in BOOLEAN
    /\ pc \in [Callers -> {"idle", "account", "ref", "secret", "undo", "publish",
                           "delete", "clear", "read", "write"}]
    /\ arg \in [Callers -> Account \cup {None}]
    /\ \A c \in Callers : pc[c] # "idle" => arg[c] \in Account

\* No refresh token is left in the keyring for an account the client no longer
\* knows, wherever a sign-in or a sign-out failed or was cut off, unless the
\* keyring itself refused to delete it (SignOut deletes the token first,
\* SignIn stores it last).
NoStrandedSecret == secrets \subseteq DOMAIN db.accounts \cup stuck

\* The daemon never says an account is signed in that the database no longer
\* holds, but for the moment SignOut needs to reset the state.
SessionHasAccount ==
    session # None /\ (\A u \in Users : pc[u] # "clear") => session \in DOMAIN db.accounts

\* When SignIn is about to report success, account, reference and token are
\* all stored, whatever refreshes ran in between.
SignInComplete ==
    \A u \in Users : pc[u] = "publish" =>
        arg[u].id \in DOMAIN db.accounts \cap DOMAIN db.token_refs \cap secrets

\* isFirstAccount is read before the account is stored, so sign-ins that overlap
\* may each believe to be the first.  However they do, and whatever is signed out
\* meanwhile, there is at most one primary account for each user that signs in:
\* one user alone makes no second one, by no sequence of calls.
OnePrimaryPerUser == Cardinality(PrimaryAccounts) <= Cardinality(Users)

\* While nobody signs in or out, an account has a token reference exactly when
\* it has a token, unless a call was cut off or failed half way (the undo of a
\* failed sign-in also takes the reference of an older one), or a refresh that
\* overlapped them stored the reference again.
StoresAgree ==
    (\A u \in Users : pc[u] = "idle") =>
        \A id \in AccountIds \ (cut \cup stuck) :
            id \in DOMAIN db.token_refs <=> id \in secrets

-----------------------------------------------------------------------------
(* What users who call at the same time must leave to each other, for all of *)
(* these properties but the types and OnePrimaryPerUser to hold.  The code   *)
(* has no lock that would see to it; one user does.                          *)

\* Calls under way at the same time are about different accounts.
AccountsApart ==
    \A u, v \in Users : u # v /\ pc[u] # "idle" /\ pc[v] # "idle" => arg[u].id # arg[v].id

-----------------------------------------------------------------------------
(* The inductive invariant behind these properties.                          *)

\* A refresh that was under way while its account was signed out does not
\* bring the reference back, so no restart signs the account in again.
SignedOutStaysOut == DOMAIN db.token_refs \subseteq DOMAIN db.accounts

\* Sign-ins that found no account and are about to store theirs as primary.
Marked == {u \in Users : pc[u] = "account" /\ arg[u].primary}

\* There was no account, hence no primary one, when the last of them began, and
\* each that is stored makes one primary account out of one marked user.
PrimariesCounted ==
    Cardinality(PrimaryAccounts) + Cardinality(Marked) <= Cardinality(Users)

\* Reference and token go together but for the calls that are between the two.
AgreeInv ==
    \A id \in AccountIds \ (cut \cup stuck \cup HalfDone(Users)) :
        id \in DOMAIN db.token_refs <=> id \in secrets
=============================================================================
