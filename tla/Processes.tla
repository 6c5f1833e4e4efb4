----------------------------- MODULE Processes -----------------------------
(* The processes of one user: daemons and a status program, which share the  *)
(* sources of their configuration, and through them the socket path.         *)
EXTENDS DaemonRun, Config

CONSTANTS MaxRefreshes, MaxVersions     \* bounds

ASSUME ProcessesAssumption == MaxRefreshes \in Nat /\ MaxVersions \in Nat

VARIABLES
    socket,     \* where the daemons listen
    polled,     \* where the status program polls
    version, chain, view, refreshes, quitting

\* The file, the environment and the flag that both are started with.
Sources == [file : Optional(Texts), env : Optional(Texts), option : Optional(Texts)]

Resolve(s) ==
    /\ socket = NewConfigWithOptions("SocketPath", s.file, s.env, s.option)
    /\ polled = PollSocket(s.env, NewConfigWithOptions("SocketPath", s.file, s.env, s.option))

ReachableDaemons == {d \in Daemons : Reachable(d)}

Tui == INSTANCE StatusTui WITH reachable <- polled = socket /\ ReachableDaemons # {}

paths == <<socket, polled>>
tuiVars == <<chain, view, refreshes, quitting>>
vars == <<daemonVars, paths, version, tuiVars>>

Init == RunInit /\ (\E s \in Sources : Resolve(s)) /\ version = 0 /\ Tui!TuiInit

\* Watcher or engine changes the status.
StatusChanges ==
    /\ version < MaxVersions /\ version' = version + 1
    /\ UNCHANGED <<daemonVars, paths, tuiVars>>

Next ==
    \/ DaemonNext /\ UNCHANGED <<paths, version, tuiVars>>
    \/ StatusChanges
    \/ Tui!TuiNext /\ UNCHANGED <<daemonVars, paths, version>>

Spec == Init /\ [][Next]_vars

\* The chains of the status program run on; nobody presses a key.
ChainGoesOn(c) == Tui!ChainStep(c) /\ UNCHANGED <<daemonVars, paths, version>>
ChainFair(c) == WF_vars(ChainGoesOn(c))
Fairness == DaemonFairness /\ \A c \in Tui!Chains : ChainFair(c)

FairSpec == Spec /\ Fairness

\* Whatever file, environment and flag a daemon and a status program share, the
\* program polls at the socket on which the daemon listens, although every poll
\* resolves its socket path again and without the file.
PollsMeetDaemon == socket \in Texts /\ polled = socket

\* The first chain of polls and answers ends with the program only: each message
\* starts the command that brings the next one.
PollingGoesOn ==
    quitting \/ (chain[0].at # "none" /\ ENABLED <<ChainGoesOn(0)>>_vars)

\* When a daemon is reachable from some moment on, the error of the polls that
\* failed before is replaced, without a key being pressed.
ErrorGoesAway ==
    <>[](ReachableDaemons # {}) => <>[](view.at = "status" \/ quitting)

\* As long as nobody asks for a refresh, no answer is overtaken by an older
\* one: a status shown is no older than any shown before it, also when errors
\* were shown or the daemon was started again in between.
ShownNeverGoesBack == [][refreshes' = 0 => view'.seen >= view.seen]_vars

-----------------------------------------------------------------------------
(* The inductive invariant behind ShownNeverGoesBack.                        *)
TuiTypes ==
    /\ version \in Nat /\ refreshes \in Nat
    /\ chain \in [Tui!Chains -> [at : {"none", "poll", "status", "error", "tick"}, seen : Nat]]
    /\ view \in [at : {"loading", "status", "error"}, seen : Nat]

\* Before the first refresh only the chain of Init runs, and the answer it
\* carries is no older than what is shown.
OneChainInOrder ==
    refreshes = 0 =>
        /\ \A c \in Tui!Chains \ {0} : chain[c].at = "none"
        /\ view.seen <= version /\ chain[0].seen <= version
        /\ chain[0].at = "status" => view.seen <= chain[0].seen
=============================================================================
