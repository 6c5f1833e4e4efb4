----------------------------- MODULE DaemonRun -----------------------------
(* internal/daemon/daemon.go and runDaemon of main.go: what a daemon process *)
(* does around its server, from its start to its end.  The event path that   *)
(* Run also starts and cancels is EventPipeline.                             *)
EXTENDS IpcServer, Naturals

CONSTANT MaxStarts  \* bound: daemons started in a behaviour

ASSUME DaemonRunAssumption == MaxStarts \in Nat

VARIABLES
    main,       \* per daemon, the step Run is at
    outcome,    \* per daemon, how its last run ended
    starts,
    alone,      \* ghost: daemons that met no other one since their start
    early       \* ghost: daemons signalled before their server accepted

runVars == <<main, outcome, starts, alone, early>>
daemonVars == <<ipcVars, runVars>>

Up(d) == main[d] # "off"
Goto(d, from, to) == main[d] = from /\ main' = [main EXCEPT ![d] = to]

RunInit ==
    /\ IpcInit
    /\ main = [d \in Daemons |-> "off"] /\ outcome = [d \in Daemons |-> "none"]
    /\ starts = 0 /\ alone = {} /\ early = {}

\* A new process: engine, watcher and forwarder are started, then the server.
StartDaemon(d) ==
    LET others == {e \in Daemons : Up(e)}
    IN  /\ starts < MaxStarts /\ starts' = starts + 1
        /\ Goto(d, "off", "select")
        /\ spc' = [spc EXCEPT ![d] = "prepare"]
        /\ outcome' = [outcome EXCEPT ![d] = "none"]
        /\ alone' = IF others = {} THEN alone \cup {d} ELSE alone \ others
        /\ early' = early \ {d}
        /\ UNCHANGED <<path, open, serve, assigned, quit, stream, signalled>>

\* SIGINT or SIGTERM.
Signal(d) ==
    /\ Up(d) /\ d \notin signalled
    /\ signalled' = signalled \cup {d}
    /\ early' = IF serve[d] \in {"accepting", "broken"} THEN early ELSE early \cup {d}
    /\ UNCHANGED <<path, open, spc, serve, assigned, quit, stream, main, outcome, starts, alone>>

\* Mutant: Run leaves the server to Start.
SelectDoneUnstopped(d) ==
    /\ d \in signalled /\ Goto(d, "select", "close")
    /\ UNCHANGED <<ipcVars, outcome, starts, alone, early>>

SelectDone(d) ==
    /\ d \in signalled /\ Goto(d, "select", "stop")
    /\ UNCHANGED <<ipcVars, outcome, starts, alone, early>>

BeginStop(d) ==
    /\ Goto(d, "stop", "stopping")
    /\ StopServer(d)
    /\ UNCHANGED <<outcome, starts, alone, early>>

\* Mutant: Run returns without Close.
EndStopReturns(d) ==
    /\ Goto(d, "stopping", "off")
    /\ StopListener(d)
    /\ UNCHANGED <<outcome, starts, alone, early>>

EndStop(d) ==
    /\ Goto(d, "stopping", "close")
    /\ StopListener(d)
    /\ UNCHANGED <<outcome, starts, alone, early>>

\* The process is gone, with its listener and its streams; the file stays.
End(d, from, how) ==
    /\ Goto(d, from, "off")
    /\ outcome' = [outcome EXCEPT ![d] = how]
    /\ open' = open \ {d} /\ quit' = quit \ {d} /\ signalled' = signalled \ {d}
    /\ alone' = alone \ {d}
    /\ serve' = [serve EXCEPT ![d] = "idle"]
    /\ assigned' = [assigned EXCEPT ![d] = "nothing"]
    /\ stream' = [c \in Streamers |-> IF stream[c] = d THEN None ELSE stream[c]]
    /\ UNCHANGED <<path, spc, starts, early>>

\* An error of Start ends Run with nothing closed.
ServerFailed(d) ==
    spc[d] \in {"failed", "clash", "error", "broken"} /\ End(d, "select", "unclosed")

ServerEnded(d) ==
    /\ spc[d] = "nil" /\ Goto(d, "select", "close")
    /\ UNCHANGED <<ipcVars, outcome, starts, alone, early>>

\* Close: watcher and database; runDaemon returns.
CloseAll(d) == End(d, "close", "closed")

RunStep(d) ==
    \/ SelectDone(d) \/ BeginStop(d) \/ EndStop(d)
    \/ ServerFailed(d) \/ ServerEnded(d) \/ CloseAll(d)

Kill(d) == Up(d) /\ End(d, main[d], "killed")

\* The server of a process loses its listener.
Breaks(d) == Up(d) /\ AcceptFails(d) /\ UNCHANGED runVars

\* Start, and what it has started.
StartRunsOn(d) == Up(d) /\ ServerStep(d) /\ UNCHANGED runVars

DaemonStep(d) == RunStep(d) \/ StartRunsOn(d)

DaemonNext ==
    \/ \E d \in Daemons : DaemonStep(d) \/ StartDaemon(d) \/ Signal(d) \/ Kill(d) \/ Breaks(d)
    \/ \E c \in Streamers : (WatchStatus(c) \/ Disconnect(c)) /\ UNCHANGED runVars

\* The goroutines of a process run on.  Nobody has to start, signal or kill a
\* daemon, nor has a client to end its stream.
RunsOn(d) == WF_daemonVars(RunStep(d)) /\ WF_daemonVars(StartRunsOn(d))
DaemonFairness == \A d \in Daemons : RunsOn(d)

DaemonSpec == RunInit /\ [][DaemonNext]_daemonVars
FairDaemonSpec == DaemonSpec /\ DaemonFairness

\* Run has been told to end, or is on its way to the end.
Ending(d) == Up(d) /\ (d \in signalled \/ main[d] # "select")

\* grpcServer.Stop has told Serve to stop and waits for it.
AwaitsServe(d) == main[d] = "stopping" /\ serve[d] = "accepting" /\ d \in quit

-----------------------------------------------------------------------------
TypeOK ==
    /\ path \in Daemons \cup {None}
    /\ open \subseteq {d \in Daemons : Up(d)}
    /\ quit \subseteq Daemons /\ signalled \subseteq Daemons
    /\ spc \in [Daemons -> {"idle", "prepare", "listen", "register", "select", "draining",
                            "failed", "clash", "nil", "error", "broken"}]
    /\ serve \in [Daemons -> {"idle", "begin", "accepting", "nil", "error", "broken"}]
    /\ assigned \in [Daemons -> {"nothing", "listener", "server"}]
    /\ stream \in [Streamers -> {d \in Daemons : Up(d)} \cup {None}]
    /\ main \in [Daemons -> {"off", "select", "stop", "stopping", "close"}]
    /\ outcome \in [Daemons -> {"none", "unclosed", "closed", "killed"}]
    /\ starts \in 0..MaxStarts /\ alone \subseteq Daemons /\ early \subseteq Daemons

\* A daemon that meets no other one gets and keeps the socket path, whatever a
\* killed daemon left there (Start removes the file before it listens).
AloneMeansReachable ==
    \A d \in alone : Up(d) =>
        /\ spc[d] # "clash"
        /\ d \in open => path = d

\* A daemon that was serving when it was signalled leaves no socket file,
\* whichever of Run and Start notices first.
SocketRemoved ==
    \A d \in Daemons : outcome[d] = "closed" /\ d \notin early => path # d

\* Run gives up its resources unclosed only when the server could not be
\* started, or its listener broke: no signal, however it races the start or the
\* end of the server, looks like a failure.
UnclosedOnlyAfterFailure ==
    \A d \in Daemons : outcome[d] = "unclosed" => spc[d] \in {"failed", "clash", "broken"}

\* Run, asked to stop, waits for nobody but the Serve goroutine, and only while
\* that one can go on: however long clients hold their streams, there is always
\* a step that brings the end nearer.
ShutdownNeverStuck ==
    \A d \in Daemons : Ending(d) =>
        IF AwaitsServe(d) THEN ENABLED <<StartRunsOn(d)>>_daemonVars
        ELSE ENABLED <<RunStep(d)>>_daemonVars

\* Once signalled a daemon ends, although clients may hold streams for ever.
Ends(d) == d \in signalled /\ Up(d) ~> ~Up(d)
ShutdownReturns == \A d \in Daemons : Ends(d)

-----------------------------------------------------------------------------
(* The inductive invariant behind the safety properties.                     *)

\* What Serve or Start returned with, once the server had been started; the
\* steps of Start behind the start of Serve, and behind Listen.
Returned == {"nil", "error", "broken"}
Started == {"select", "draining"} \cup Returned
Bound   == Started \cup {"register"}

\* What a process that is gone left behind, and one that runs has not yet got.
LifeInv ==
    \A d \in Daemons :
        /\ ~Up(d) => d \notin quit \cup signalled \cup alone /\ serve[d] = "idle"
        /\ Up(d) => outcome[d] = "none"
        /\ main[d] \in {"stop", "stopping"} => d \in signalled

\* While Run waits, nobody but Start has touched the server.
SelectInv ==
    \A d \in Daemons : main[d] = "select" =>
        /\ spc[d] # "error"
        /\ spc[d] \notin {"draining", "nil"} => d \notin quit
        /\ spc[d] \in {"register", "select"} /\ serve[d] # "broken" => d \in open
        /\ spc[d] = "select" => serve[d] \in {"begin", "accepting", "broken"}

\* A path that leads to a daemon that has bound it leads to an open listener,
\* which is closed on every way to Close once the server had accepted.
SocketInv ==
    \A d \in Daemons : Up(d) =>
        /\ serve[d] # "idle" => spc[d] \in Started
        /\ d \in open => spc[d] \in Bound
        /\ spc[d] \in Bound => assigned[d] # "nothing" /\ (path = d => d \in open)
        /\ serve[d] \in Returned \/ spc[d] \in Returned => d \notin open
        /\ d \in signalled \ early => spc[d] \in Started
        /\ main[d] = "close" /\ d \notin early => spc[d] \in Started /\ d \notin open

\* Nobody else runs beside a daemon that is alone, so the path stays free
\* between the removal of the old file and Listen.
AloneInv ==
    \A d \in alone :
        /\ \A e \in Daemons : Up(e) => e = d
        /\ spc[d] = "listen" => path = None
=============================================================================
