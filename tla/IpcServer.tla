----------------------------- MODULE IpcServer -----------------------------
(* internal/ipc/server.go: one gRPC server per daemon process, all of them   *)
(* on the same socket path.  Server.Start runs in a goroutine of its own and *)
(* hands the listener to another one that serves; Stop is called from        *)
(* Daemon.Run while Start is at any step.                                    *)
(*                                                                           *)
(* External, from how the code uses them: binding a path that exists fails;  *)
(* closing a listener unlinks its path, whatever is there by then; a process *)
(* that ends closes its listener without unlinking; GracefulStop waits for   *)
(* the streams, Stop cuts them; Serve called after either fails, and closes  *)
(* the listener when it returns.  A file in the user's own directory can be  *)
(* removed, so the error that Start ignores there does not occur.            *)
CONSTANTS
    Daemons,    \* daemon processes; one that ended may be started again
    Streamers,  \* clients that hold a WatchStatus stream
    None

ASSUME IpcServerAssumption == None \notin Daemons

VARIABLES
    path,       \* whose socket the path leads to, or None
    open,       \* daemons whose listener is open
    spc,        \* per daemon, the step Start is at
    serve,      \* per daemon, the state of the Serve goroutine
    assigned,   \* per daemon, the last field of Server that Start has set
    quit,       \* daemons whose gRPC server was told to stop
    stream,     \* per streamer, the daemon that serves its stream
    signalled   \* daemons whose context was cancelled

ipcVars == <<path, open, spc, serve, assigned, quit, stream, signalled>>

IpcInit ==
    /\ path = None /\ open = {} /\ quit = {} /\ signalled = {}
    /\ spc = [d \in Daemons |-> "idle"] /\ serve = [d \in Daemons |-> "idle"]
    /\ assigned = [d \in Daemons |-> "nothing"]
    /\ stream = [c \in Streamers |-> None]

Close(d) ==
    /\ open' = open \ {d}
    /\ path' = IF d \in open THEN None ELSE path

\* The gRPC server closes the listeners it serves.
CloseServed(d) == IF serve[d] = "accepting" THEN Close(d) ELSE UNCHANGED <<open, path>>

At(d, from, to) == spc[d] = from /\ spc' = [spc EXCEPT ![d] = to]

-----------------------------------------------------------------------------
(* Start.                                                                    *)

\* Mutant: the old socket file stays.
PrepareSocketKept(d) ==
    /\ At(d, "prepare", "listen") \/ At(d, "prepare", "failed")
    /\ UNCHANGED <<path, open, serve, assigned, quit, stream, signalled>>

\* Without a path or a directory for it Start fails; an old file is removed.
PrepareSocket(d) ==
    /\ \/ At(d, "prepare", "listen") /\ path' = None
       \/ At(d, "prepare", "failed") /\ UNCHANGED path
    /\ UNCHANGED <<open, serve, assigned, quit, stream, signalled>>

\* It fails on a path that exists, and may for any other reason.
Listen(d) ==
    /\ \/ /\ path = None /\ At(d, "listen", "register")
          /\ path' = d /\ open' = open \cup {d}
          /\ assigned' = [assigned EXCEPT ![d] = "listener"]
       \/ /\ (path # None /\ At(d, "listen", "clash")) \/ At(d, "listen", "failed")
          /\ UNCHANGED <<path, open, assigned>>
    /\ UNCHANGED <<serve, quit, stream, signalled>>

Register(d) ==
    /\ At(d, "register", "select")
    /\ assigned' = [assigned EXCEPT ![d] = "server"]
    /\ serve' = [serve EXCEPT ![d] = "begin"]
    /\ UNCHANGED <<path, open, quit, stream, signalled>>

Serve(d) ==
    /\ serve[d] = "begin"
    /\ IF d \in quit
       THEN serve' = [serve EXCEPT ![d] = "error"] /\ Close(d)
       ELSE serve' = [serve EXCEPT ![d] = "accepting"] /\ UNCHANGED <<open, path>>
    /\ UNCHANGED <<spc, assigned, quit, stream, signalled>>

\* Accept failed: because the server was stopped, or the listener closed.
ServeReturns(d) ==
    /\ serve[d] = "accepting" /\ d \notin open
    /\ serve' = [serve EXCEPT ![d] = IF d \in quit THEN "nil" ELSE "error"]
    /\ UNCHANGED <<path, open, spc, assigned, quit, stream, signalled>>

\* Accept failed for good, of itself.
AcceptFails(d) ==
    /\ serve[d] = "accepting" /\ d \in open
    /\ serve' = [serve EXCEPT ![d] = "broken"]
    /\ Close(d)
    /\ UNCHANGED <<spc, assigned, quit, stream, signalled>>

GracefulStop(d) ==
    /\ d \in signalled /\ At(d, "select", "draining")
    /\ quit' = quit \cup {d}
    /\ CloseServed(d)
    /\ UNCHANGED <<serve, assigned, stream, signalled>>

\* Mutant: the error of the context is returned instead of nil.
DrainedErr(d) ==
    /\ serve[d] # "accepting" /\ \A c \in Streamers : stream[c] # d
    /\ At(d, "draining", "error")
    /\ Close(d)
    /\ UNCHANGED <<serve, assigned, quit, stream, signalled>>

\* GracefulStop returns once Serve and the streams are gone; Start returns nil.
Drained(d) ==
    /\ serve[d] # "accepting" /\ \A c \in Streamers : stream[c] # d
    /\ At(d, "draining", "nil")
    /\ Close(d)
    /\ UNCHANGED <<serve, assigned, quit, stream, signalled>>

StartReturns(d) ==
    /\ serve[d] \in {"nil", "error", "broken"} /\ At(d, "select", serve[d])
    /\ UNCHANGED <<path, open, serve, assigned, quit, stream, signalled>>

ServerStep(d) ==
    \/ PrepareSocket(d) \/ Listen(d) \/ Register(d) \/ Serve(d) \/ ServeReturns(d)
    \/ GracefulStop(d) \/ Drained(d) \/ StartReturns(d)

-----------------------------------------------------------------------------
(* Stop, in two steps: each reads a field Start may be about to set.         *)

\* Mutant: Stop waits for the streams as GracefulStop does.
StopServerGently(d) ==
    /\ IF assigned[d] = "server"
       THEN /\ quit' = quit \cup {d} /\ CloseServed(d)
            /\ \A c \in Streamers : stream[c] # d
       ELSE UNCHANGED <<quit, open, path>>
    /\ UNCHANGED <<spc, serve, assigned, stream, signalled>>

StopServer(d) ==
    /\ IF assigned[d] = "server"
       THEN /\ quit' = quit \cup {d} /\ CloseServed(d)
            /\ stream' = [c \in Streamers |-> IF stream[c] = d THEN None ELSE stream[c]]
       ELSE UNCHANGED <<quit, open, path, stream>>
    /\ UNCHANGED <<spc, serve, assigned, signalled>>

\* grpcServer.Stop returns once Serve has left its loop.
StopListener(d) ==
    /\ serve[d] # "accepting" \/ d \notin quit
    /\ IF assigned[d] = "nothing" THEN UNCHANGED <<open, path>> ELSE Close(d)
    /\ UNCHANGED <<spc, serve, assigned, quit, stream, signalled>>

-----------------------------------------------------------------------------
Reachable(d) == path = d /\ d \in open /\ serve[d] = "accepting"

WatchStatus(c) ==
    /\ stream[c] = None
    /\ \E d \in Daemons : Reachable(d) /\ stream' = [stream EXCEPT ![c] = d]
    /\ UNCHANGED <<path, open, spc, serve, assigned, quit, signalled>>

Disconnect(c) ==
    /\ stream[c] # None /\ stream' = [stream EXCEPT ![c] = None]
    /\ UNCHANGED <<path, open, spc, serve, assigned, quit, signalled>>
=============================================================================
