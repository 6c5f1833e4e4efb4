-------------------------- MODULE ProcessesProofs --------------------------
(* The processes of one user, for any daemons, clients, starts, texts and    *)
(* bounds: the safety properties of DaemonRun, the end of a daemon that was  *)
(* signalled, and the status program beside the daemons.                     *)
EXTENDS Processes, TLAPS

-----------------------------------------------------------------------------
(* The safety of daemons.  The properties are proved together: the four      *)
(* named parts at the end of DaemonRun need each other, and each action is   *)
(* one leaf.                                                                 *)

Safe == AloneMeansReachable /\ SocketRemoved /\ UnclosedOnlyAfterFailure

Inv == TypeOK /\ LifeInv /\ SelectInv /\ SocketInv /\ AloneInv /\ Safe

LEMMA Initially ==
    ASSUME RunInit PROVE Inv
BY IpcServerAssumption, DaemonRunAssumption DEF RunInit, IpcInit, Inv, Safe, TypeOK, LifeInv,
   SelectInv, SocketInv, AloneInv, AloneMeansReachable, SocketRemoved, UnclosedOnlyAfterFailure,
   Started, Bound, Returned, Up

\* Start, at any moment of Run.
LEMMA ServerSteps ==
    ASSUME Inv, NEW d \in Daemons, Up(d), ServerStep(d), UNCHANGED runVars
    PROVE  Inv'
<1> USE IpcServerAssumption, DaemonRunAssumption DEF Inv, Safe, TypeOK, LifeInv, SelectInv,
      SocketInv, AloneInv, AloneMeansReachable, SocketRemoved, UnclosedOnlyAfterFailure,
      Started, Bound, Returned, Up
<1>1. CASE PrepareSocket(d)
  BY <1>1 DEF PrepareSocket, At, runVars
<1>2. CASE Listen(d)
  BY <1>2 DEF Listen, At, runVars
<1>3. CASE Register(d)
  BY <1>3 DEF Register, At, runVars
<1>4. CASE Serve(d)
  BY <1>4 DEF Serve, Close, runVars
<1>5. CASE ServeReturns(d)
  BY <1>5 DEF ServeReturns, runVars
<1>6. CASE GracefulStop(d)
  BY <1>6 DEF GracefulStop, At, CloseServed, Close, runVars
<1>7. CASE Drained(d)
  BY <1>7 DEF Drained, At, Close, runVars
<1>8. CASE StartReturns(d)
  BY <1>8 DEF StartReturns, At, runVars
<1> QED
  BY <1>1, <1>2, <1>3, <1>4, <1>5, <1>6, <1>7, <1>8 DEF ServerStep

\* Run, at any moment of Start.
LEMMA RunSteps ==
    ASSUME Inv, NEW d \in Daemons, RunStep(d)
    PROVE  Inv'
<1> USE IpcServerAssumption, DaemonRunAssumption DEF Inv, Safe, TypeOK, LifeInv, SelectInv,
      SocketInv, AloneInv, AloneMeansReachable, SocketRemoved, UnclosedOnlyAfterFailure,
      Started, Bound, Returned, Up
<1>1. CASE SelectDone(d)
  BY <1>1 DEF SelectDone, Goto, ipcVars
<1>2. CASE BeginStop(d)
  BY <1>2 DEF BeginStop, StopServer, CloseServed, Close, Goto
<1>3. CASE EndStop(d)
  BY <1>3 DEF EndStop, StopListener, Close, Goto
<1>4. CASE ServerFailed(d)
  BY <1>4 DEF ServerFailed, End, Goto
<1>5. CASE ServerEnded(d)
  BY <1>5 DEF ServerEnded, Goto, ipcVars
<1>6. CASE CloseAll(d)
  BY <1>6 DEF CloseAll, End, Goto
<1> QED
  BY <1>1, <1>2, <1>3, <1>4, <1>5, <1>6 DEF RunStep

\* Processes that come, are signalled, lose their listener and go.
LEMMA ProcessSteps ==
    ASSUME Inv, NEW d \in Daemons, StartDaemon(d) \/ Signal(d) \/ Kill(d) \/ Breaks(d)
    PROVE  Inv'
<1> USE IpcServerAssumption, DaemonRunAssumption DEF Inv, Safe, TypeOK, LifeInv, SelectInv,
      SocketInv, AloneInv, AloneMeansReachable, SocketRemoved, UnclosedOnlyAfterFailure,
      Started, Bound, Returned, Up
<1>1. CASE StartDaemon(d)
  BY <1>1 DEF StartDaemon, Goto
<1>2. CASE Signal(d)
  BY <1>2 DEF Signal
<1>3. CASE Kill(d)
  BY <1>3 DEF Kill, End, Goto
<1>4. CASE Breaks(d)
  BY <1>4 DEF Breaks, AcceptFails, Close, runVars
<1> QED
  BY <1>1, <1>2, <1>3, <1>4 DEF Inv

\* Clients.
LEMMA StreamSteps ==
    ASSUME Inv, NEW c \in Streamers, WatchStatus(c) \/ Disconnect(c), UNCHANGED runVars
    PROVE  Inv'
<1> USE IpcServerAssumption, DaemonRunAssumption DEF Inv, Safe, TypeOK, LifeInv, SelectInv,
      SocketInv, AloneInv, AloneMeansReachable, SocketRemoved, UnclosedOnlyAfterFailure,
      Started, Bound, Returned, Up
<1>1. CASE WatchStatus(c)
  BY <1>1 DEF WatchStatus, Reachable, runVars
<1>2. CASE Disconnect(c)
  BY <1>2 DEF Disconnect, runVars
<1> QED
  BY <1>1, <1>2

THEOREM Invariant == DaemonSpec => []Inv
<1>1. RunInit => Inv
  BY Initially
<1>2. Inv /\ [DaemonNext]_daemonVars => Inv'
  <2> SUFFICES ASSUME Inv, [DaemonNext]_daemonVars PROVE Inv'
    OBVIOUS
  <2>1. ASSUME NEW d \in Daemons,
               DaemonStep(d) \/ StartDaemon(d) \/ Signal(d) \/ Kill(d) \/ Breaks(d)
        PROVE  Inv'
    BY <2>1, ServerSteps, RunSteps, ProcessSteps DEF DaemonStep, StartRunsOn
  <2>2. ASSUME NEW c \in Streamers, (WatchStatus(c) \/ Disconnect(c)) /\ UNCHANGED runVars
        PROVE  Inv'
    BY <2>2, StreamSteps
  <2>3. CASE UNCHANGED daemonVars
    BY <2>3 DEF daemonVars, ipcVars, runVars, Inv, Safe, TypeOK, LifeInv, SelectInv, SocketInv,
       AloneInv, AloneMeansReachable, SocketRemoved, UnclosedOnlyAfterFailure, Up
  <2> QED
    BY <2>1, <2>2, <2>3 DEF DaemonNext
<1> QED
  BY <1>1, <1>2, PTL DEF DaemonSpec

\* Every variable keeps its type: only processes that run have listeners and
\* streams.
THEOREM TypeCorrect == DaemonSpec => []TypeOK
BY Invariant, PTL DEF Inv

\* A daemon that meets no other one gets the path and keeps it (server.go:64,
\* Start removes what an earlier daemon left).
THEOREM AloneReachable == DaemonSpec => []AloneMeansReachable
BY Invariant, PTL DEF Inv, Safe

\* A daemon that was serving when it was signalled leaves no socket file,
\* however Stop and GracefulStop interleave (server.go:83, :99).
THEOREM SocketsAreRemoved == DaemonSpec => []SocketRemoved
BY Invariant, PTL DEF Inv, Safe

\* Run returns without closing only when the server could not be started or its
\* listener broke (daemon.go:92).
THEOREM OnlyFailuresLeaveOpen == DaemonSpec => []UnclosedOnlyAfterFailure
BY Invariant, PTL DEF Inv, Safe

-----------------------------------------------------------------------------
(* The end of a daemon.  The phases of Run after a signal follow each other; *)
(* in each one, fairness makes the goroutine take the step that leads on,    *)
(* provided that this step is possible.  That it is, is ShutdownNeverStuck.  *)
(* The prover cannot compute ENABLED, so what the two actions ask for is     *)
(* written out below, and that nothing else keeps them back is a hypothesis  *)
(* of the theorems; that one of the two always gets what it asks for is      *)
(* proved.                                                                   *)

\* Where Run can be after the signal.
Waiting(d)  == d \in signalled /\ main[d] = "select"
Asked(d)    == main[d] = "stop"
Stopping(d) == main[d] = "stopping"
Closing(d)  == main[d] = "close"
\* Stop waits for Serve, before and after Start has noticed the signal too.
Awaits1(d)  == AwaitsServe(d) /\ spc[d] # "draining"
Awaits2(d)  == AwaitsServe(d) /\ spc[d] = "draining"
\* Serve has returned, for good.
Awaited(d)  == Stopping(d) /\ d \in quit /\ serve[d] \in Returned

\* A listener that Serve was told to leave is closed.
QuitInv == \A d \in Daemons : serve[d] = "accepting" /\ d \in quit => d \notin open

\* A step of the system is a step of the daemon, its end, or one of others, that
\* leave the daemon's goroutines and its signal alone.
Others(d) ==
    /\ main'[d] = main[d] /\ spc'[d] = spc[d] /\ serve'[d] = serve[d]
    /\ d \in quit' <=> d \in quit
    /\ d \in signalled => d \in signalled'

LEMMA StepOf ==
    ASSUME Inv, [DaemonNext]_daemonVars, NEW d \in Daemons, Up(d)
    PROVE  RunStep(d) \/ StartRunsOn(d) \/ Breaks(d) \/ main'[d] = "off" \/ Others(d)
<1> USE DEF Inv, TypeOK, Up, Others
<1>1. ASSUME NEW e \in Daemons, RunStep(e), e # d PROVE Others(d)
  BY <1>1 DEF RunStep, SelectDone, BeginStop, EndStop, ServerFailed, ServerEnded, CloseAll,
     Goto, End, StopServer, StopListener, ipcVars
<1>2. ASSUME NEW e \in Daemons, StartRunsOn(e), e # d PROVE Others(d)
  <2>1. UNCHANGED <<main, signalled>> /\ ServerStep(e)
    BY <1>2 DEF StartRunsOn, runVars, ServerStep, PrepareSocket, Listen, Register, Serve,
       ServeReturns, GracefulStop, Drained, StartReturns
  <2>2. CASE PrepareSocket(e) \/ Listen(e) \/ Register(e)
    BY <1>2, <2>1, <2>2 DEF PrepareSocket, Listen, Register, At
  <2>3. CASE Serve(e) \/ ServeReturns(e)
    BY <1>2, <2>1, <2>3 DEF Serve, ServeReturns
  <2>4. CASE GracefulStop(e) \/ Drained(e) \/ StartReturns(e)
    BY <1>2, <2>1, <2>4 DEF GracefulStop, Drained, StartReturns, At
  <2> QED
    BY <2>1, <2>2, <2>3, <2>4 DEF ServerStep
<1>3. ASSUME NEW e \in Daemons, StartDaemon(e) PROVE Others(d)
  BY <1>3 DEF StartDaemon, Goto
<1>4. ASSUME NEW e \in Daemons, Signal(e) PROVE Others(d)
  BY <1>4 DEF Signal
<1>5. ASSUME NEW e \in Daemons, Kill(e) PROVE main'[d] = "off" \/ Others(d)
  BY <1>5 DEF Kill, End, Goto
<1>6. ASSUME NEW c \in Streamers, WatchStatus(c) \/ Disconnect(c), UNCHANGED runVars
      PROVE  Others(d)
  BY <1>6 DEF WatchStatus, Disconnect, runVars
<1>7. ASSUME NEW e \in Daemons, Breaks(e), e # d PROVE Others(d)
  BY <1>7 DEF Breaks, AcceptFails, runVars
<1>8. CASE UNCHANGED daemonVars
  BY <1>8 DEF daemonVars, ipcVars, runVars
<1> QED
  BY <1>1, <1>2, <1>3, <1>4, <1>5, <1>6, <1>7, <1>8 DEF DaemonNext, DaemonStep

\* QuitInv holds at every step.
LEMMA QuitStep ==
    ASSUME Inv, QuitInv, [DaemonNext]_daemonVars
    PROVE  QuitInv'
<1> USE DEF Inv, TypeOK, QuitInv, SocketInv, Started, Returned, Up
<1>1. ASSUME NEW e \in Daemons, RunStep(e) PROVE QuitInv'
  BY <1>1 DEF RunStep, SelectDone, BeginStop, EndStop, ServerFailed, ServerEnded, CloseAll,
     Goto, End, StopServer, StopListener, CloseServed, Close, ipcVars
<1>2. ASSUME NEW e \in Daemons, StartRunsOn(e) PROVE QuitInv'
  <2>1. Up(e) /\ ServerStep(e)
    BY <1>2 DEF StartRunsOn
  <2>2. CASE PrepareSocket(e) \/ Listen(e) \/ Register(e)
    BY <2>1, <2>2 DEF PrepareSocket, Listen, Register, At
  <2>3. CASE Serve(e) \/ ServeReturns(e)
    BY <2>1, <2>3 DEF Serve, ServeReturns, Close
  <2>4. CASE GracefulStop(e) \/ Drained(e) \/ StartReturns(e)
    BY <2>1, <2>4 DEF GracefulStop, Drained, StartReturns, At, CloseServed, Close
  <2> QED
    BY <2>1, <2>2, <2>3, <2>4 DEF ServerStep
<1>3. ASSUME NEW e \in Daemons, StartDaemon(e) \/ Signal(e) \/ Kill(e) \/ Breaks(e)
      PROVE  QuitInv'
  BY <1>3 DEF StartDaemon, Signal, Kill, Breaks, AcceptFails, Close, End, Goto, runVars
<1>4. ASSUME NEW c \in Streamers, WatchStatus(c) \/ Disconnect(c), UNCHANGED runVars
      PROVE  QuitInv'
  BY <1>4 DEF WatchStatus, Disconnect, runVars
<1>5. CASE UNCHANGED daemonVars
  BY <1>5 DEF daemonVars, ipcVars, runVars
<1> QED
  BY <1>1, <1>2, <1>3, <1>4, <1>5 DEF DaemonNext, DaemonStep

LEMMA QuitInvariant == DaemonSpec => [](Inv /\ QuitInv)
<1>1. RunInit => QuitInv
  BY DEF RunInit, IpcInit, QuitInv
<1> QED
  BY <1>1, Invariant, QuitStep, PTL DEF DaemonSpec

Gone(d) == ~Up(d)

\* What the steps of Run ask for ...
RunCanStep(d) ==
    \/ main[d] = "select" /\ (d \in signalled \/ spc[d] \in {"failed", "clash"} \cup Returned)
    \/ main[d] \in {"stop", "close"}
    \/ main[d] = "stopping" /\ (serve[d] # "accepting" \/ d \notin quit)

\* ... and the return of Serve.
ServeCanReturn(d) == Up(d) /\ serve[d] = "accepting" /\ d \notin open

\* The actions ask for no more: what they do beside is to assign.
NothingElseIsAsked ==
    \A d \in Daemons :
        /\ RunCanStep(d) => ENABLED <<RunStep(d)>>_daemonVars
        /\ ServeCanReturn(d) => ENABLED <<StartRunsOn(d)>>_daemonVars

\* A daemon that has been told to end never waits for more than its Serve
\* goroutine, which by then has lost its listener (server.go:95: Stop closes what
\* the server accepts on before it waits): no cycle of Run, Start, Serve and the
\* clients that hold streams waits for itself.
THEOREM NeverStuck == DaemonSpec /\ []NothingElseIsAsked => []ShutdownNeverStuck
<1>1. Inv /\ QuitInv /\ NothingElseIsAsked => ShutdownNeverStuck
  <2> SUFFICES ASSUME Inv, QuitInv, NothingElseIsAsked, NEW d \in Daemons, Ending(d)
               PROVE  IF AwaitsServe(d) THEN ENABLED <<StartRunsOn(d)>>_daemonVars
                      ELSE ENABLED <<RunStep(d)>>_daemonVars
    BY DEF ShutdownNeverStuck
  <2>1. AwaitsServe(d) => ServeCanReturn(d)
    BY DEF QuitInv, AwaitsServe, ServeCanReturn, Up
  <2>2. ~AwaitsServe(d) => RunCanStep(d)
    BY DEF Inv, TypeOK, Ending, Up, AwaitsServe, RunCanStep
  <2> QED
    BY <2>1, <2>2 DEF NothingElseIsAsked
<1> QED
  BY <1>1, QuitInvariant, PTL

\* What a step makes of each phase: it stays, or a later one follows; and a step
\* of Run (while Serve is awaited, one of Start or Serve) leads to a later one.

LEMMA WaitingStep ==
    ASSUME Inv, [DaemonNext]_daemonVars, NEW d \in Daemons, Waiting(d)
    PROVE  /\ Waiting(d)' \/ Asked(d)' \/ Closing(d)' \/ Gone(d)'
           /\ RunStep(d) => Asked(d)' \/ Closing(d)' \/ Gone(d)'
<1> USE DEF Inv, TypeOK, Up, Gone, Waiting, Asked, Closing
<1>1. CASE RunStep(d)
  BY <1>1 DEF RunStep, SelectDone, BeginStop, EndStop, ServerFailed, ServerEnded, CloseAll, Goto, End
<1>2. CASE StartRunsOn(d) /\ ~RunStep(d)
  BY <1>2 DEF StartRunsOn, ServerStep, PrepareSocket, Listen, Register, Serve, ServeReturns,
     GracefulStop, Drained, StartReturns, runVars
<1>3. CASE Others(d) /\ ~RunStep(d)
  BY <1>3 DEF Others
<1>4. CASE main'[d] = "off" /\ ~RunStep(d)
  BY <1>4
<1>5. CASE Breaks(d) /\ ~RunStep(d)
  BY <1>5 DEF Breaks, AcceptFails, runVars
<1> QED
  BY <1>1, <1>2, <1>3, <1>4, <1>5, StepOf

LEMMA AskedStep ==
    ASSUME Inv, [DaemonNext]_daemonVars, NEW d \in Daemons, Asked(d)
    PROVE  /\ Asked(d)' \/ Stopping(d)' \/ Gone(d)'
           /\ RunStep(d) => Stopping(d)'
<1> USE DEF Inv, TypeOK, Up, Gone, Asked, Stopping
<1>1. CASE RunStep(d)
  BY <1>1 DEF RunStep, SelectDone, BeginStop, EndStop, ServerFailed, ServerEnded, CloseAll, Goto, End
<1>2. CASE StartRunsOn(d) /\ ~RunStep(d)
  BY <1>2 DEF StartRunsOn, runVars
<1>3. CASE Others(d) /\ ~RunStep(d)
  BY <1>3 DEF Others
<1>4. CASE main'[d] = "off" /\ ~RunStep(d)
  BY <1>4
<1>5. CASE Breaks(d) /\ ~RunStep(d)
  BY <1>5 DEF Breaks, AcceptFails, runVars
<1> QED
  BY <1>1, <1>2, <1>3, <1>4, <1>5, StepOf

LEMMA ClosingStep ==
    ASSUME Inv, [DaemonNext]_daemonVars, NEW d \in Daemons, Closing(d)
    PROVE  /\ Closing(d)' \/ Gone(d)'
           /\ RunStep(d) => Gone(d)'
<1> USE DEF Inv, TypeOK, Up, Gone, Closing
<1>1. CASE RunStep(d)
  BY <1>1 DEF RunStep, SelectDone, BeginStop, EndStop, ServerFailed, ServerEnded, CloseAll, Goto, End
<1>2. CASE StartRunsOn(d) /\ ~RunStep(d)
  BY <1>2 DEF StartRunsOn, runVars
<1>3. CASE Others(d) /\ ~RunStep(d)
  BY <1>3 DEF Others
<1>4. CASE main'[d] = "off" /\ ~RunStep(d)
  BY <1>4
<1>5. CASE Breaks(d) /\ ~RunStep(d)
  BY <1>5 DEF Breaks, AcceptFails, runVars
<1> QED
  BY <1>1, <1>2, <1>3, <1>4, <1>5, StepOf

LEMMA StoppingStep ==
    ASSUME Inv, QuitInv, [DaemonNext]_daemonVars, NEW d \in Daemons, Stopping(d)
    PROVE  /\ Stopping(d)' \/ Closing(d)' \/ Gone(d)'
           /\ RunStep(d) => Closing(d)'
           /\ Awaits1(d) => Awaits1(d)' \/ Awaits2(d)' \/ Awaited(d)' \/ ~Stopping(d)'
           /\ Awaits2(d) => Awaits2(d)' \/ Awaited(d)' \/ ~Stopping(d)'
           /\ Awaits1(d) /\ StartRunsOn(d) => Awaits2(d)' \/ Awaited(d)'
           /\ Awaits2(d) /\ StartRunsOn(d) => Awaited(d)'
           /\ Awaited(d) => Awaited(d)' \/ ~Stopping(d)'
<1> USE DEF Inv, TypeOK, Up, Gone, Closing, Stopping, Awaits1, Awaits2, Awaited, AwaitsServe,
      SocketInv, Started, Returned
<1>1. CASE RunStep(d)
  <2>1. Closing(d)'
    BY <1>1 DEF RunStep, SelectDone, BeginStop, EndStop, ServerFailed, ServerEnded, CloseAll, Goto, End
  <2>2. ~StartRunsOn(d)
    BY <2>1 DEF StartRunsOn, runVars
  <2> QED
    BY <2>1, <2>2
<1>2. CASE StartRunsOn(d) /\ ~RunStep(d)
  <2>1. Stopping(d)' /\ ~RunStep(d)
    BY <1>2 DEF StartRunsOn, runVars, RunStep, SelectDone, BeginStop, EndStop, ServerFailed, ServerEnded, CloseAll, Goto, End
  <2>2. ASSUME AwaitsServe(d)
        PROVE  Awaited(d)' \/ (spc[d] # "draining" /\ Awaits2(d)')
    BY <1>2, <2>2 DEF StartRunsOn, ServerStep, PrepareSocket, Listen, Register, Serve,
       ServeReturns, GracefulStop, Drained, StartReturns, At, runVars
  <2>3. ASSUME Awaited(d)
        PROVE  Awaited(d)'
    BY <1>2, <2>3 DEF StartRunsOn, ServerStep, PrepareSocket, Listen, Register, Serve,
       ServeReturns, GracefulStop, Drained, StartReturns, At, runVars
  <2> QED
    BY <2>1, <2>2, <2>3
<1>3. CASE main'[d] = "off" /\ ~RunStep(d) /\ ~StartRunsOn(d)
  BY <1>3
<1>4. CASE Others(d) /\ ~RunStep(d) /\ ~StartRunsOn(d)
  BY <1>4 DEF Others
<1>5. CASE Breaks(d) /\ ~RunStep(d) /\ ~StartRunsOn(d)
  BY <1>5 DEF Breaks, AcceptFails, runVars, QuitInv
<1> QED
  BY <1>1, <1>2, <1>3, <1>4, <1>5, StepOf

\* The chain of the phases, under the fairness of the goroutines of d alone.
LEMMA DaemonEnds ==
    ASSUME NEW d \in Daemons
    PROVE  DaemonSpec /\ RunsOn(d) /\ []ShutdownNeverStuck => Ends(d)
<1>1. Inv /\ d \in signalled /\ Up(d) =>
        Waiting(d) \/ Asked(d) \/ Stopping(d) \/ Closing(d)
  BY DEF Inv, TypeOK, Up, Waiting, Asked, Stopping, Closing
<1>2. Inv /\ Waiting(d) /\ [DaemonNext]_daemonVars =>
        Waiting(d)' \/ Asked(d)' \/ Closing(d)' \/ Gone(d)'
  BY WaitingStep
<1>3. Inv /\ Waiting(d) /\ <<RunStep(d)>>_daemonVars /\ [DaemonNext]_daemonVars =>
        Asked(d)' \/ Closing(d)' \/ Gone(d)'
  BY WaitingStep
<1>4. Inv /\ Asked(d) /\ [DaemonNext]_daemonVars => Asked(d)' \/ Stopping(d)' \/ Gone(d)'
  BY AskedStep
<1>5. Inv /\ Asked(d) /\ <<RunStep(d)>>_daemonVars /\ [DaemonNext]_daemonVars => Stopping(d)'
  BY AskedStep
<1>6. Inv /\ Closing(d) /\ [DaemonNext]_daemonVars => Closing(d)' \/ Gone(d)'
  BY ClosingStep
<1>7. Inv /\ Closing(d) /\ <<RunStep(d)>>_daemonVars /\ [DaemonNext]_daemonVars => Gone(d)'
  BY ClosingStep
<1>8. Inv /\ QuitInv /\ Stopping(d) /\ [DaemonNext]_daemonVars =>
        Stopping(d)' \/ Closing(d)' \/ Gone(d)'
  BY StoppingStep
<1>9. Inv /\ QuitInv /\ Stopping(d) /\ <<RunStep(d)>>_daemonVars /\ [DaemonNext]_daemonVars =>
        Closing(d)'
  BY StoppingStep
<1>10. Inv /\ QuitInv /\ Awaits1(d) /\ [DaemonNext]_daemonVars =>
         Awaits1(d)' \/ Awaits2(d)' \/ Awaited(d)' \/ ~Stopping(d)'
  BY StoppingStep DEF Awaits1, AwaitsServe, Stopping
<1>11. Inv /\ QuitInv /\ Awaits2(d) /\ [DaemonNext]_daemonVars =>
         Awaits2(d)' \/ Awaited(d)' \/ ~Stopping(d)'
  BY StoppingStep DEF Awaits2, AwaitsServe, Stopping
<1>12. Inv /\ QuitInv /\ Awaits1(d) /\ <<StartRunsOn(d)>>_daemonVars /\ [DaemonNext]_daemonVars =>
         Awaits2(d)' \/ Awaited(d)'
  BY StoppingStep DEF Awaits1, AwaitsServe, Stopping
<1>13. Inv /\ QuitInv /\ Awaits2(d) /\ <<StartRunsOn(d)>>_daemonVars /\ [DaemonNext]_daemonVars =>
         Awaited(d)'
  BY StoppingStep DEF Awaits2, AwaitsServe, Stopping
<1>14. Inv /\ QuitInv /\ Awaited(d) /\ [DaemonNext]_daemonVars => Awaited(d)' \/ ~Stopping(d)'
  BY StoppingStep DEF Awaited
<1>15. ShutdownNeverStuck /\ (Waiting(d) \/ Asked(d) \/ Closing(d)) =>
         ENABLED <<RunStep(d)>>_daemonVars
  BY DEF ShutdownNeverStuck, Ending, Up, Waiting, Asked, Closing, AwaitsServe
<1>16. ShutdownNeverStuck /\ (Awaits1(d) \/ Awaits2(d)) => ENABLED <<StartRunsOn(d)>>_daemonVars
  BY DEF ShutdownNeverStuck, Ending, Up, Awaits1, Awaits2, AwaitsServe
<1>17. ShutdownNeverStuck /\ Stopping(d) =>
         Awaits1(d) \/ Awaits2(d) \/ ENABLED <<RunStep(d)>>_daemonVars
  BY DEF ShutdownNeverStuck, Ending, Up, Stopping, Awaits1, Awaits2
<1>18. ShutdownNeverStuck /\ Awaited(d) => ENABLED <<RunStep(d)>>_daemonVars
  BY DEF ShutdownNeverStuck, Ending, Up, Stopping, Awaited, AwaitsServe, Returned
<1> DEFINE Fair == DaemonSpec /\ RunsOn(d) /\ []ShutdownNeverStuck
<1>19. Fair => (Closing(d) ~> Gone(d))
  BY <1>6, <1>7, <1>15, QuitInvariant, PTL DEF RunsOn, DaemonSpec
<1>20. Fair => (Stopping(d) ~> Closing(d) \/ Gone(d))
  BY <1>8, <1>9, <1>10, <1>11, <1>12, <1>13, <1>14, <1>16, <1>17, <1>18, QuitInvariant, PTL
     DEF RunsOn, DaemonSpec
<1>21. Fair => (Asked(d) ~> Stopping(d) \/ Gone(d))
  BY <1>4, <1>5, <1>15, QuitInvariant, PTL DEF RunsOn, DaemonSpec
<1>22. Fair => (Waiting(d) ~> Asked(d) \/ Closing(d) \/ Gone(d))
  BY <1>2, <1>3, <1>15, QuitInvariant, PTL DEF RunsOn, DaemonSpec
<1>23. Fair => (d \in signalled /\ Up(d) ~> Gone(d))
  BY <1>1, <1>19, <1>20, <1>21, <1>22, QuitInvariant, PTL
<1> QED
  BY <1>23, PTL DEF Ends, Gone

\* Once signalled, a daemon ends although clients may hold their streams for
\* ever: Stop in Run's goroutine releases the GracefulStop of Start's (daemon.go:87,
\* server.go:85, :95).
THEOREM DaemonsEnd == FairDaemonSpec /\ []NothingElseIsAsked => ShutdownReturns
<1>1. ASSUME NEW d \in Daemons
      PROVE  FairDaemonSpec /\ []NothingElseIsAsked => Ends(d)
  <2>1. DaemonFairness => RunsOn(d)
    BY DEF DaemonFairness
  <2> QED
    BY <2>1, DaemonEnds, NeverStuck, PTL DEF FairDaemonSpec
<1> QED
  BY <1>1 DEF ShutdownReturns

-----------------------------------------------------------------------------
(* Daemons and the status program together.                                  *)

LEMMA DaemonsBeside ==
    ASSUME [Next]_vars PROVE [DaemonNext]_daemonVars
BY DEF Next, vars, StatusChanges

\* The status program, the configuration and the changes of the status leave the
\* daemons their behaviour: what is proved of DaemonRun holds in Processes.
THEOREM DaemonsUndisturbed == FairSpec => FairDaemonSpec
<1>1. Init => RunInit
  BY DEF Init
<1> QED
  BY <1>1, DaemonsBeside, PTL DEF FairSpec, Spec, Fairness, FairDaemonSpec, DaemonSpec

\* So does the end of a daemon that was signalled while it is polled.
THEOREM PolledDaemonsEnd == FairSpec /\ []NothingElseIsAsked => ShutdownReturns
BY DaemonsUndisturbed, DaemonsEnd, PTL

-----------------------------------------------------------------------------
(* The configuration.                                                        *)

\* A daemon always resolves a socket path, and the status program polls there.
LEMMA ResolveMeets ==
    ASSUME NEW s \in Sources, Resolve(s)
    PROVE  PollsMeetDaemon
BY ConfigAssumption DEF PollsMeetDaemon, Resolve, Sources, PollSocket, Optional,
   NewConfigWithOptions, applyOptions, applyEnv, applyConfigFile, NewConfig, NumberFields,
   ListFields, FileOnlyFields, NoDefaultFields, OptionFields, TextFields

\* The status program polls at the socket of the daemon (tui.go: pollStatusCmd
\* resolves its socket path again, without the configuration file).
THEOREM PollsMeet == Spec => []PollsMeetDaemon
<1>1. Init => PollsMeetDaemon
  BY ResolveMeets DEF Init
<1>2. PollsMeetDaemon /\ [Next]_vars => PollsMeetDaemon'
  <2>1. [Next]_vars => UNCHANGED paths
    BY DEF Next, vars, StatusChanges
  <2> QED
    BY <2>1 DEF PollsMeetDaemon, paths
<1> QED
  BY <1>1, <1>2, PTL DEF Spec

\* No file and no environment makes the event log, the queue or a limit of the
\* log file zero or negative (config.go takes numbers above zero only).
THEOREM SizesPositive == SizesArePositive
BY ConfigAssumption DEF SizesArePositive, NewConfigWithOptions, applyOptions, applyEnv,
   applyConfigFile, NewConfig, NumberFields, ListFields, FileOnlyFields, NoDefaultFields,
   OptionFields, TextFields, DefaultNumber

-----------------------------------------------------------------------------
(* The status program.                                                       *)

OrderInv == TuiTypes /\ OneChainInOrder

LEMMA OrderStep ==
    ASSUME OrderInv, [Next]_vars
    PROVE  OrderInv' /\ (refreshes' = 0 => view'.seen >= view.seen)
<1> USE ProcessesAssumption DEF OrderInv, TuiTypes, OneChainInOrder, Tui!Chains
<1>1. CASE DaemonNext /\ UNCHANGED <<paths, version, tuiVars>>
  BY <1>1 DEF tuiVars
<1>2. CASE StatusChanges
  BY <1>2 DEF StatusChanges, tuiVars
<1>3. ASSUME NEW c \in Tui!Chains, Tui!Poll(c), UNCHANGED <<daemonVars, paths, version>>
      PROVE  OrderInv' /\ view' = view
  BY <1>3 DEF Tui!Poll, Tui!Step
<1>4. ASSUME NEW c \in Tui!Chains, Tui!HandleStatus(c), UNCHANGED <<daemonVars, paths, version>>
      PROVE  OrderInv' /\ (refreshes' = 0 => view'.seen >= view.seen)
  BY <1>4 DEF Tui!HandleStatus, Tui!Step, Tui!Polling
<1>5. ASSUME NEW c \in Tui!Chains, Tui!HandleError(c), UNCHANGED <<daemonVars, paths, version>>
      PROVE  OrderInv' /\ view'.seen = view.seen
  BY <1>5 DEF Tui!HandleError, Tui!Step
<1>6. ASSUME NEW c \in Tui!Chains, Tui!HandlePollNow(c), UNCHANGED <<daemonVars, paths, version>>
      PROVE  OrderInv' /\ view' = view
  BY <1>6 DEF Tui!HandlePollNow, Tui!Step, Tui!Polling
<1>7. ASSUME Tui!PressRefresh, UNCHANGED <<daemonVars, paths, version>>
      PROVE  OrderInv' /\ view' = view
  BY <1>7 DEF Tui!PressRefresh, Tui!Step, Tui!Polling
<1>8. ASSUME Tui!PressQuit, UNCHANGED <<daemonVars, paths, version>>
      PROVE  OrderInv' /\ view' = view
  BY <1>8 DEF Tui!PressQuit
<1>9. CASE Tui!TuiNext /\ UNCHANGED <<daemonVars, paths, version>>
  <2>1. ASSUME NEW c \in Tui!Chains, Tui!ChainStep(c)
        PROVE  OrderInv' /\ (refreshes' = 0 => view'.seen >= view.seen)
    BY <1>3, <1>4, <1>5, <1>6, <1>9, <2>1 DEF Tui!ChainStep
  <2> QED
    BY <1>7, <1>8, <1>9, <2>1 DEF Tui!TuiNext
<1>10. CASE UNCHANGED vars
  BY <1>10 DEF vars, tuiVars
<1> QED
  BY <1>1, <1>2, <1>9, <1>10 DEF Next

LEMMA OrderInvariant == Spec => []OrderInv
<1>1. Init => OrderInv
  BY ProcessesAssumption DEF Init, OrderInv, TuiTypes, OneChainInOrder, Tui!TuiInit, Tui!Chains,
     Tui!Idle, Tui!Polling
<1> QED
  BY <1>1, OrderStep, PTL DEF Spec

\* While no refresh is asked for, the status program shows no status older than
\* one it has shown, whatever errors lie between the two (tui.go:61, one poll
\* follows the answer of the last).
THEOREM NeverGoesBack == Spec => ShownNeverGoesBack
<1>1. OrderInv /\ [Next]_vars =>
        [refreshes' = 0 => view'.seen >= view.seen]_vars
  BY OrderStep
<1> QED
  BY <1>1, OrderInvariant, PTL DEF Spec, ShownNeverGoesBack

\* The step of the first chain asks for no more than that the program runs and
\* the chain waits for a message; again the rest of it assigns.
GoesOnWhenAwaited(c) ==
    ~quitting /\ chain[c].at # "none" => ENABLED <<ChainGoesOn(c)>>_vars

NothingElseIsAwaited == GoesOnWhenAwaited(0)

LEMMA FirstChainStep ==
    ASSUME OrderInv, chain[0].at # "none", [Next]_vars
    PROVE  chain'[0].at # "none"
<1> USE ProcessesAssumption DEF OrderInv, TuiTypes, Tui!Chains
<1>1. CASE UNCHANGED chain
  BY <1>1
<1>2. ASSUME NEW c \in Tui!Chains, Tui!ChainStep(c) PROVE chain'[0].at # "none"
  BY <1>2 DEF Tui!ChainStep, Tui!Poll, Tui!HandleStatus, Tui!HandleError, Tui!HandlePollNow,
     Tui!Step, Tui!Polling
<1>3. CASE Tui!PressRefresh \/ Tui!PressQuit
  BY <1>3 DEF Tui!PressRefresh, Tui!PressQuit, Tui!Step, Tui!Polling
<1> QED
  BY <1>1, <1>2, <1>3 DEF Next, StatusChanges, tuiVars, vars, Tui!TuiNext

\* The first chain never ends, whichever of its messages comes: each case of
\* Update returns the command that brings the next one (tui.go:58).
THEOREM PollsGoOn == Spec /\ []NothingElseIsAwaited => []PollingGoesOn
<1>1. Init => chain[0].at # "none"
  BY ProcessesAssumption DEF Init, Tui!TuiInit, Tui!Chains, Tui!Polling
<1>2. OrderInv /\ chain[0].at # "none" /\ [Next]_vars => (chain[0].at # "none")'
  BY FirstChainStep
<1>3. NothingElseIsAwaited /\ chain[0].at # "none" => PollingGoesOn
  BY DEF PollingGoesOn, NothingElseIsAwaited, GoesOnWhenAwaited
<1> QED
  BY <1>1, <1>2, <1>3, OrderInvariant, PTL DEF Spec

-----------------------------------------------------------------------------
(* The error of a poll goes away.                                            *)

\* A daemon can be reached, and the first chain is alone.
Met == ReachableDaemons # {} /\ refreshes = 0 /\ ~quitting
Waits(step) == chain[0].at = step
Shown == view.at = "status" /\ chain[0].at \in {"poll", "status"}

LEMMA MetStep ==
    ASSUME OrderInv, PollsMeetDaemon, Met, Met', [Next]_vars
    PROVE  /\ Waits("error") => Waits("error")' \/ Waits("tick")'
           /\ Waits("tick") => Waits("tick")' \/ Waits("poll")'
           /\ Waits("poll") => Waits("poll")' \/ Waits("status")'
           /\ Waits("status") => Waits("status")' \/ Shown'
           /\ Shown => Shown'
           /\ ChainGoesOn(0) =>
                /\ Waits("error") => Waits("tick")'
                /\ Waits("tick") => Waits("poll")'
                /\ Waits("poll") => Waits("status")'
                /\ Waits("status") => Shown'
<1> USE ProcessesAssumption DEF OrderInv, TuiTypes, OneChainInOrder, Tui!Chains, Met, Waits, Shown
<1>1. CASE UNCHANGED <<chain, view>> /\ ~ChainGoesOn(0)
  BY <1>1
<1>2. CASE ChainGoesOn(0)
  BY <1>2 DEF ChainGoesOn, Tui!ChainStep, Tui!Poll, Tui!HandleStatus, Tui!HandleError,
     Tui!HandlePollNow, Tui!Step, Tui!Polling, PollsMeetDaemon
<1>3. ASSUME NEW c \in Tui!Chains \ {0}, Tui!ChainStep(c) PROVE FALSE
  BY <1>3 DEF Tui!ChainStep, Tui!Poll, Tui!HandleStatus, Tui!HandleError, Tui!HandlePollNow, Tui!Step
<1>4. CASE Tui!PressRefresh \/ Tui!PressQuit
  BY <1>4 DEF Tui!PressRefresh, Tui!PressQuit
<1>5. CASE DaemonNext /\ UNCHANGED <<paths, version, tuiVars>>
  BY <1>1, <1>2, <1>5 DEF tuiVars
<1>6. CASE StatusChanges
  BY <1>1, <1>2, <1>6 DEF StatusChanges, tuiVars
<1>7. CASE UNCHANGED vars
  BY <1>1, <1>2, <1>7 DEF vars, tuiVars
<1>8. CASE Tui!TuiNext /\ UNCHANGED <<daemonVars, paths, version>>
  BY <1>2, <1>3, <1>4, <1>8 DEF Tui!TuiNext, ChainGoesOn
<1> QED
  BY <1>5, <1>6, <1>7, <1>8 DEF Next

\* When a daemon can be reached from some moment on, the error of the polls that
\* failed before is replaced: every message of the one chain starts its next
\* command (tui.go:58).  With refresh keys see ErrorGoesFromAll.
THEOREM ErrorGoes ==
    FairSpec /\ []NothingElseIsAwaited /\ [](refreshes = 0) => ErrorGoesAway
<1>1. OrderInv /\ PollingGoesOn /\ ~quitting =>
        (Waits("error") \/ Waits("tick") \/ Waits("poll") \/ Waits("status"))
        /\ ENABLED <<ChainGoesOn(0)>>_vars
  BY ProcessesAssumption DEF OrderInv, TuiTypes, PollingGoesOn, Waits, Tui!Chains
<1>2. ReachableDaemons # {} /\ refreshes = 0 => Met \/ quitting
  BY DEF Met
<1>3. Met => ~quitting
  BY DEF Met
<1>4. quitting /\ [Next]_vars => quitting'
  BY DEF Next, StatusChanges, tuiVars, vars, Tui!TuiNext, Tui!PressRefresh, Tui!PressQuit,
     Tui!ChainStep, Tui!Poll, Tui!HandleStatus, Tui!HandleError, Tui!HandlePollNow, Tui!Step
<1> DEFINE inv == OrderInv /\ PollsMeetDaemon
<1>5. inv /\ Met /\ Met' /\ [Next]_vars =>
        /\ Waits("error") => Waits("error")' \/ Waits("tick")'
        /\ Waits("tick") => Waits("tick")' \/ Waits("poll")'
        /\ Waits("poll") => Waits("poll")' \/ Waits("status")'
        /\ Waits("status") => Waits("status")' \/ Shown'
        /\ Shown => Shown'
  BY MetStep
<1>6. inv /\ Met /\ Met' /\ [Next]_vars /\ <<ChainGoesOn(0)>>_vars =>
        /\ Waits("error") => Waits("tick")'
        /\ Waits("tick") => Waits("poll")'
        /\ Waits("poll") => Waits("status")'
        /\ Waits("status") => Shown'
  BY MetStep
<1>7. Fairness => ChainFair(0)
  BY ProcessesAssumption DEF Fairness, Tui!Chains
<1>8. Shown => view.at = "status"
  BY DEF Shown
<1>9. FairSpec => []inv
  BY OrderInvariant, PollsMeet, PTL DEF FairSpec
<1>10. FairSpec /\ []NothingElseIsAwaited => []PollingGoesOn
  BY PollsGoOn, PTL DEF FairSpec
<1> QED
  BY <1>1, <1>2, <1>3, <1>4, <1>5, <1>6, <1>7, <1>8, <1>9, <1>10, PTL
     DEF FairSpec, Spec, ChainFair, ErrorGoesAway

\* With refresh keys several chains may still bring an error.  Each of them loses
\* it in the end; that all have then lost theirs is a law of temporal logic, as
\* there are finitely many, which the prover cannot derive (by an induction over
\* their number) and which is a hypothesis here.
WithoutError(c) == chain[c].at # "error"
NoErrors == \A c \in Tui!Chains : WithoutError(c)
EachThenAll == (\A c \in Tui!Chains : <>[]WithoutError(c)) => <>[]NoErrors

NothingElseIsAwaitedByAny == \A c \in Tui!Chains : GoesOnWhenAwaited(c)

\* A daemon can be reached while the program runs.
Served == ReachableDaemons # {} /\ ~quitting
StatusShown == view.at = "status"

LEMMA ServedStep ==
    ASSUME OrderInv, PollsMeetDaemon, Served, [Next]_vars, NEW c \in Tui!Chains
    PROVE  /\ WithoutError(c) => WithoutError(c)'
           /\ ~WithoutError(c) /\ ChainGoesOn(c) => WithoutError(c)'
<1> USE ProcessesAssumption DEF OrderInv, TuiTypes, Tui!Chains, Served, WithoutError
<1>1. CASE UNCHANGED chain /\ ~ChainGoesOn(c)
  BY <1>1
<1>2. CASE ChainGoesOn(c)
  BY <1>2 DEF ChainGoesOn, Tui!ChainStep, Tui!Poll, Tui!HandleStatus, Tui!HandleError,
     Tui!HandlePollNow, Tui!Step, Tui!Polling, PollsMeetDaemon
<1>3. ASSUME NEW e \in Tui!Chains \ {c}, Tui!ChainStep(e) PROVE chain'[c] = chain[c]
  BY <1>3 DEF Tui!ChainStep, Tui!Poll, Tui!HandleStatus, Tui!HandleError, Tui!HandlePollNow, Tui!Step
<1>4. CASE Tui!PressRefresh /\ ~ChainGoesOn(c)
  BY <1>4 DEF Tui!PressRefresh, Tui!Step, Tui!Polling
<1>5. CASE DaemonNext /\ UNCHANGED <<paths, version, tuiVars>>
  BY <1>1, <1>2, <1>5 DEF tuiVars
<1>6. CASE StatusChanges \/ UNCHANGED vars
  BY <1>1, <1>2, <1>6 DEF StatusChanges, vars, tuiVars
<1>7. CASE Tui!TuiNext /\ UNCHANGED <<daemonVars, paths, version>>
  <2>1. CASE Tui!PressQuit
    BY <1>1, <1>2, <2>1 DEF Tui!PressQuit
  <2>2. CASE \E e \in Tui!Chains : Tui!ChainStep(e)
    BY <1>2, <1>3, <1>7, <2>2 DEF ChainGoesOn
  <2> QED
    BY <1>2, <1>4, <1>7, <2>1, <2>2 DEF Tui!TuiNext
<1> QED
  BY <1>5, <1>6, <1>7 DEF Next

\* The first chain between its messages, while no chain holds an error.
LEMMA FirstChainTurns ==
    ASSUME OrderInv, PollsMeetDaemon, Served, NoErrors, [Next]_vars
    PROVE  /\ Waits("tick") => Waits("tick")' \/ Waits("poll")'
           /\ Waits("poll") => Waits("poll")' \/ Waits("status")'
           /\ Waits("status") => Waits("status")' \/ StatusShown'
           /\ StatusShown => StatusShown'
           /\ ChainGoesOn(0) =>
                /\ Waits("tick") => Waits("poll")'
                /\ Waits("poll") => Waits("status")'
                /\ Waits("status") => StatusShown'
<1> USE ProcessesAssumption DEF OrderInv, TuiTypes, Tui!Chains, Served, NoErrors, WithoutError, Waits,
      StatusShown
<1>1. CASE UNCHANGED <<chain, view>> /\ ~ChainGoesOn(0)
  BY <1>1
<1>2. CASE ChainGoesOn(0)
  BY <1>2 DEF ChainGoesOn, Tui!ChainStep, Tui!Poll, Tui!HandleStatus, Tui!HandleError,
     Tui!HandlePollNow, Tui!Step, Tui!Polling, PollsMeetDaemon
<1>3. ASSUME NEW c \in Tui!Chains \ {0}, Tui!ChainStep(c)
      PROVE  chain'[0] = chain[0] /\ (view' = view \/ StatusShown')
  BY <1>3 DEF Tui!ChainStep, Tui!Poll, Tui!HandleStatus, Tui!HandleError, Tui!HandlePollNow, Tui!Step
<1>4. CASE Tui!PressRefresh /\ ~ChainGoesOn(0)
  BY <1>4 DEF Tui!PressRefresh, Tui!Step, Tui!Polling
<1>5. CASE DaemonNext /\ UNCHANGED <<paths, version, tuiVars>>
  BY <1>1, <1>2, <1>5 DEF tuiVars
<1>6. CASE StatusChanges \/ UNCHANGED vars
  BY <1>1, <1>2, <1>6 DEF StatusChanges, vars, tuiVars
<1>7. CASE Tui!TuiNext /\ UNCHANGED <<daemonVars, paths, version>>
  <2>1. CASE Tui!PressQuit
    BY <1>1, <1>2, <2>1 DEF Tui!PressQuit
  <2>2. CASE \E c \in Tui!Chains : Tui!ChainStep(c)
    BY <1>2, <1>3, <1>7, <2>2 DEF ChainGoesOn
  <2> QED
    BY <1>2, <1>4, <1>7, <2>1, <2>2 DEF Tui!TuiNext
<1> QED
  BY <1>5, <1>6, <1>7 DEF Next

LEMMA ErrorLeaves ==
    ASSUME NEW c \in Tui!Chains
    PROVE  FairSpec /\ []NothingElseIsAwaitedByAny /\ <>[]Served => <>[]WithoutError(c)
<1> DEFINE inv == OrderInv /\ PollsMeetDaemon
<1>1. inv /\ Served /\ [Next]_vars =>
        /\ WithoutError(c) => WithoutError(c)'
        /\ ~WithoutError(c) /\ <<ChainGoesOn(c)>>_vars => WithoutError(c)'
  BY ServedStep
<1>2. NothingElseIsAwaitedByAny /\ Served /\ ~WithoutError(c) => ENABLED <<ChainGoesOn(c)>>_vars
  BY DEF NothingElseIsAwaitedByAny, GoesOnWhenAwaited, Served, WithoutError
<1>3. Fairness => ChainFair(c)
  BY DEF Fairness
<1>4. FairSpec => []inv
  BY OrderInvariant, PollsMeet, PTL DEF FairSpec
<1> QED
  BY <1>1, <1>2, <1>3, <1>4, PTL DEF FairSpec, Spec, ChainFair

\* The error of the polls that failed goes away whatever keys were pressed.
THEOREM ErrorGoesFromAll ==
    FairSpec /\ []NothingElseIsAwaitedByAny /\ EachThenAll => ErrorGoesAway
<1> DEFINE inv == OrderInv /\ PollsMeetDaemon
<1>1. FairSpec /\ []NothingElseIsAwaitedByAny /\ EachThenAll /\ <>[]Served => <>[]NoErrors
  BY ErrorLeaves DEF EachThenAll
<1>2. inv /\ Served /\ NoErrors /\ [Next]_vars =>
        /\ Waits("tick") => Waits("tick")' \/ Waits("poll")'
        /\ Waits("poll") => Waits("poll")' \/ Waits("status")'
        /\ Waits("status") => Waits("status")' \/ StatusShown'
        /\ StatusShown => StatusShown'
        /\ <<ChainGoesOn(0)>>_vars =>
             /\ Waits("tick") => Waits("poll")'
             /\ Waits("poll") => Waits("status")'
             /\ Waits("status") => StatusShown'
  BY FirstChainTurns
<1>3. NothingElseIsAwaitedByAny => NothingElseIsAwaited
  BY ProcessesAssumption DEF NothingElseIsAwaitedByAny, NothingElseIsAwaited, Tui!Chains
<1>4. OrderInv /\ PollingGoesOn /\ Served /\ NoErrors =>
        (Waits("tick") \/ Waits("poll") \/ Waits("status")) /\ ENABLED <<ChainGoesOn(0)>>_vars
  BY ProcessesAssumption DEF OrderInv, TuiTypes, PollingGoesOn, Waits, Served, NoErrors,
     WithoutError, Tui!Chains
<1>5. quitting /\ [Next]_vars => quitting'
  BY DEF Next, StatusChanges, tuiVars, vars, Tui!TuiNext, Tui!PressRefresh, Tui!PressQuit,
     Tui!ChainStep, Tui!Poll, Tui!HandleStatus, Tui!HandleError, Tui!HandlePollNow, Tui!Step
<1>6. Fairness => ChainFair(0)
  BY ProcessesAssumption DEF Fairness, Tui!Chains
<1>7. FairSpec => []inv
  BY OrderInvariant, PollsMeet, PTL DEF FairSpec
<1>8. FairSpec /\ []NothingElseIsAwaitedByAny => []PollingGoesOn
  BY <1>3, PollsGoOn, PTL DEF FairSpec
<1>9. FairSpec /\ []NothingElseIsAwaitedByAny /\ EachThenAll /\ <>[]Served => <>[]StatusShown
  BY <1>1, <1>2, <1>4, <1>6, <1>7, <1>8, PTL DEF FairSpec, Spec, ChainFair
<1>10. Served <=> ReachableDaemons # {} /\ ~quitting
  BY DEF Served
<1>11. FairSpec /\ <>[](ReachableDaemons # {}) => <>[]Served \/ <>[]quitting
  BY <1>5, <1>10, PTL DEF FairSpec, Spec
<1> QED
  BY <1>9, <1>11, PTL DEF ErrorGoesAway, StatusShown
=============================================================================
