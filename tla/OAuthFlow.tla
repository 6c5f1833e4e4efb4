----------------------------- MODULE OAuthFlow -----------------------------
(* internal/auth/oauth.go, runOAuthFlow: a web server on a loopback port that *)
(* waits for the browser to come back from Google.  Handlers, the goroutine   *)
(* that serves and the flow itself meet at two channels of one slot.          *)
(*                                                                            *)
(* A callback with the wrong state, with an error or without a code is an     *)
(* "error"; the others are a "code".  Each channel holds the callbacks whose  *)
(* answer is in it (Server for the error of Serve).  Server.Shutdown closes   *)
(* the listener and waits, with no deadline, until no connection is active.   *)
EXTENDS Sequences, Naturals

CONSTANTS Callbacks, Server

ASSUME OAuthFlowAssumption == Server \notin Callbacks

VARIABLES
    flow,       \* the step runOAuthFlow is at
    conn,       \* per callback, the state of its connection
    kind,       \* per callback, what it brings
    serving,    \* the goroutine that serves
    codeCh, errCh,
    cancelled,  \* the caller's context
    result      \* what the flow returns, once decided

vars == <<flow, conn, kind, serving, codeCh, errCh, cancelled, result>>

Init ==
    /\ flow = "browser" /\ serving = "accepting" /\ result = "none"
    /\ conn = [r \in Callbacks |-> "none"] /\ kind = [r \in Callbacks |-> "none"]
    /\ codeCh = <<>> /\ errCh = <<>> /\ cancelled = FALSE

-----------------------------------------------------------------------------
(* The browser, and whoever else calls the port.                             *)

Connect(r) ==
    /\ serving = "accepting" /\ conn[r] = "none"
    /\ conn' = [conn EXCEPT ![r] = "open"]
    /\ UNCHANGED <<flow, kind, serving, codeCh, errCh, cancelled, result>>

\* A request, or none within the read timeout.
Request(r) ==
    /\ conn[r] = "open"
    /\ \/ conn' = [conn EXCEPT ![r] = "closed"] /\ UNCHANGED kind
       \/ /\ conn' = [conn EXCEPT ![r] = "handled"]
          /\ \E k \in {"code", "error"} : kind' = [kind EXCEPT ![r] = k]
    /\ UNCHANGED <<flow, serving, codeCh, errCh, cancelled, result>>

Cancel ==
    /\ ~cancelled /\ cancelled' = TRUE
    /\ UNCHANGED <<flow, conn, kind, serving, codeCh, errCh, result>>

-----------------------------------------------------------------------------
\* Mutant: a channel without its slot takes what the flow waits for only.
HasRoomUnbuffered(channel) == channel = <<>> /\ flow = "select"

\* Mutant: one slot too many.
HasRoomForTwo(channel) == Len(channel) < 2

HasRoom(channel) == Len(channel) < 1

\* The handler sends what it found; it blocks while the channel is full.
Send(r) ==
    /\ conn[r] = "handled"
    /\ \/ /\ kind[r] = "code" /\ HasRoom(codeCh)
          /\ codeCh' = Append(codeCh, r) /\ UNCHANGED errCh
       \/ /\ kind[r] = "error" /\ HasRoom(errCh)
          /\ errCh' = Append(errCh, r) /\ UNCHANGED codeCh
    /\ conn' = [conn EXCEPT ![r] = "closed"]
    /\ UNCHANGED <<flow, kind, serving, cancelled, result>>

ServeFails ==
    /\ serving = "accepting" /\ serving' = "failed"
    /\ UNCHANGED <<flow, conn, kind, codeCh, errCh, cancelled, result>>

SendServeError ==
    /\ serving = "failed" /\ serving' = "reported"
    /\ HasRoom(errCh) /\ errCh' = Append(errCh, Server)
    /\ UNCHANGED <<flow, conn, kind, codeCh, cancelled, result>>

-----------------------------------------------------------------------------
(* runOAuthFlow.                                                             *)

BrowserOpens ==
    /\ flow = "browser" /\ flow' = "select"
    /\ UNCHANGED <<conn, kind, serving, codeCh, errCh, cancelled, result>>

\* Every way out goes through Shutdown, which stops accepting at once.
Decide(answer) ==
    /\ flow' = "shutdown" /\ result' = answer
    /\ serving' = IF serving = "accepting" THEN "ended" ELSE serving
    /\ UNCHANGED <<conn, kind, cancelled>>

BrowserFails == flow = "browser" /\ Decide("error") /\ UNCHANGED <<codeCh, errCh>>

SelectDone == flow = "select" /\ cancelled /\ Decide("error") /\ UNCHANGED <<codeCh, errCh>>

SelectError ==
    /\ flow = "select" /\ errCh # <<>> /\ errCh' = Tail(errCh)
    /\ Decide("error") /\ UNCHANGED codeCh

SelectCode ==
    /\ flow = "select" /\ codeCh # <<>> /\ codeCh' = Tail(codeCh)
    /\ Decide("code") /\ UNCHANGED errCh

\* Mutant: the server is closed, not shut down, and nobody is waited for.
CloseServer ==
    /\ flow = "shutdown"
    /\ flow' = IF result = "code" THEN "exchange" ELSE "done"
    /\ UNCHANGED <<conn, kind, serving, codeCh, errCh, cancelled, result>>

Quiet == \A r \in Callbacks : conn[r] \in {"none", "closed"}

Shutdown ==
    /\ flow = "shutdown" /\ Quiet
    /\ flow' = IF result = "code" THEN "exchange" ELSE "done"
    /\ UNCHANGED <<conn, kind, serving, codeCh, errCh, cancelled, result>>

\* Exchange asks Google; it fails under a cancelled context.
Exchange ==
    /\ flow = "exchange" /\ flow' = "done"
    /\ result' \in IF cancelled THEN {"error"} ELSE {"token", "error"}
    /\ UNCHANGED <<conn, kind, serving, codeCh, errCh, cancelled>>

FlowStep ==
    \/ BrowserOpens \/ BrowserFails \/ SelectDone \/ SelectError \/ SelectCode
    \/ Shutdown \/ Exchange

HandlerStep(r) == Request(r) \/ Send(r)

Next ==
    \/ FlowStep \/ Cancel \/ ServeFails \/ SendServeError
    \/ \E r \in Callbacks : Connect(r) \/ HandlerStep(r)

Spec == Init /\ [][Next]_vars

\* Goroutines run on and connections time out; nobody has to call or cancel.
FlowFair == WF_vars(FlowStep) /\ WF_vars(SendServeError)
HandlerFair(r) == WF_vars(HandlerStep(r))
Fairness == FlowFair /\ \A r \in Callbacks : HandlerFair(r)

FairSpec == Spec /\ Fairness

-----------------------------------------------------------------------------
TypeOK ==
    /\ flow \in {"browser", "select", "shutdown", "exchange", "done"}
    /\ conn \in [Callbacks -> {"none", "open", "handled", "closed"}]
    /\ kind \in [Callbacks -> {"none", "code", "error"}]
    /\ serving \in {"accepting", "failed", "reported", "ended"}
    /\ codeCh \in Seq(Callbacks) /\ Len(codeCh) <= 1
    /\ errCh \in Seq(Callbacks \cup {Server}) /\ Len(errCh) <= 1
    /\ cancelled \in BOOLEAN
    /\ result \in {"none", "code", "token", "error"}

\* Who brought an answer of that kind.
Senders(k) == {r \in Callbacks : kind[r] = k}
              \cup {s \in {Server} : k = "error" /\ serving \in {"failed", "reported"}}

\* Once there is an answer or the caller gives up, the flow returns, unless two
\* of the same kind were brought: the second one may wait for room in its
\* channel, and Shutdown for it, for ever.
FlowReturns ==
    codeCh # <<>> \/ errCh # <<>> \/ cancelled
        ~> flow = "done" \/ \E k \in {"code", "error"} : \E r, s \in Senders(k) : r # s

\* When the flow has returned, nobody listens on the port and no handler waits
\* for a channel; a token was asked for only after a callback brought a code.
NothingLeftRunning ==
    /\ flow = "done" => Quiet /\ serving # "accepting"
    /\ result = "token" => Senders("code") # {}

-----------------------------------------------------------------------------
(* The inductive invariant behind NothingLeftRunning, and what keeps the     *)
(* flow from jamming.                                                        *)

FlowInv ==
    /\ flow \in {"shutdown", "exchange", "done"} => serving # "accepting"
    /\ flow \in {"exchange", "done"} => Quiet
    /\ flow = "exchange" => result = "code"
    /\ result \in {"code", "token"} => Senders("code") # {}

\* What a channel holds was brought by somebody who has nothing left to send.
AnswersInv ==
    /\ \A r \in Callbacks : conn[r] \in {"none", "open"} => kind[r] = "none"
    /\ \A r \in Callbacks : conn[r] = "handled" => kind[r] \in {"code", "error"}
    /\ codeCh # <<>> => Head(codeCh) \in Senders("code") /\ conn[Head(codeCh)] = "closed"
    /\ errCh # <<>> =>
         IF Head(errCh) = Server THEN serving = "reported"
         ELSE Head(errCh) \in Senders("error") /\ conn[Head(errCh)] = "closed"

\* A handler, or the goroutine that serves, waits for room only behind another
\* answer of its kind.
NobodyWaitsAlone ==
    /\ \A r \in Callbacks : conn[r] = "handled" /\ Senders(kind[r]) = {r} =>
         HasRoom(IF kind[r] = "code" THEN codeCh ELSE errCh)
    /\ serving = "failed" /\ Senders("error") = {Server} => HasRoom(errCh)
=============================================================================
