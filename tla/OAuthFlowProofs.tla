--------------------------- MODULE OAuthFlowProofs ---------------------------
(* The properties of OAuthFlow, for any number of callbacks: safety first,     *)
(* then that the flow decides and returns.                                     *)
EXTENDS OAuthFlow, TLAPS

Inv == TypeOK /\ FlowInv /\ AnswersInv

LEMMA Initially ==
    ASSUME Init PROVE Inv
<1>1. TypeOK
  <2>1. codeCh \in Seq(Callbacks) /\ Len(codeCh) <= 1
    BY DEF Init
  <2>2. errCh \in Seq(Callbacks \cup {Server}) /\ Len(errCh) <= 1
    BY DEF Init
  <2> QED
    BY <2>1, <2>2, Zenon DEF Init, TypeOK
<1>2. FlowInv /\ AnswersInv
  BY DEF Init, FlowInv, AnswersInv
<1> QED
  BY <1>1, <1>2 DEF Inv

LEMMA Preserved ==
    ASSUME Inv, [Next]_vars
    PROVE  Inv'
<1> USE OAuthFlowAssumption DEF Inv, TypeOK, FlowInv, AnswersInv, Quiet, Senders
<1>1. CASE Cancel
  BY <1>1 DEF Cancel
<1>2. CASE ServeFails
  BY <1>2 DEF ServeFails
<1>3. CASE SendServeError
  BY <1>3 DEF SendServeError, HasRoom
<1>4. CASE BrowserOpens
  BY <1>4 DEF BrowserOpens
<1>5. CASE BrowserFails
  BY <1>5 DEF BrowserFails, Decide
<1>6. CASE SelectDone
  BY <1>6 DEF SelectDone, Decide
<1>7. CASE SelectError
  BY <1>7 DEF SelectError, Decide
<1>8. CASE SelectCode
  BY <1>8 DEF SelectCode, Decide
<1>9. CASE Shutdown
  BY <1>9 DEF Shutdown
<1>10. CASE Exchange
  BY <1>10 DEF Exchange
<1>11. ASSUME NEW r \in Callbacks, Connect(r) PROVE Inv'
  BY <1>11 DEF Connect
<1>12. ASSUME NEW r \in Callbacks, Request(r) PROVE Inv'
  BY <1>12 DEF Request
<1>13. ASSUME NEW r \in Callbacks, Send(r) PROVE Inv'
  BY <1>13 DEF Send, HasRoom
<1>14. CASE UNCHANGED vars
  BY <1>14 DEF vars
<1> QED
  BY <1>1, <1>2, <1>3, <1>4, <1>5, <1>6, <1>7, <1>8, <1>9, <1>10, <1>11, <1>12, <1>13, <1>14
     DEF Next, FlowStep, HandlerStep

LEMMA Invariant == Spec => []Inv
BY Initially, Preserved, PTL DEF Spec

\* Every variable keeps its type; a channel never holds more than its slot.
THEOREM TypeCorrect == Spec => []TypeOK
BY Invariant, PTL DEF Inv

\* A flow that has returned left no listener and no handler behind, and got a
\* token only for a code that a callback brought (oauth.go:125).
THEOREM NothingRuns == Spec => []NothingLeftRunning
<1>1. Inv => NothingLeftRunning
  BY DEF Inv, FlowInv, NothingLeftRunning
<1> QED
  BY <1>1, Invariant, PTL

\* The safety core of FlowReturns: with one answer of each kind at most, a
\* handler never waits for room (oauth.go:60), so Shutdown waits for nobody.
THEOREM NoJam == Spec => []NobodyWaitsAlone
<1>1. Inv => NobodyWaitsAlone
  BY OAuthFlowAssumption DEF Inv, TypeOK, AnswersInv, NobodyWaitsAlone, HasRoom, Senders
<1> QED
  BY <1>1, Invariant, PTL

-----------------------------------------------------------------------------
(* The flow under fairness.  Each phase is left: the wait for the browser and *)
(* the select by a step of the flow, Shutdown when the last connection is     *)
(* closed, and a connection by its handler, for which NobodyWaitsAlone makes  *)
(* room.  The prover cannot compute ENABLED, and cannot go from each one of a *)
(* finite set to all of them in a temporal formula.  So what the steps ask    *)
(* for is written out, and both are hypotheses: the first is a fact about the *)
(* definitions of the actions, the second a law of temporal logic that holds  *)
(* whenever Callbacks is finite.                                              *)

Trigger == codeCh # <<>> \/ errCh # <<>> \/ cancelled
Decided == flow \in {"shutdown", "exchange", "done"}
FlowAt(step) == flow = step

\* Two answers of one kind were brought.
Rivals == \E k \in {"code", "error"} : \E r, s \in Senders(k) : r # s

IsClosed(r)  == conn[r] = "closed"
Opened(r)    == conn[r] = "open"
Handled(r)   == conn[r] = "handled"
Settled(r)   == conn[r] \in {"none", "closed"}
Answering(r) == Handled(r) /\ HasRoom(IF kind[r] = "code" THEN codeCh ELSE errCh)

NothingElseIsAsked ==
    /\ FlowAt("browser") \/ (FlowAt("select") /\ Trigger) \/ (FlowAt("shutdown") /\ Quiet)
         \/ FlowAt("exchange")
           => ENABLED <<FlowStep>>_vars
    /\ \A r \in Callbacks :
         Opened(r) \/ Answering(r) => ENABLED <<HandlerStep(r)>>_vars

EachThenAll == (\A r \in Callbacks : <>[]Settled(r)) => <>[]Quiet

LEMMA FlowSteps ==
    ASSUME Inv, [Next]_vars
    PROVE  /\ FlowAt("browser") => FlowAt("browser")' \/ FlowAt("select")' \/ Decided'
           /\ FlowAt("select") => FlowAt("select")' \/ Decided'
           /\ FlowAt("shutdown") => FlowAt("shutdown")' \/ FlowAt("exchange")' \/ FlowAt("done")'
           /\ FlowAt("exchange") => FlowAt("exchange")' \/ FlowAt("done")'
           /\ FlowAt("done") => FlowAt("done")'
           /\ Trigger => Trigger' \/ Decided'
<1> USE DEF Inv, TypeOK, FlowAt, Decided, Trigger
<1>1. CASE FlowStep
  BY <1>1 DEF FlowStep, BrowserOpens, BrowserFails, SelectDone, SelectError, SelectCode,
     Shutdown, Exchange, Decide
<1>2. CASE Cancel \/ ServeFails
  BY <1>2 DEF Cancel, ServeFails
<1>3. CASE SendServeError
  BY <1>3 DEF SendServeError
<1>4. ASSUME NEW r \in Callbacks, Connect(r) \/ Request(r) PROVE UNCHANGED <<flow, codeCh, errCh, cancelled>>
  BY <1>4 DEF Connect, Request
<1>5. ASSUME NEW r \in Callbacks, Send(r)
      PROVE  UNCHANGED <<flow, cancelled>> /\ (codeCh # <<>> => codeCh' # <<>>)
                /\ (errCh # <<>> => errCh' # <<>>)
  BY <1>5 DEF Send, HasRoom
<1>6. CASE UNCHANGED vars
  BY <1>6 DEF vars
<1> QED
  BY <1>1, <1>2, <1>3, <1>4, <1>5, <1>6 DEF Next, HandlerStep

\* What a step of the flow leads to.
LEMMA FlowMoves ==
    ASSUME Inv, FlowStep
    PROVE  /\ FlowAt("browser") => FlowAt("select")' \/ Decided'
           /\ FlowAt("select") => Decided'
           /\ FlowAt("shutdown") => FlowAt("exchange")' \/ FlowAt("done")'
           /\ FlowAt("exchange") => FlowAt("done")'
BY DEF Inv, TypeOK, FlowAt, Decided, FlowStep, BrowserOpens, BrowserFails, SelectDone,
   SelectError, SelectCode, Shutdown, Exchange, Decide

\* A connection is closed by its handler only, and opened by nobody once the
\* flow is decided.
LEMMA ConnectionSteps ==
    ASSUME Inv, [Next]_vars, NEW r \in Callbacks
    PROVE  /\ Opened(r) => Opened(r)' \/ Handled(r)' \/ IsClosed(r)'
           /\ Handled(r) => Handled(r)' \/ IsClosed(r)'
           /\ IsClosed(r) => IsClosed(r)'
           /\ Decided /\ Settled(r) => Settled(r)'
           /\ HandlerStep(r) => (Opened(r) => Handled(r)' \/ IsClosed(r)')
                               /\ (Handled(r) => IsClosed(r)')
<1> USE DEF Inv, TypeOK, FlowInv, Opened, Handled, IsClosed, Settled, Decided
<1>1. CASE HandlerStep(r)
  BY <1>1 DEF HandlerStep, Request, Send
<1>2. CASE Connect(r) /\ ~HandlerStep(r)
  BY <1>2 DEF Connect
<1>3. CASE conn'[r] = conn[r] /\ ~HandlerStep(r)
  BY <1>3
<1>4. ASSUME NEW q \in Callbacks \ {r}, Connect(q) \/ HandlerStep(q) PROVE conn'[r] = conn[r]
  BY <1>4 DEF Connect, HandlerStep, Request, Send
<1>5. CASE FlowStep \/ Cancel \/ ServeFails \/ SendServeError
  BY <1>1, <1>3, <1>5 DEF FlowStep, BrowserOpens, BrowserFails, SelectDone, SelectError, SelectCode,
     Shutdown, Exchange, Decide, Cancel, ServeFails, SendServeError
<1>6. CASE UNCHANGED vars
  BY <1>1, <1>3, <1>6 DEF vars
<1> QED
  BY <1>1, <1>2, <1>3, <1>4, <1>5, <1>6 DEF Next

\* Without rivals a handler that has an answer can send it.
LEMMA RoomToAnswer ==
    ASSUME Inv, NobodyWaitsAlone, ~Rivals, NEW r \in Callbacks, Handled(r)
    PROVE  Answering(r)
<1>1. kind[r] \in {"code", "error"}
  BY DEF Inv, AnswersInv, Handled
<1>2. r \in Senders(kind[r])
  BY DEF Senders
<1>3. Senders(kind[r]) = {r}
  BY <1>1, <1>2 DEF Rivals
<1> QED
  BY <1>3 DEF NobodyWaitsAlone, Handled, Answering

\* An answer, or a caller who gives up, makes the flow leave its select.
THEOREM FlowDecides ==
    FairSpec /\ []NothingElseIsAsked => (Trigger ~> Decided)
<1>1. Inv /\ [Next]_vars =>
        /\ FlowAt("browser") => FlowAt("browser")' \/ FlowAt("select")' \/ Decided'
        /\ FlowAt("select") => FlowAt("select")' \/ Decided'
        /\ Trigger => Trigger' \/ Decided'
  BY FlowSteps
<1>2. Inv /\ <<FlowStep>>_vars =>
        /\ FlowAt("browser") => FlowAt("select")' \/ Decided'
        /\ FlowAt("select") => Decided'
  BY FlowMoves
<1>3. NothingElseIsAsked /\ (FlowAt("browser") \/ (FlowAt("select") /\ Trigger)) =>
        ENABLED <<FlowStep>>_vars
  BY DEF NothingElseIsAsked
<1>4. Inv => FlowAt("browser") \/ FlowAt("select") \/ Decided
  BY DEF Inv, TypeOK, FlowAt, Decided
<1>5. FairSpec => Spec /\ WF_vars(FlowStep)
  BY PTL DEF FairSpec, Fairness, FlowFair
<1> QED
  BY <1>1, <1>2, <1>3, <1>4, <1>5, Invariant, PTL DEF Spec

\* Every connection is closed in the end, by an answer, a refusal or the read
\* timeout, unless two answers of one kind were brought (oauth.go:66, the channels
\* have one slot each).
THEOREM ConnectionsEnd ==
    ASSUME NEW r \in Callbacks
    PROVE  FairSpec /\ []NothingElseIsAsked =>
              (conn[r] \in {"open", "handled"} ~> conn[r] = "closed" \/ Rivals)
<1>1. Inv /\ [Next]_vars =>
        /\ Opened(r) => Opened(r)' \/ Handled(r)' \/ IsClosed(r)'
        /\ Handled(r) => Handled(r)' \/ IsClosed(r)'
  BY ConnectionSteps
<1>2. Inv /\ [Next]_vars /\ <<HandlerStep(r)>>_vars =>
        /\ Opened(r) => Handled(r)' \/ IsClosed(r)'
        /\ Handled(r) => IsClosed(r)'
  BY ConnectionSteps
<1>3. Inv /\ NobodyWaitsAlone /\ NothingElseIsAsked =>
        /\ Opened(r) => ENABLED <<HandlerStep(r)>>_vars
        /\ Handled(r) => ENABLED <<HandlerStep(r)>>_vars \/ Rivals
  BY RoomToAnswer DEF NothingElseIsAsked
<1>4. FairSpec => Spec /\ WF_vars(HandlerStep(r))
  <2>1. Fairness => HandlerFair(r)
    BY DEF Fairness
  <2> QED
    BY <2>1, PTL DEF FairSpec, HandlerFair
<1>5. FairSpec /\ []NothingElseIsAsked => (Opened(r) \/ Handled(r) ~> IsClosed(r) \/ Rivals)
  BY <1>1, <1>2, <1>3, <1>4, Invariant, NoJam, PTL DEF Spec
<1>6. /\ conn[r] \in {"open", "handled"} => Opened(r) \/ Handled(r)
      /\ IsClosed(r) => conn[r] = "closed"
  BY DEF Opened, Handled, IsClosed
<1> QED
  BY <1>5, <1>6, PTL

\* So once the flow is decided and without rivals each connection settles.
LEMMA Settles ==
    ASSUME NEW r \in Callbacks
    PROVE  FairSpec /\ []NothingElseIsAsked /\ <>[](Decided /\ ~Rivals) => <>[]Settled(r)
<1>1. Inv /\ [Next]_vars => (Decided /\ Settled(r) => Settled(r)')
  BY ConnectionSteps
<1>2. conn[r] = "closed" => Settled(r)
  BY DEF Settled
<1>3. Inv => Settled(r) \/ conn[r] \in {"open", "handled"}
  BY DEF Inv, TypeOK, Settled
<1>4. FairSpec => Spec
  BY PTL DEF FairSpec
<1> QED
  BY <1>1, <1>2, <1>3, <1>4, ConnectionsEnd, Invariant, PTL DEF Spec

\* The flow returns once there is an answer or the caller gives up, for any
\* finite number of callbacks, unless two of the same kind were brought.
THEOREM Returns ==
    FairSpec /\ []NothingElseIsAsked /\ EachThenAll => FlowReturns
<1>1. FairSpec /\ []NothingElseIsAsked /\ EachThenAll /\ <>[](Decided /\ ~Rivals) => <>[]Quiet
  BY Settles DEF EachThenAll
<1>2. Inv /\ [Next]_vars =>
        /\ FlowAt("shutdown") => FlowAt("shutdown")' \/ FlowAt("exchange")' \/ FlowAt("done")'
        /\ FlowAt("exchange") => FlowAt("exchange")' \/ FlowAt("done")'
        /\ FlowAt("done") => FlowAt("done")'
  BY FlowSteps
<1>3. Inv /\ <<FlowStep>>_vars =>
        /\ FlowAt("shutdown") => FlowAt("exchange")' \/ FlowAt("done")'
        /\ FlowAt("exchange") => FlowAt("done")'
  BY FlowMoves
<1>4. NothingElseIsAsked /\ ((FlowAt("shutdown") /\ Quiet) \/ FlowAt("exchange")) =>
        ENABLED <<FlowStep>>_vars
  BY DEF NothingElseIsAsked
<1>5. Decided <=> FlowAt("shutdown") \/ FlowAt("exchange") \/ FlowAt("done")
  BY DEF Decided, FlowAt
<1>6. FairSpec => Spec /\ WF_vars(FlowStep)
  BY PTL DEF FairSpec, Fairness, FlowFair
<1>7. FairSpec /\ []NothingElseIsAsked /\ EachThenAll => (Trigger ~> FlowAt("done") \/ Rivals)
  BY <1>1, <1>2, <1>3, <1>4, <1>5, <1>6, FlowDecides, Invariant, PTL DEF Spec
<1> QED
  BY <1>7, PTL DEF FlowReturns, Trigger, FlowAt, Rivals
==============================================================================
