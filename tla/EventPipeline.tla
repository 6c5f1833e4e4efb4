--------------------------- MODULE EventPipeline ---------------------------
(* The event path of the daemon, as Daemon.Run wires it: file changes are   *)
(* debounced by the watcher (FsWatch), forwarded into the sync queue and    *)
(* taken by the engine (SyncEngine), while the three goroutines share one   *)
(* status store and stop when the daemon's context is cancelled.            *)
EXTENDS FsWatch

CONSTANT SyncQueueSize     \* cfg.SyncQueueSize

ASSUME EventPipelineAssumption == SyncQueueSize \in Int

VARIABLES hand, queue, epc, received

E == INSTANCE SyncEngine

watchVars  == <<exists, changes, clock, kq, kerr, told, wpc, pending, ready,
                sending, recorded>>
engineVars == <<hand, queue, epc, received>>
sharedVars == <<out, drops, store, cancelled>>
vars == <<watchVars, engineVars, sharedVars>>

Init == WatchInit /\ E!EngineInit /\ cancelled = FALSE

\* syncCancel, at a signal or when the IPC server fails.
Cancel ==
    /\ ~cancelled /\ cancelled' = TRUE
    /\ UNCHANGED <<watchVars, engineVars, out, drops, store>>

\* The watcher and its environment leave the engine alone, and conversely.
WatcherOnly == UNCHANGED <<engineVars, cancelled>>
EngineOnly  == UNCHANGED <<watchVars, cancelled>>

Next ==
    \/ CreateFile      /\ WatcherOnly
    \/ WriteFile       /\ WatcherOnly
    \/ ChmodFile       /\ WatcherOnly
    \/ RemoveFile      /\ WatcherOnly
    \/ RenameFile      /\ WatcherOnly
    \/ TimePasses      /\ WatcherOnly
    \/ StartNothing    /\ WatcherOnly
    \/ StartWatching   /\ WatcherOnly
    \/ StartRun        /\ WatcherOnly
    \/ HandleEvent     /\ WatcherOnly
    \/ HandleError     /\ WatcherOnly
    \/ FlushPending    /\ WatcherOnly
    \/ RecordEvent     /\ WatcherOnly
    \/ SendEvent       /\ WatcherOnly
    \/ StopWatcher     /\ WatcherOnly
    \/ E!Forward       /\ EngineOnly
    \/ E!Enqueue       /\ EngineOnly
    \/ E!ReceiveEvent  /\ EngineOnly
    \/ E!Tick          /\ EngineOnly
    \/ E!BeginSync     /\ EngineOnly
    \/ E!EndSync       /\ EngineOnly
    \/ E!StopEngine    /\ EngineOnly
    \/ Cancel

\* Every goroutine keeps running, and a select whose cases stay ready takes
\* each of them again and again: Go picks among ready cases uniformly at
\* random.  Nothing makes users change files, and nothing cancels the daemon.
wv == <<exists, changes, clock, kq, kerr, told, wpc, pending, ready, sending,
        recorded, out, drops, store>>
ev == <<engineVars, out, drops, store>>

Fairness ==
    /\ WF_wv(TimePasses)
    /\ WF_wv(StartNothing \/ StartWatching) /\ WF_wv(StartRun)
    /\ SF_wv(HandleEvent) /\ SF_wv(HandleError) /\ SF_wv(FlushPending)
    /\ SF_wv(StopWatcher)
    /\ WF_wv(RecordEvent) /\ WF_wv(SendEvent)
    /\ WF_ev(E!Forward) /\ WF_ev(E!Enqueue)
    /\ SF_ev(E!ReceiveEvent) /\ SF_ev(E!StopEngine)
    /\ WF_ev(E!BeginSync) /\ WF_ev(E!EndSync)

Spec     == Init /\ [][Next]_vars
FairSpec == Spec /\ Fairness

-----------------------------------------------------------------------------
(* What the state of the pipeline says.                                     *)

\* The events on their way from the watcher to the engine, oldest first.
InTransit == queue \o hand \o out \o sending

\* No notification of path p waits anywhere in the watcher.
Settled(p) ==
    /\ \A i \in 1..Len(kq) : kq[i].path # p
    /\ pending[p] = NoEvent
    /\ \A evt \in ready : evt.path # p

\* i is the position of the latest event recorded for p.
LatestFor(p, i) ==
    /\ i \in 1..Len(recorded) /\ recorded[i].path = p
    /\ \A j \in i+1..Len(recorded) : recorded[j].path # p

Store == [state : State, last : Event \cup {NoEvent}, recent : Seq(Event),
          ring : Seq(Event), maxEvents : Nat \ {0}]

TypeOK ==
    /\ exists \subseteq Paths /\ changes \in Nat /\ clock \in Nat
    /\ kq \in Seq(Raw) /\ kerr \in BOOLEAN
    /\ told \in [Paths -> Nat \cup {NotTold}]
    /\ wpc \in {"new", "off", "watched", "select", "publish", "send", "stopped"}
    /\ pending \in [Paths -> Event \cup {NoEvent}]
    /\ \A p \in Paths : pending[p] # NoEvent => pending[p].path = p
    /\ ready \subseteq Event /\ sending \in Seq(Event) /\ out \in Seq(Event)
    /\ recorded \in Seq(Event) /\ drops \in Nat
    /\ hand \in Seq(Event) /\ queue \in Seq(Event) /\ received \in Seq(Event)
    /\ epc \in {"select", "begin", "end", "stopped"}
    /\ store \in Store
    /\ cancelled \in BOOLEAN

\* Debouncing and merging never lose the fact that a path changed: once
\* nothing about a path waits, its latest event was stamped a full debounce
\* interval or more after the latest change the kernel announced (fswatch.go,
\* handleEvent and flushPending).
LatestChangeReported ==
    \A p \in Paths \ Ignored :
        told[p] # NotTold /\ Settled(p) =>
            \E i \in 1..Len(recorded) :
                LatestFor(p, i) /\ recorded[i].when >= told[p] + Debounce

\* A file that is gone, and whose end the kernel announced, is reported gone:
\* no merge with an earlier or later notification turns the report into one
\* that says the file is there (events.go, mergeOp).
RemovalReported ==
    \A p \in Paths \ exists :
        told[p] # NotTold /\ Settled(p) =>
            \A i \in 1..Len(recorded) : LatestFor(p, i) => recorded[i].op \in Removal

\* The reverse, for "Files appear in local folder; edits sync automatically"
\* (docs/googlysync-prd.md:122): a file that is there is not left reported as
\* removed or renamed away.
PresenceReported ==
    \A p \in exists :
        told[p] # NotTold /\ Settled(p) =>
            \A i \in 1..Len(recorded) : LatestFor(p, i) => recorded[i].op \notin Removal

\* Two events of the same path are at least a debounce interval apart.
Spaced(events) ==
    \A i, j \in 1..Len(events) :
        i < j /\ events[i].path = events[j].path =>
            events[j].when >= events[i].when + Debounce

\* The status and the engine get the events of a path at least a debounce
\* interval apart, however many changes, flushes, drops and interleavings lie
\* between them.
RecordsAreSpaced == Spaced(recorded)
ReportsAreSpaced == RecordsAreSpaced /\ Spaced(received)

\* The snapshot shows exactly the newest events recorded, in order, and the
\* newest as the last event: no Update of the engine or the watcher, made from
\* a snapshot without events, erases or rolls back what AddEvent put there.
StatusShowsRecorded ==
    /\ store.recent = Newest(recorded, store.maxEvents)
    /\ store.last = IF recorded = <<>> THEN NoEvent ELSE recorded[Len(recorded)]

\* "syncing" is only ever shown while the engine is between its two updates:
\* no interleaving with the watcher's updates or with shutdown leaves it stuck.
SyncingMeansBusy == store.state = "syncing" => epc = "end"

\* Every recorded event was taken by the engine, is on its way, or was counted
\* out by a full channel: nothing disappears between the goroutines.
EveryEventAccountedFor ==
    Len(recorded) = Len(received) + Len(InTransit) + drops

\* No event is dropped before more events were recorded than the smaller of
\* the two channels holds (fswatch.go's and queue.go's default branches).
NoLossWithinCapacity ==
    Len(recorded) <= OutCap /\ Len(recorded) <= E!QueueCap => drops = 0

\* As long as no channel was full, nothing is wrong with the order either: the
\* engine has, and will get, what was recorded.
EngineGetsRecorded == drops = 0 => received \o InTransit = recorded

\* Then the engine, when nothing is on its way, knows of every announced change:
\* the latest event it took for the path was stamped a debounce interval or more
\* after the change, and is a removal when the file is gone.
EngineLearns ==
    drops = 0 /\ InTransit = <<>> =>
        \A p \in Paths \ Ignored : told[p] # NotTold /\ Settled(p) =>
            \E i \in 1..Len(received) :
                /\ received[i].path = p
                /\ \A j \in i+1..Len(received) : received[j].path # p
                /\ received[i].when >= told[p] + Debounce
                /\ p \notin exists => received[i].op \in Removal

\* The way to the engine is a FIFO that may lose events and does nothing else.
Fifo == INSTANCE LossyFifo WITH
            sent <- recorded, transit <- InTransit
ImplementsLossyFifo == Fifo!Spec

\* A change the kernel announced is eventually processed by the watcher, a
\* recorded event eventually reaches the engine or a full channel.
ChangesAreProcessed ==
    \A p \in Paths : told[p] # NotTold ~> Settled(p) \/ cancelled
EventsReachEngine == InTransit # <<>> ~> InTransit = <<>> \/ cancelled

\* A queue overflow is eventually shown as the error state.
OverflowIsShown == kerr ~> store.state = "error" \/ cancelled

\* After cancellation both goroutines stop, wherever they are.
ShutdownCompletes ==
    cancelled ~> epc = "stopped" /\ wpc \in {"off", "stopped"}

-----------------------------------------------------------------------------
(* The inductive strengthening of the safety properties, part by part.      *)

\* Which of the watcher's and the forwarder's locals can be in use where.
Shape ==
    /\ IF wpc = "send" THEN Len(sending) = 1 ELSE sending = <<>>
    /\ wpc = "publish" \/ (wpc = "send" /\ ready # {}) \/ ready = {}
    /\ hand = <<>> \/ Len(hand) = 1

\* The ring and the snapshot agree with the history of recorded events.
StatusInv == StatusShowsRecorded /\ store.ring = store.recent

\* No stamp lies in the future but a pending event's, by the debounce interval;
\* a path has at most one event in pending and ready together.
StampsInv ==
    /\ \A p \in Paths : told[p] <= clock
    /\ \A p \in Paths : pending[p] # NoEvent =>
          /\ pending[p].when <= clock + Debounce
          /\ \A evt \in ready : evt.path # p
    /\ \A evt \in ready : evt.when <= clock
    /\ \A e1, e2 \in ready : e1.path = e2.path => e1 = e2
    /\ \A i \in 1..Len(recorded) : recorded[i].when <= clock

\* What will be recorded for a path is spaced from what has been.
SpacingInv ==
    \A i \in 1..Len(recorded) :
        LET p == recorded[i].path
        IN  /\ pending[p] # NoEvent => pending[p].when >= recorded[i].when + Debounce
            /\ \A evt \in ready :
                  evt.path = p => evt.when >= recorded[i].when + Debounce

\* The latest change of a path is still queued, or waits or was recorded with
\* a stamp that leaves the debounce interval.
ChangeInv ==
    \A p \in Paths \ Ignored : told[p] # NotTold =>
        \/ \E i \in 1..Len(kq) : kq[i].path = p
        \/ pending[p] # NoEvent /\ pending[p].when >= told[p] + Debounce
        \/ \E evt \in ready : evt.path = p /\ evt.when >= told[p] + Debounce
        \/ \E i \in 1..Len(recorded) :
              LatestFor(p, i) /\ recorded[i].when >= told[p] + Debounce

\* The newest news of a file that is gone, wherever it is, says it is gone.
GoneInv ==
    \A p \in Paths \ exists : told[p] # NotTold =>
        /\ \A i \in 1..Len(kq) :
              kq[i].path = p /\ (\A j \in i+1..Len(kq) : kq[j].path # p)
                  => normalizeOp(kq[i].bits) \in Removal
        /\ (\A i \in 1..Len(kq) : kq[i].path # p) =>
              /\ pending[p] # NoEvent => pending[p].op \in Removal
              /\ \A evt \in ready : evt.path = p => evt.op \in Removal
              /\ pending[p] = NoEvent /\ (\A evt \in ready : evt.path # p) =>
                    \A i \in 1..Len(recorded) :
                        LatestFor(p, i) => recorded[i].op \in Removal
=============================================================================
