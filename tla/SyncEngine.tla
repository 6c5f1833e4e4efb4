----------------------------- MODULE SyncEngine -----------------------------
(* internal/sync and the forwarding goroutine of internal/daemon: events    *)
(* leave Watcher.out through the forwarder, wait in the bounded sync queue  *)
(* and are taken by the engine, which publishes its state around each one.  *)
EXTENDS StatusStore

CONSTANT SyncQueueSize      \* cfg.SyncQueueSize

VARIABLES
    out,        \* Watcher.out, filled by the watcher
    hand,       \* the event the forwarder holds: <<>> or <<evt>>
    queue,      \* Queue.ch
    epc,        \* where the engine is
    received,   \* ghost: every event the engine took, in order
    drops,      \* ghost: events rejected by a full channel
    store, cancelled

\* NewQueue's capacity.
QueueCap == IF SyncQueueSize <= 0 THEN 1024 ELSE SyncQueueSize

EngineInit == hand = <<>> /\ queue = <<>> /\ epc = "select" /\ received = <<>>

-----------------------------------------------------------------------------
(* The forwarder: for evt := range Events() { Queue.Enqueue(evt) }.  Nobody *)
(* closes Watcher.out, so it never leaves the loop.                         *)

Forward ==
    /\ hand = <<>> /\ out # <<>>
    /\ hand' = <<Head(out)>> /\ out' = Tail(out)
    /\ UNCHANGED <<queue, epc, received, drops, store>>

\* Mutant: a full queue forgets its oldest event for the new one.
EnqueueOverwrites ==
    /\ hand # <<>>
    /\ queue' = (IF Len(queue) < QueueCap THEN queue ELSE Tail(queue)) \o hand
    /\ hand' = <<>>
    /\ UNCHANGED <<out, epc, received, drops, store>>

Enqueue ==
    /\ hand # <<>>
    /\ IF Len(queue) < QueueCap
       THEN queue' = queue \o hand /\ UNCHANGED drops
       ELSE drops' = drops + 1 /\ UNCHANGED queue
    /\ hand' = <<>>
    /\ UNCHANGED <<out, epc, received, store>>

-----------------------------------------------------------------------------
(* Engine.Run: one action per case of the select, then the two updates that *)
(* handleEvent and the tick share.                                          *)

\* Mutant: the event stays at the head of the queue.
ReceivePeeks ==
    /\ epc = "select" /\ queue # <<>>
    /\ received' = Append(received, Head(queue))
    /\ epc' = "begin"
    /\ UNCHANGED <<out, hand, queue, drops, store>>

ReceiveEvent ==
    /\ epc = "select" /\ queue # <<>>
    /\ received' = Append(received, Head(queue))
    /\ queue' = Tail(queue)
    /\ epc' = "begin"
    /\ UNCHANGED <<out, hand, drops, store>>

Tick ==
    /\ epc = "select"
    /\ epc' = "begin"
    /\ UNCHANGED <<out, hand, queue, received, drops, store>>

BeginSync ==
    /\ epc = "begin"
    /\ epc' = "end"
    /\ store' = Update(store, "syncing", NoEvent)
    /\ UNCHANGED <<out, hand, queue, received, drops>>

\* Mutant: the engine does not go back to idle.
EndSyncSilent ==
    /\ epc = "end"
    /\ epc' = "select"
    /\ UNCHANGED <<out, hand, queue, received, drops, store>>

\* Mutant: the engine leaves its loop after one round.
EndSyncReturns ==
    /\ epc = "end"
    /\ epc' = "stopped"
    /\ store' = Update(store, "idle", NoEvent)
    /\ UNCHANGED <<out, hand, queue, received, drops>>

EndSync ==
    /\ epc = "end"
    /\ epc' = "select"
    /\ store' = Update(store, "idle", NoEvent)
    /\ UNCHANGED <<out, hand, queue, received, drops>>

\* Mutant: ctx.Done leaves the select, not the loop.
StopEngineContinues ==
    /\ epc = "select" /\ cancelled
    /\ store' = Update(store, "idle", NoEvent)
    /\ UNCHANGED <<out, hand, queue, epc, received, drops>>

StopEngine ==
    /\ epc = "select" /\ cancelled
    /\ epc' = "stopped"
    /\ store' = Update(store, "idle", NoEvent)
    /\ UNCHANGED <<out, hand, queue, received, drops>>
=============================================================================
