------------------------------ MODULE FsWatch ------------------------------
(* internal/fswatch/fswatch.go: the goroutine that turns raw file           *)
(* notifications into debounced events, and its environment: users changing *)
(* files, the kernel's bounded notification queue, and the clock.           *)
(*                                                                          *)
(* The directories under the sync root and the walk that watches them are   *)
(* the subject of WatchTree; here every path lies in a directory that is    *)
(* watched from the moment Start has walked the tree.                       *)
EXTENDS FsEvents, StatusStore, FiniteSets

CONSTANTS
    Paths,        \* files below the sync root
    Ignored,      \* those shouldIgnore rejects
    Debounce,     \* the debounce interval, in clock units
    OutCap,       \* capacity of Watcher.out (256 in the code)
    KernelCap,    \* notifications the kernel queues before it overflows
    EventLogSize, \* cfg.EventLogSize
    MaxChanges,   \* bound: file changes in a behaviour
    MaxTime       \* bound: changes stop after this time, the clock runs on
                  \* only while a pending event is not yet due

NotTold == -1

Raw   == [path : Paths, bits : (SUBSET RawOp) \ {{}}]
Event == [path : Paths \ Ignored, op : Op, when : Nat]

ASSUME FsWatchAssumption ==
    /\ NoEvent \notin Event
    /\ Debounce \in Nat /\ OutCap \in Nat \ {0} /\ KernelCap \in Nat
    /\ EventLogSize \in Int /\ MaxChanges \in Nat /\ MaxTime \in Nat

VARIABLES
    exists,     \* environment: the files that exist
    changes,    \* environment: how many changes were made
    clock,      \* time.Now()
    kq,         \* raw notifications the kernel holds, oldest first
    kerr,       \* watcher.Errors holds a queue-overflow error
    told,       \* ghost: when the latest change of a path was queued in kq,
                \* NotTold if it never was (not watching, overflow)
    wpc,        \* where the watcher is
    pending,    \* Watcher.pending: path -> debounced event or NoEvent
    ready,      \* flushPending's local slice, still to be published
    sending,    \* the event between AddEvent and the send on out
    out,        \* Watcher.out
    recorded,   \* ghost: every event given to AddEvent, in order
    drops,      \* ghost: how many recorded events a full channel rejected
    store,      \* the daemon's status.Store
    cancelled   \* the context the daemon passed to Start is done

Watching == wpc \in {"watched", "select", "publish", "send"}

WatchInit ==
    /\ exists \in SUBSET Paths
    /\ changes = 0 /\ clock = 0
    /\ kq = <<>> /\ kerr = FALSE
    /\ told = [p \in Paths |-> NotTold]
    /\ wpc = "new"
    /\ pending = [p \in Paths |-> NoEvent]
    /\ ready = {} /\ sending = <<>>
    /\ out = <<>>
    /\ recorded = <<>> /\ drops = 0
    /\ store = SetMaxEvents(NewStore, EventLogSize)

fileVars  == <<exists, changes, kq, kerr, told>>
flushVars == <<ready, sending, out, recorded, drops>>

-----------------------------------------------------------------------------
(* The environment.                                                         *)

\* A change of path that leaves the files in files and is announced by bits.
\* The kernel queues the notification, or raises the overflow error.
Change(path, bits, files) ==
    /\ changes < MaxChanges /\ clock <= MaxTime
    /\ exists' = files
    /\ changes' = changes + 1
    /\ LET queued == Watching /\ Len(kq) < KernelCap
       IN  /\ kq' = IF queued THEN Append(kq, [path |-> path, bits |-> bits]) ELSE kq
           /\ told' = [told EXCEPT ![path] = IF queued THEN clock ELSE NotTold]
           /\ kerr' = (kerr \/ (Watching /\ ~queued))
    /\ UNCHANGED <<clock, wpc, pending, flushVars, store>>

\* A file is created, or another one is moved over this name.
CreateFile == \E p \in Paths : Change(p, {"create"}, exists \cup {p})
WriteFile  == \E p \in exists : Change(p, {"write"}, exists)
ChmodFile  == \E p \in exists : Change(p, {"chmod"}, exists)
RemoveFile == \E p \in exists : Change(p, {"remove"}, exists \ {p})
\* The file is moved to another name; the arrival there is a CreateFile.
RenameFile == \E p \in exists : Change(p, {"rename"}, exists \ {p})

TimePasses ==
    /\ \/ clock < MaxTime
       \/ \E p \in Paths : pending[p] # NoEvent /\ pending[p].when > clock
    /\ clock' = clock + 1
    /\ UNCHANGED <<fileVars, wpc, pending, flushVars, store>>

-----------------------------------------------------------------------------
(* Watcher.Start, called once by Daemon.Run.                                *)

\* SyncRoot is empty, or it cannot be created or walked: Start returns and
\* the daemon goes on without a watcher goroutine.
StartNothing ==
    /\ wpc = "new" /\ wpc' = "off"
    /\ UNCHANGED <<fileVars, clock, pending, flushVars, store>>

\* The tree is walked: from here on the kernel queues notifications.
StartWatching ==
    /\ wpc = "new" /\ wpc' = "watched"
    /\ UNCHANGED <<fileVars, clock, pending, flushVars, store>>

\* The status is published and the goroutine starts.
StartRun ==
    /\ wpc = "watched" /\ wpc' = "select"
    /\ store' = Update(store, "idle", NoEvent)
    /\ UNCHANGED <<fileVars, clock, pending, flushVars>>

-----------------------------------------------------------------------------
(* Watcher.run: one action per case of the select.                          *)

HandleEvent ==
    /\ wpc = "select" /\ kq # <<>>
    /\ kq' = Tail(kq)
    /\ LET path == Head(kq).path
           op   == normalizeOp(Head(kq).bits)
       IN  pending' =
             IF path \in Ignored \/ op = "unknown" THEN pending
             ELSE [pending EXCEPT ![path] =
                     [path |-> path,
                      op   |-> IF pending[path] = NoEvent THEN op
                               ELSE mergeOp(pending[path].op, op),
                      when |-> clock + Debounce]]
    /\ UNCHANGED <<exists, changes, clock, kerr, told, wpc, flushVars, store>>

\* Mutant: the error is only logged.
HandleErrorSilent ==
    /\ wpc = "select" /\ kerr
    /\ kerr' = FALSE
    /\ UNCHANGED <<exists, changes, clock, kq, told, wpc, pending, flushVars, store>>

\* Mutant: the error ends the watcher.
HandleErrorReturns ==
    /\ wpc = "select" /\ kerr
    /\ kerr' = FALSE
    /\ wpc' = "stopped"
    /\ store' = Update(store, "error", NoEvent)
    /\ UNCHANGED <<exists, changes, clock, kq, told, pending, flushVars>>

HandleError ==
    /\ wpc = "select" /\ kerr
    /\ kerr' = FALSE
    /\ store' = Update(store, "error", NoEvent)
    /\ UNCHANGED <<exists, changes, clock, kq, told, wpc, pending, flushVars>>

\* Mutant: an event is due one unit too early.
DueEarly == {p \in Paths : pending[p] # NoEvent /\ pending[p].when <= clock + 1}

Due == {p \in Paths : pending[p] # NoEvent /\ pending[p].when <= clock}

\* flushPending up to the unlock; with nothing due it changes nothing.
FlushPending ==
    /\ wpc = "select" /\ Due # {}
    /\ ready' = {[path |-> p, op |-> pending[p].op, when |-> clock] : p \in Due}
    /\ pending' = [p \in Paths |-> IF p \in Due THEN NoEvent ELSE pending[p]]
    /\ wpc' = "publish"
    /\ UNCHANGED <<fileVars, clock, sending, out, recorded, drops, store>>

\* The loop over ready, first half: the event is put into the status.  Go
\* iterates over the map pending in any order, and so does this.
RecordEvent ==
    /\ wpc = "publish"
    /\ \E evt \in ready :
         /\ store' = AddEvent(store, evt)
         /\ recorded' = Append(recorded, evt)
         /\ sending' = <<evt>>
         /\ ready' = ready \ {evt}
    /\ wpc' = "send"
    /\ UNCHANGED <<fileVars, clock, pending, out, drops>>

\* The loop over ready, second half: the non-blocking send.
SendEvent ==
    /\ wpc = "send"
    /\ IF Len(out) < OutCap
       THEN out' = out \o sending /\ UNCHANGED drops
       ELSE drops' = drops + 1 /\ UNCHANGED out
    /\ sending' = <<>>
    /\ wpc' = IF ready = {} THEN "select" ELSE "publish"
    /\ UNCHANGED <<fileVars, clock, pending, ready, recorded, store>>

StopWatcher ==
    /\ wpc = "select" /\ cancelled
    /\ wpc' = "stopped"
    /\ UNCHANGED <<fileVars, clock, pending, flushVars, store>>
=============================================================================
