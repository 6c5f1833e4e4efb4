----------------------------- MODULE WatchTree -----------------------------
(* internal/fswatch/fswatch.go, addRecursive: which directories are watched. *)
(* inotify watches one directory, not a tree, so the watcher walks the sync  *)
(* root at Start and every directory whose creation it is told of, while     *)
(* users go on making, filling and removing directories.                     *)
(*                                                                           *)
(* A path is a directory or a file for good.  A directory leaves when it is  *)
(* empty; what fsnotify does with the watches below a directory that is      *)
(* renamed away is outside src and not modelled.                             *)
EXTENDS Integers, Sequences

CONSTANTS
    Root,       \* cfg.SyncRoot
    Dirs,       \* the directories that may come to be below it
    Files,      \* the files that may
    ParentOf,   \* the directory a path lies in
    Ignored,    \* the paths shouldIgnore rejects, by their own name
    KernelCap,  \* notifications the kernel queues before it overflows
    MaxChanges, \* bound: changes of the tree in a behaviour
    None        \* no path

Nodes   == Dirs \cup Files
AnyDir  == Dirs \cup {Root}
AnyPath == Nodes \cup {Root}

ASSUME WatchTreeAssumption ==
    /\ Dirs \cap Files = {} /\ Root \notin Nodes /\ None \notin AnyPath
    /\ ParentOf \in [Nodes -> AnyDir]
    /\ Ignored \subseteq AnyPath
    /\ KernelCap \in Nat /\ MaxChanges \in Nat

VARIABLES
    exists,     \* environment: the paths below the root that exist
    changes,    \* environment: how many changes were made
    watches,    \* the directories with an inotify watch
    kq,         \* notifications the kernel holds, oldest first
    wpc,        \* where the watcher is
    todo,       \* paths WalkDir has still to visit
    reading,    \* the directory between Add and ReadDir, or None
    unreported, \* ghost: files changed since Start without a report since
    lost,       \* ghost: a notification overflowed the kernel queue
    skipped     \* ghost: a walk gave up with paths left to visit

vars == <<exists, changes, watches, kq, wpc, todo, reading, unreported, lost, skipped>>

Note == [path : Nodes, op : {"create", "write", "remove"}]

\* Every path that exists lies in a directory that exists.
Closed(paths) == \A n \in paths : ParentOf[n] \in (paths \cap Dirs) \cup {Root}

Init ==
    /\ exists \in SUBSET Nodes /\ Closed(exists)
    /\ changes = 0
    /\ watches = {} /\ kq = <<>>
    /\ wpc = "new" /\ todo = {} /\ reading = None
    /\ unreported = {} /\ lost = FALSE /\ skipped = FALSE

-----------------------------------------------------------------------------
(* The environment.  Start has returned when the watcher serves its select.  *)

Started == wpc \in {"select", "adding"}
watcherVars == <<wpc, todo, reading, skipped>>

\* The watch on the parent announces a change of path n, or overflows.
Notify(n, op) ==
    LET watched == ParentOf[n] \in watches
        queued  == watched /\ Len(kq) < KernelCap
    IN  /\ kq' = IF queued THEN Append(kq, [path |-> n, op |-> op]) ELSE kq
        /\ lost' = (lost \/ (watched /\ ~queued))

\* Path n is made, or moved here with everything below it.
Arrive ==
    /\ changes < MaxChanges /\ changes' = changes + 1
    /\ \E new \in SUBSET (Nodes \ exists) : \E n \in new :
         /\ ParentOf[n] \in (exists \cap Dirs) \cup {Root}
         /\ \A m \in new \ {n} : ParentOf[m] \in new \cap Dirs
         /\ exists' = exists \cup new
         /\ Notify(n, "create")
         /\ unreported' = IF Started THEN unreported \cup (new \cap Files) ELSE unreported
    /\ UNCHANGED <<watches, watcherVars>>

WriteFile ==
    /\ changes < MaxChanges /\ changes' = changes + 1
    /\ \E f \in exists \cap Files :
         /\ Notify(f, "write")
         /\ unreported' = IF Started THEN unreported \cup {f} ELSE unreported
    /\ UNCHANGED <<exists, watches, watcherVars>>

\* A file or an empty directory is removed; its watch goes with it.
Remove ==
    /\ changes < MaxChanges /\ changes' = changes + 1
    /\ \E n \in exists :
         /\ \A m \in exists : ParentOf[m] # n
         /\ exists' = exists \ {n}
         /\ watches' = watches \ {n}
         /\ Notify(n, "remove")
         /\ unreported' = unreported \ {n}
    /\ UNCHANGED watcherVars

-----------------------------------------------------------------------------
(* The watcher.                                                              *)

Walking == wpc \in {"starting", "adding"}

\* SyncRoot is made if need be, and walked.
Start ==
    /\ wpc = "new"
    /\ wpc' = "starting" /\ todo' = {Root}
    /\ UNCHANGED <<exists, changes, watches, kq, reading, unreported, lost, skipped>>

\* The callback returns an error, and WalkDir gives up what is left to visit.
\* Start passes the error on and no goroutine is started; handleEvent ignores it.
GiveUp(left) ==
    /\ todo' = {} /\ reading' = None
    /\ skipped' = (skipped \/ left # {})
    /\ wpc' = IF wpc = "starting" THEN "off" ELSE wpc

\* Mutant: an ignored directory is not watched, but it is read.
SkipPathDescends ==
    /\ Walking /\ reading = None
    /\ \E n \in todo :
         /\ n \in Ignored \cup Files
         /\ todo' = todo \ {n}
         /\ reading' = IF n \in Dirs THEN n ELSE None
    /\ UNCHANGED <<exists, changes, watches, kq, wpc, unreported, lost, skipped>>

\* The callback on an ignored path (its tree is skipped) or on a file.
SkipPath ==
    /\ Walking /\ reading = None
    /\ \E n \in todo :
         /\ n \in Ignored \cup Files
         /\ todo' = todo \ {n}
    /\ UNCHANGED <<exists, changes, watches, kq, wpc, reading, unreported, lost, skipped>>

\* Mutant: a directory that is gone counts as watched.
AddWatchBlind ==
    /\ Walking /\ reading = None
    /\ \E n \in (todo \cap AnyDir) \ Ignored :
         /\ watches' = watches \cup {n}
         /\ reading' = n /\ todo' = todo \ {n}
    /\ UNCHANGED <<exists, changes, kq, wpc, unreported, lost, skipped>>

\* Mutant: the tree below the directory is not walked.
AddWatchFlat ==
    /\ Walking /\ reading = None
    /\ \E n \in (todo \cap AnyDir) \ Ignored :
         IF n \in exists \cup {Root}
         THEN /\ watches' = watches \cup {n}
              /\ todo' = todo \ {n}
              /\ UNCHANGED <<wpc, reading, skipped>>
         ELSE GiveUp(todo \ {n}) /\ UNCHANGED watches
    /\ UNCHANGED <<exists, changes, kq, unreported, lost>>

\* The callback on a directory: watcher.Add, which fails if it is gone.
AddWatch ==
    /\ Walking /\ reading = None
    /\ \E n \in (todo \cap AnyDir) \ Ignored :
         IF n \in exists \cup {Root}
         THEN /\ watches' = watches \cup {n}
              /\ reading' = n /\ todo' = todo \ {n}
              /\ UNCHANGED <<wpc, skipped>>
         ELSE GiveUp(todo \ {n}) /\ UNCHANGED watches
    /\ UNCHANGED <<exists, changes, kq, unreported, lost>>

\* WalkDir reads the directory the callback accepted.  Names are abstract, so
\* the entries are visited in any order, interleaved with those of other
\* directories: more orders than the one, depth first and sorted, of WalkDir.
ReadDir ==
    /\ Walking /\ reading # None
    /\ IF reading \in exists \cup {Root}
       THEN /\ todo' = todo \cup {m \in exists : ParentOf[m] = reading}
            /\ reading' = None
            /\ UNCHANGED <<wpc, skipped>>
       ELSE GiveUp(todo)
    /\ UNCHANGED <<exists, changes, watches, kq, unreported, lost>>

EndWalk ==
    /\ Walking /\ reading = None /\ todo = {}
    /\ wpc' = "select"
    /\ UNCHANGED <<exists, changes, watches, kq, todo, reading, unreported, lost, skipped>>

\* Mutant: a directory that is created is not walked.
HandleEventFlat ==
    /\ wpc = "select" /\ kq # <<>>
    /\ kq' = Tail(kq)
    /\ LET path == Head(kq).path
       IN  unreported' = IF path \in Ignored THEN unreported ELSE unreported \ {path}
    /\ UNCHANGED <<exists, changes, watches, wpc, todo, reading, lost, skipped>>

\* handleEvent: a directory that was created is walked; every path that is not
\* ignored becomes pending and so, by FsWatch, is reported.
HandleEvent ==
    /\ wpc = "select" /\ kq # <<>>
    /\ kq' = Tail(kq)
    /\ LET path == Head(kq).path
           made == Head(kq).op = "create" /\ path \in (Dirs \cap exists) \ Ignored
       IN  /\ wpc' = IF made THEN "adding" ELSE wpc
           /\ todo' = IF made THEN {path} ELSE {}
           /\ unreported' = IF path \in Ignored THEN unreported ELSE unreported \ {path}
    /\ UNCHANGED <<exists, changes, watches, reading, lost, skipped>>

Environment == Arrive \/ WriteFile \/ Remove
Watcher == Start \/ SkipPath \/ AddWatch \/ ReadDir \/ EndWalk \/ HandleEvent

Next == Environment \/ Watcher

Spec     == Init /\ [][Next]_vars
\* The watcher keeps running; nothing makes users change the tree.
FairSpec == Spec /\ WF_vars(Watcher)

-----------------------------------------------------------------------------
(* What the watches are for.                                                 *)

\* The paths without an ignored name anywhere on the way from the root: the
\* least set with the root, unless it is ignored, and with every path that is
\* not ignored and lies in a member.
Visible ==
    {v \in AnyPath :
        \A S \in SUBSET AnyPath :
            /\ Root \in S \cup Ignored
            /\ \A n \in Nodes \ Ignored : ParentOf[n] \in S => n \in S
            => v \in S}

\* All notifications are handled and no walk is under way.
Quiet == wpc = "select" /\ kq = <<>>

TypeOK ==
    /\ exists \subseteq Nodes /\ Closed(exists) /\ changes \in Nat
    /\ watches \subseteq AnyDir /\ watches \subseteq exists \cup {Root}
    /\ kq \in Seq(Note)
    /\ wpc \in {"new", "starting", "select", "adding", "off"}
    /\ todo \subseteq AnyPath /\ reading \in AnyDir \cup {None}
    /\ (~Walking => todo = {} /\ reading = None)
    /\ unreported \subseteq Files
    /\ lost \in BOOLEAN /\ skipped \in BOOLEAN

\* A directory below an ignored one is never watched, whatever was made,
\* moved or removed while a walk was on its way (addRecursive's SkipDir).
OnlyVisibleWatched == watches \subseteq Visible

\* Once the watcher is quiet, every visible directory is watched, whatever was
\* made while its parent was being walked: addRecursive adds the watch before
\* it reads the directory.  Nothing is promised after a lost notification or a
\* walk that gave up.
VisibleTreeWatched ==
    Quiet /\ ~lost /\ ~skipped =>
        Visible \cap ((exists \cap Dirs) \cup {Root}) \subseteq watches

\* The same without the exception for walks that give up: what the comment of
\* Start and "edits sync automatically" (docs/googlysync-prd.md:122) ask for.
AlwaysWatched ==
    Quiet /\ ~lost => Visible \cap ((exists \cap Dirs) \cup {Root}) \subseteq watches

\* Once the watcher is quiet, every change of a visible file was reported.
FileChangesReported ==
    Quiet /\ ~lost /\ ~skipped =>
        unreported \cap Visible = {}

\* Every visible directory comes to be watched while it exists: a walk ends,
\* however the tree changes under it.
TreeGetsWatched ==
    \A d \in Dirs \cap Visible :
        d \in exists ~> d \in watches \/ d \notin exists \/ lost \/ skipped \/ wpc = "off"
=============================================================================
