--------------------------- MODULE WatchTreeProofs ---------------------------
(* The safety properties of WatchTree, for every tree, every set of ignored *)
(* names and every size of the kernel queue.                                *)
EXTENDS WatchTree, SequenceTheorems, TLAPS

-----------------------------------------------------------------------------
(* Visible is the least set closed under its two rules, which is all the    *)
(* induction over the depth of a path that the proofs need.                 *)

\* The root is visible unless it is ignored.
LEMMA RootVisible == Root \notin Ignored => Root \in Visible
  BY DEF Visible, AnyPath

\* A path that is not ignored and lies in a visible directory is visible.
LEMMA ChildVisible ==
    ASSUME NEW n \in Nodes \ Ignored, ParentOf[n] \in Visible
    PROVE  n \in Visible
  BY DEF Visible, AnyPath

\* Any set closed under the rules holds every visible path.
LEMMA VisibleLeast ==
    ASSUME NEW S \in SUBSET AnyPath,
           Root \in S \cup Ignored,
           \A n \in Nodes \ Ignored : ParentOf[n] \in S => n \in S
    PROVE  Visible \subseteq S
  BY DEF Visible

-----------------------------------------------------------------------------
(* Types.                                                                   *)

\* A notification leaves the queue a sequence of notifications.
LEMMA NotifyType ==
    ASSUME NEW n \in Nodes, NEW op \in {"create", "write", "remove"},
           kq \in Seq(Note), lost \in BOOLEAN, Notify(n, op)
    PROVE  kq' \in Seq(Note) /\ lost' \in BOOLEAN
  <1>1. [path |-> n, op |-> op] \in Note
    BY DEF Note
  <1>2. QED
    BY <1>1 DEF Notify

\* No step of a user or of the watcher leaves the type.
LEMMA StepType ==
    ASSUME TypeOK, [Next]_vars
    PROVE  TypeOK'
  <1> USE WatchTreeAssumption DEF TypeOK
  <1>1. CASE Arrive
    <2>1. PICK new \in SUBSET (Nodes \ exists), n \in Nodes :
             /\ n \in new
             /\ ParentOf[n] \in (exists \cap Dirs) \cup {Root}
             /\ \A m \in new \ {n} : ParentOf[m] \in new \cap Dirs
             /\ exists' = exists \cup new
             /\ Notify(n, "create")
             /\ unreported' = IF Started THEN unreported \cup (new \cap Files) ELSE unreported
      BY <1>1 DEF Arrive
    <2>2. kq' \in Seq(Note) /\ lost' \in BOOLEAN
      BY <2>1, NotifyType
    <2>3. exists' \subseteq Nodes /\ Closed(exists')
      BY <2>1 DEF Closed
    <2>4. changes' \in Nat
      BY <1>1 DEF Arrive
    <2>5. UNCHANGED <<watches, watcherVars>>
      BY <1>1 DEF Arrive
    <2>6. unreported' \subseteq Files
      BY <2>1
    <2>7. QED
      BY <2>1, <2>2, <2>3, <2>4, <2>5, <2>6 DEF watcherVars, Walking, Closed
  <1>2. CASE WriteFile
    <2>1. PICK f \in exists \cap Files :
             /\ Notify(f, "write")
             /\ unreported' = IF Started THEN unreported \cup {f} ELSE unreported
      BY <1>2 DEF WriteFile
    <2>2. kq' \in Seq(Note) /\ lost' \in BOOLEAN
      BY <2>1, NotifyType
    <2>3. changes' \in Nat /\ UNCHANGED <<exists, watches, watcherVars>>
      BY <1>2 DEF WriteFile
    <2>4. QED
      BY <2>1, <2>2, <2>3 DEF watcherVars, Walking, Closed
  <1>3. CASE Remove
    <2>1. PICK n \in exists :
             /\ \A m \in exists : ParentOf[m] # n
             /\ exists' = exists \ {n}
             /\ watches' = watches \ {n}
             /\ Notify(n, "remove")
             /\ unreported' = unreported \ {n}
      BY <1>3 DEF Remove
    <2>2. kq' \in Seq(Note) /\ lost' \in BOOLEAN
      BY <2>1, NotifyType
    <2>3. changes' \in Nat /\ UNCHANGED watcherVars
      BY <1>3 DEF Remove
    <2>4. exists' \subseteq Nodes /\ Closed(exists')
      BY <2>1 DEF Closed
    <2>5. QED
      BY <2>1, <2>2, <2>3, <2>4 DEF watcherVars, Walking, Closed
  <1>4. CASE Start
    BY <1>4 DEF Start, Walking, Closed, AnyPath
  <1>5. CASE SkipPath
    BY <1>5 DEF SkipPath, Walking, Closed
  <1>6. CASE AddWatch
    <2>1. PICK n \in (todo \cap AnyDir) \ Ignored :
             IF n \in exists \cup {Root}
             THEN /\ watches' = watches \cup {n}
                  /\ reading' = n /\ todo' = todo \ {n}
                  /\ UNCHANGED <<wpc, skipped>>
             ELSE GiveUp(todo \ {n}) /\ UNCHANGED watches
      BY <1>6 DEF AddWatch
    <2>2. Walking /\ UNCHANGED <<exists, changes, kq, unreported, lost>>
      BY <1>6 DEF AddWatch
    <2>3. CASE n \in exists \cup {Root}
      BY <2>1, <2>2, <2>3 DEF Walking, Closed
    <2>4. CASE n \notin exists \cup {Root}
      BY <2>1, <2>2, <2>4 DEF GiveUp, Walking, Closed
    <2>5. QED
      BY <2>3, <2>4
  <1>7. CASE ReadDir
    BY <1>7 DEF ReadDir, GiveUp, Walking, Closed, AnyPath
  <1>8. CASE EndWalk
    BY <1>8 DEF EndWalk, Walking, Closed
  <1>9. CASE HandleEvent
    <2>1. kq' \in Seq(Note) /\ Head(kq) \in Note
      BY <1>9, HeadTailProperties DEF HandleEvent
    <2>2. Head(kq).path \in Nodes
      BY <2>1 DEF Note
    <2>3. QED
      BY <1>9, <2>1, <2>2 DEF HandleEvent, Walking, Closed, AnyPath, Nodes
  <1>10. CASE UNCHANGED vars
    BY <1>10 DEF vars, Walking, Closed
  <1>11. QED
    BY <1>1, <1>2, <1>3, <1>4, <1>5, <1>6, <1>7, <1>8, <1>9, <1>10
       DEF Next, Environment, Watcher

\* Every variable keeps its type; in particular a watch never outlives its
\* directory, and nothing is left of a walk when the watcher is not walking.
THEOREM TypeCorrect == Spec => []TypeOK
  <1>1. Init => TypeOK
    <2> SUFFICES ASSUME Init PROVE TypeOK
      OBVIOUS
    <2>1. kq \in Seq(Note)
      BY EmptySeq DEF Init
    <2>2. exists \subseteq Nodes /\ Closed(exists) /\ changes \in Nat
      BY DEF Init
    <2>3. lost \in BOOLEAN /\ skipped \in BOOLEAN
      BY DEF Init
    <2>4. QED
      BY <2>1, <2>2, <2>3 DEF Init, TypeOK, Walking
  <1>2. TypeOK /\ [Next]_vars => TypeOK'
    BY StepType
  <1>3. QED
    BY <1>1, <1>2, PTL DEF Spec

-----------------------------------------------------------------------------
(* Nothing below an ignored directory is ever watched.                      *)

\* Whatever is watched or read is visible; whatever is announced or about to
\* be visited lies in a visible directory.
VisibleInv ==
    /\ watches \subseteq Visible
    /\ reading # None => reading \in Visible
    /\ todo \subseteq Visible \cup Ignored \cup Files
    /\ \A i \in 1..Len(kq) : ParentOf[kq[i].path] \in Visible

\* Only the watch of a visible directory announces a change.
LEMMA NotifyVisible ==
    ASSUME TypeOK, VisibleInv, NEW n \in Nodes, NEW op \in {"create", "write", "remove"},
           Notify(n, op)
    PROVE  \A i \in 1..Len(kq') : ParentOf[kq'[i].path] \in Visible
  <1> DEFINE note == [path |-> n, op |-> op]
  <1>1. kq \in Seq(Note) /\ note \in Note /\ note.path = n
    BY DEF TypeOK, Note
  <1>2. CASE kq' = kq
    BY <1>2 DEF VisibleInv
  <1>3. CASE kq' = Append(kq, note) /\ ParentOf[n] \in watches
    <2> TAKE i \in 1..Len(kq')
    <2>1. /\ Len(kq') = Len(kq) + 1
          /\ \A j \in 1..Len(kq) : kq'[j] = kq[j]
          /\ kq'[Len(kq) + 1] = note
      <3> HIDE DEF note
      <3>1. QED
        BY <1>1, <1>3, AppendProperties
    <2>2. CASE i \in 1..Len(kq)
      BY <2>1, <2>2 DEF VisibleInv
    <2>3. CASE i = Len(kq) + 1
      BY <1>1, <1>3, <2>1, <2>3 DEF VisibleInv
    <2>4. QED
      BY <1>1, <2>1, <2>2, <2>3, LenProperties
  <1>4. QED
    BY <1>2, <1>3 DEF Notify

\* No step watches, reads or queues anything outside the visible tree.
LEMMA VisibleStep ==
    ASSUME TypeOK, VisibleInv, [Next]_vars
    PROVE  VisibleInv'
  <1>1. CASE Environment
    <2>1. watches' \subseteq watches /\ UNCHANGED watcherVars
      BY <1>1 DEF Environment, Arrive, WriteFile, Remove
    <2>2. \E n \in Nodes, op \in {"create", "write", "remove"} : Notify(n, op)
      BY <1>1 DEF Environment, Arrive, WriteFile, Remove, TypeOK, Nodes
    <2>3. \A i \in 1..Len(kq') : ParentOf[kq'[i].path] \in Visible
      BY <2>2, NotifyVisible
    <2>4. QED
      BY <2>1, <2>3 DEF VisibleInv, watcherVars
  <1>2. CASE Start
    BY <1>2, RootVisible DEF Start, VisibleInv
  <1>3. CASE SkipPath \/ EndWalk \/ UNCHANGED vars
    BY <1>3 DEF SkipPath, EndWalk, vars, VisibleInv
  <1>4. CASE AddWatch
    <2>1. PICK n \in (todo \cap AnyDir) \ Ignored :
             IF n \in exists \cup {Root}
             THEN /\ watches' = watches \cup {n}
                  /\ reading' = n /\ todo' = todo \ {n}
             ELSE GiveUp(todo \ {n}) /\ UNCHANGED watches
      BY <1>4 DEF AddWatch
    <2>2. n \in Visible
      BY WatchTreeAssumption DEF VisibleInv, AnyDir, Nodes
    <2>3. kq' = kq
      BY <1>4 DEF AddWatch
    <2>4. QED
      BY <2>1, <2>2, <2>3 DEF VisibleInv, GiveUp
  <1>5. CASE ReadDir
    <2>1. \A m \in exists : ParentOf[m] = reading => m \in Visible \cup Ignored
      BY <1>5, ChildVisible DEF ReadDir, VisibleInv, TypeOK
    <2>2. QED
      BY <1>5, <2>1 DEF ReadDir, GiveUp, VisibleInv
  <1>6. CASE HandleEvent
    <2>1. /\ kq \in Seq(Note) /\ kq # <<>>
          /\ kq' = Tail(kq) /\ UNCHANGED <<watches, reading>>
          /\ \/ todo' = {}
             \/ todo' = {kq[1].path} /\ kq[1].path \in Dirs \ Ignored
      BY <1>6 DEF HandleEvent, TypeOK
    <2>2. /\ Len(Tail(kq)) = Len(kq) - 1 /\ Len(kq) \in Nat \ {0}
          /\ \A i \in 1..Len(Tail(kq)) : Tail(kq)[i] = kq[i + 1]
      BY <2>1, HeadTailProperties, EmptySeq, LenProperties
    <2>3. \A i \in 1..Len(kq') : ParentOf[kq'[i].path] \in Visible
      BY <2>1, <2>2 DEF VisibleInv
    <2>4. kq[1].path \in Dirs \ Ignored => kq[1].path \in Visible
      BY <2>2, ChildVisible DEF VisibleInv, Nodes
    <2>5. QED
      BY <2>1, <2>3, <2>4 DEF VisibleInv
  <1>7. QED
    BY <1>1, <1>2, <1>3, <1>4, <1>5, <1>6 DEF Next, Watcher

\* The visibility invariant holds throughout.
LEMMA VisibleInvariant == Spec => []VisibleInv
  <1>1. Init => VisibleInv
    BY DEF Init, VisibleInv
  <1>2. TypeOK /\ VisibleInv /\ [Next]_vars => VisibleInv'
    BY VisibleStep
  <1>3. QED
    BY <1>1, <1>2, TypeCorrect, PTL DEF Spec

\* No directory below an ignored one is ever watched.
THEOREM IgnoredStayUnwatched == Spec => []OnlyVisibleWatched
  <1>1. VisibleInv => OnlyVisibleWatched
    BY DEF VisibleInv, OnlyVisibleWatched
  <1>2. QED
    BY <1>1, VisibleInvariant, PTL

-----------------------------------------------------------------------------
(* No visible directory is left without a watch.                            *)

\* A notification that directory d was made waits in the kernel's queue.
Announced(d) == \E i \in 1..Len(kq) : kq[i] = [path |-> d, op |-> "create"]

\* A directory below a watched one is watched, or is about to be: the walk has
\* still to visit it or to read its parent, or its creation is announced.
CoverInv ==
    ~lost /\ ~skipped =>
        /\ wpc \in {"starting", "select", "adding"} /\ Root \notin Ignored =>
              Root \in watches \cup todo
        /\ \A d \in (exists \cap Dirs) \ Ignored :
              ParentOf[d] \in watches =>
                  d \in watches \cup todo \/ reading = ParentOf[d] \/ Announced(d)

\* What is announced stays announced when a notification is added, and what a
\* watched directory lets go unannounced is counted as lost.
LEMMA NotifyAnnounces ==
    ASSUME kq \in Seq(Note), lost \in BOOLEAN,
           NEW n \in Nodes, NEW op \in {"create", "write", "remove"}, Notify(n, op)
    PROVE  /\ \A d : Announced(d) => Announced(d)'
           /\ lost => lost'
           /\ op = "create" /\ ParentOf[n] \in watches /\ ~lost' => Announced(n)'
  <1> DEFINE note == [path |-> n, op |-> op]
  <1>1. note \in Note
    BY DEF Note
  <1>2. CASE kq' = Append(kq, note)
    <2>1. /\ Len(kq') = Len(kq) + 1 /\ Len(kq) \in Nat
          /\ \A j \in 1..Len(kq) : kq'[j] = kq[j]
          /\ kq'[Len(kq) + 1] = note
      <3> HIDE DEF note
      <3>1. QED
        BY <1>1, <1>2, AppendProperties, LenProperties
    <2>2. \A d : Announced(d) => Announced(d)'
      BY <2>1 DEF Announced
    <2>3. op = "create" => Announced(n)'
      BY <2>1 DEF Announced
    <2>4. QED
      BY <2>2, <2>3 DEF Notify
  <1>3. CASE kq' = kq /\ (ParentOf[n] \notin watches \/ lost')
    BY <1>3 DEF Notify, Announced
  <1>4. QED
    BY <1>2, <1>3 DEF Notify

\* Every step keeps the directories below watched ones covered.
LEMMA CoverStep ==
    ASSUME TypeOK, CoverInv, [Next]_vars
    PROVE  CoverInv'
  <1> USE WatchTreeAssumption
  <1>0. kq \in Seq(Note) /\ lost \in BOOLEAN /\ skipped \in BOOLEAN
    BY DEF TypeOK
  <1>1. CASE Arrive
    <2>1. PICK new \in SUBSET (Nodes \ exists), n \in Nodes :
             /\ n \in new
             /\ \A m \in new \ {n} : ParentOf[m] \in new \cap Dirs
             /\ exists' = exists \cup new
             /\ Notify(n, "create")
      BY <1>1 DEF Arrive
    <2>2. UNCHANGED <<watches, watcherVars>>
      BY <1>1 DEF Arrive
    <2>3. /\ \A d : Announced(d) => Announced(d)'
          /\ lost => lost'
          /\ ParentOf[n] \in watches /\ ~lost' => Announced(n)'
      BY <1>0, <2>1, NotifyAnnounces
    <2>4. \A m \in new \ {n} : ParentOf[m] \notin watches
      BY <2>1 DEF TypeOK, Nodes
    <2>5. QED
      BY <2>1, <2>2, <2>3, <2>4 DEF CoverInv, watcherVars
  <1>2. CASE WriteFile
    <2>1. /\ \A d : Announced(d) => Announced(d)'
          /\ lost => lost'
      <3>1. PICK f \in exists \cap Files : Notify(f, "write")
        BY <1>2 DEF WriteFile
      <3>2. QED
        BY <1>0, <3>1, NotifyAnnounces DEF TypeOK
    <2>2. QED
      BY <1>2, <2>1 DEF WriteFile, CoverInv, watcherVars
  <1>3. CASE Remove
    <2>1. PICK n \in exists :
             /\ \A m \in exists : ParentOf[m] # n
             /\ exists' = exists \ {n}
             /\ watches' = watches \ {n}
             /\ Notify(n, "remove")
      BY <1>3 DEF Remove
    <2>2. /\ \A d : Announced(d) => Announced(d)'
          /\ lost => lost'
      BY <1>0, <2>1, NotifyAnnounces DEF TypeOK
    <2>3. UNCHANGED watcherVars /\ n # Root
      BY <1>3, <2>1 DEF Remove, TypeOK
    <2>4. QED
      BY <2>1, <2>2, <2>3 DEF CoverInv, watcherVars
  <1>4. CASE Start
    BY <1>4 DEF Start, CoverInv, TypeOK, Walking, Announced
  <1>5. CASE SkipPath
    BY <1>5 DEF SkipPath, CoverInv, Announced, Walking, Nodes
  <1>6. CASE AddWatch
    <2>1. PICK n \in (todo \cap AnyDir) \ Ignored :
             IF n \in exists \cup {Root}
             THEN /\ watches' = watches \cup {n}
                  /\ reading' = n /\ todo' = todo \ {n}
                  /\ UNCHANGED <<wpc, skipped>>
             ELSE GiveUp(todo \ {n}) /\ UNCHANGED watches
      BY <1>6 DEF AddWatch
    <2>2. reading = None /\ Walking /\ UNCHANGED <<exists, kq, lost>>
      BY <1>6 DEF AddWatch
    <2>3. \A d : Announced(d)' <=> Announced(d)
      BY <2>2 DEF Announced
    <2>4. \A d \in Dirs : ParentOf[d] # None
      BY DEF Nodes, AnyDir, AnyPath
    <2>5. CASE n \in exists \cup {Root}
      BY <2>1, <2>2, <2>3, <2>4, <2>5 DEF CoverInv
    <2>6. CASE n \notin exists \cup {Root}
      <3>1. GiveUp(todo \ {n}) /\ UNCHANGED watches
        BY <2>1, <2>6
      <3>2. ~skipped' => ~skipped /\ todo \subseteq {n}
        BY <3>1 DEF GiveUp
      <3>3. QED
        BY <2>2, <2>3, <2>4, <2>6, <3>1, <3>2 DEF CoverInv, GiveUp
    <2>7. QED
      BY <2>5, <2>6
  <1>7. CASE ReadDir
    <2>1. UNCHANGED <<exists, watches, kq, lost>> /\ reading # None /\ Walking
      BY <1>7 DEF ReadDir
    <2>2. \A d : Announced(d)' <=> Announced(d)
      BY <2>1 DEF Announced
    <2>3. CASE reading \in exists \cup {Root}
      BY <1>7, <2>1, <2>2, <2>3 DEF ReadDir, CoverInv
    <2>4. CASE reading \notin exists \cup {Root}
      <3>1. GiveUp(todo)
        BY <1>7, <2>4 DEF ReadDir
      <3>2. ~skipped' => ~skipped /\ todo = {}
        BY <3>1 DEF GiveUp
      <3>3. reading \notin watches
        BY <2>4 DEF TypeOK
      <3>4. QED
        BY <2>1, <2>2, <3>1, <3>2, <3>3 DEF CoverInv, GiveUp
    <2>5. QED
      BY <2>3, <2>4
  <1>8. CASE EndWalk
    BY <1>8 DEF EndWalk, CoverInv, Announced, Walking
  <1>9. CASE HandleEvent
    <2>1. /\ kq # <<>> /\ kq' = Tail(kq) /\ wpc = "select" /\ todo = {} /\ reading = None
          /\ UNCHANGED <<exists, watches, reading, lost, skipped>>
          /\ wpc' \in {"select", "adding"}
          /\ kq[1].op = "create" /\ kq[1].path \in (Dirs \cap exists) \ Ignored
                => todo' = {kq[1].path}
      BY <1>9 DEF HandleEvent, TypeOK, Walking
    <2>2. /\ Len(Tail(kq)) = Len(kq) - 1 /\ Len(kq) \in Nat \ {0}
          /\ \A i \in 1..Len(Tail(kq)) : Tail(kq)[i] = kq[i + 1]
      BY <1>0, <2>1, HeadTailProperties, EmptySeq, LenProperties
    <2>3. \A d : Announced(d) => Announced(d)' \/ kq[1] = [path |-> d, op |-> "create"]
      <3> SUFFICES ASSUME NEW d, NEW i \in 1..Len(kq), kq[i] = [path |-> d, op |-> "create"],
                          i # 1
                   PROVE  Announced(d)'
        BY DEF Announced
      <3>1. i - 1 \in 1..Len(Tail(kq)) /\ Tail(kq)[i - 1] = kq[i]
        BY <2>2
      <3>2. QED
        BY <2>1, <3>1 DEF Announced
    <2>4. ASSUME NEW d \in (exists \cap Dirs) \ Ignored, Announced(d)
          PROVE  d \in todo' \/ Announced(d)'
      <3>1. CASE kq[1] = [path |-> d, op |-> "create"]
        <4>1. kq[1].path = d /\ kq[1].op = "create"
          BY <3>1
        <4>2. QED
          BY <2>1, <4>1
      <3>2. QED
        BY <2>3, <2>4, <3>1
    <2>5. QED
      BY <2>1, <2>4 DEF CoverInv
  <1>10. CASE UNCHANGED vars
    BY <1>10 DEF vars, CoverInv, Announced
  <1>11. QED
    BY <1>1, <1>2, <1>3, <1>4, <1>5, <1>6, <1>7, <1>8, <1>9, <1>10
       DEF Next, Environment, Watcher

\* When nothing is announced and no walk is under way, coverage of one level
\* after the other, from the root down, makes the watches complete.
LEMMA CoverMeans ==
    ASSUME TypeOK, CoverInv
    PROVE  VisibleTreeWatched
  <1> SUFFICES ASSUME wpc = "select", kq = <<>>, ~lost, ~skipped
               PROVE  Visible \cap ((exists \cap Dirs) \cup {Root}) \subseteq watches
    BY DEF VisibleTreeWatched, Quiet
  <1> DEFINE S == {n \in AnyPath : n \in (exists \cap Dirs) \cup {Root} => n \in watches}
  <1>1. todo = {} /\ reading = None
    BY DEF TypeOK, Walking
  <1>2. \A d : ~Announced(d)
    BY DEF Announced
  <1>3. \A d \in (exists \cap Dirs) \ Ignored : ParentOf[d] \in watches => d \in watches
    BY <1>1, <1>2, WatchTreeAssumption DEF CoverInv, Nodes, AnyDir, AnyPath
  <1>4. Root \in S \cup Ignored
    BY <1>1 DEF CoverInv, AnyPath
  <1>5. ASSUME NEW n \in Nodes \ Ignored, ParentOf[n] \in S
        PROVE  n \in S
    <2>1. n \in exists => ParentOf[n] \in (exists \cap Dirs) \cup {Root}
      BY DEF TypeOK, Closed
    <2>2. n \in exists \cap Dirs => n \in watches
      BY <1>3, <1>5, <2>1
    <2>3. QED
      BY <2>2, WatchTreeAssumption DEF AnyPath
  <1>6. Visible \subseteq S
    BY <1>4, <1>5, VisibleLeast
  <1>7. QED
    BY <1>6

\* Once the watcher is quiet, every visible directory is watched, for every
\* interleaving of the walks with users making and removing directories, unless
\* a notification was lost or a walk gave up.
THEOREM NoBlindDirectory == Spec => []VisibleTreeWatched
  <1>1. Init => CoverInv
    BY DEF Init, CoverInv
  <1>2. TypeOK /\ CoverInv /\ [Next]_vars => CoverInv'
    BY CoverStep
  <1>3. TypeOK /\ CoverInv => VisibleTreeWatched
    BY CoverMeans
  <1>4. QED
    BY <1>1, <1>2, <1>3, TypeCorrect, PTL DEF Spec
=============================================================================
