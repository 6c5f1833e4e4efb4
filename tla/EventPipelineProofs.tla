------------------------ MODULE EventPipelineProofs ------------------------
(* The properties of EventPipeline, for every number of files, every        *)
(* capacity, every debounce interval and every log size: safety first, then *)
(* what fairness brings to an end.                                          *)
EXTENDS EventPipeline, SequenceTheorems, FiniteSetTheorems, WellFoundedInduction, TLAPS

-----------------------------------------------------------------------------
(* The operators the model is built from.                                   *)

\* A notification with at least one known bit gets a known label.
LEMMA NormalizeKnown ==
    ASSUME NEW bits \in (SUBSET RawOp) \ {{}}
    PROVE  normalizeOp(bits) \in RawOp
  BY DEF normalizeOp, RawOp

\* Merging two labels gives one of them.
LEMMA MergeIsOne ==
    ASSUME NEW a \in Op, NEW b \in Op
    PROVE  mergeOp(a, b) \in {a, b}
  BY DEF mergeOp

\* A removal that arrives is never hidden by what was pending.
LEMMA MergeKeepsRemoval ==
    ASSUME NEW a \in Op, NEW b \in Removal
    PROVE  mergeOp(a, b) \in Removal
  <1>1. Priority(b) \in {4, 5}
    BY DEF Priority, Removal
  <1>2. a \in Removal \/ Priority(a) \in 0..3
    BY DEF Priority, Removal, Op, RawOp
  <1>3. QED
    BY <1>1, <1>2 DEF mergeOp

\* The label of merged notifications does not depend on their order, and says
\* "gone" whenever one of them does: a file replaced within the interval cannot
\* be told from one that was changed and removed (events.go:30).
THEOREM MergeForgetsOrder ==
    /\ \A a, b \in Op : mergeOp(a, b) = mergeOp(b, a)
    /\ \A a, b, c \in Op : mergeOp(mergeOp(a, b), c) = mergeOp(a, mergeOp(b, c))
    /\ \A a, b \in Op : mergeOp(a, b) \in Removal <=> a \in Removal \/ b \in Removal
  <1>1. /\ Priority("remove") = 5 /\ Priority("rename") = 4 /\ Priority("create") = 3
        /\ Priority("write") = 2 /\ Priority("chmod") = 1 /\ Priority("unknown") = 0
    BY DEF Priority
  <1>2. Op = {"remove", "rename", "create", "write", "chmod", "unknown"}
    BY DEF Op, RawOp
  <1>3. \A a \in Op : Priority(a) \in 0..5 /\ (a \in Removal <=> Priority(a) >= 4)
    BY <1>1, <1>2 DEF Removal
  <1>4. \A a, b \in Op : Priority(a) = Priority(b) => a = b
    BY <1>1, <1>2
  <1>5. \A a, b \in Op :
           /\ mergeOp(a, b) \in Op
           /\ Priority(mergeOp(a, b)) = IF Priority(a) >= Priority(b) THEN Priority(a) ELSE Priority(b)
    BY <1>3, <1>4 DEF mergeOp
  <1>6. \A a, b \in Op : mergeOp(a, b) = mergeOp(b, a)
    BY <1>3, <1>4, <1>5
  <1>7. \A a, b, c \in Op : mergeOp(mergeOp(a, b), c) = mergeOp(a, mergeOp(b, c))
    <2>1. TAKE a, b, c \in Op
    <2>2. Priority(mergeOp(mergeOp(a, b), c)) = Priority(mergeOp(a, mergeOp(b, c)))
      BY <1>3, <1>5
    <2>3. QED
      BY <1>4, <1>5, <2>2
  <1>8. \A a, b \in Op : mergeOp(a, b) \in Removal <=> a \in Removal \/ b \in Removal
    BY <1>3, <1>5
  <1>9. QED
    BY <1>6, <1>7, <1>8

\* The newest n elements of a longer sequence, one by one.
LEMMA NewestOfLonger ==
    ASSUME NEW S, NEW seq \in Seq(S), NEW n \in Nat, Len(seq) > n
    PROVE  /\ Newest(seq, n) \in Seq(S)
           /\ Len(Newest(seq, n)) = n
           /\ \A i \in 1..n : Newest(seq, n)[i] = seq[Len(seq) - n + i]
  <1>1. \A i \in (Len(seq) - n + 1)..Len(seq) : seq[i] \in S
    OBVIOUS
  <1>2. Newest(seq, n) = SubSeq(seq, Len(seq) - n + 1, Len(seq))
    BY DEF Newest
  <1>3. QED
    BY <1>1, <1>2, SubSeqProperties

\* The newest n elements form a sequence of the same kind.
LEMMA NewestType ==
    ASSUME NEW S, NEW seq \in Seq(S), NEW n \in Nat
    PROVE  Newest(seq, n) \in Seq(S)
  <1>1. CASE Len(seq) > n
    BY <1>1, NewestOfLonger
  <1>2. CASE ~(Len(seq) > n)
    BY <1>2 DEF Newest
  <1>3. QED
    BY <1>1, <1>2

\* Sliding the window of a window is sliding the window of the whole.
LEMMA NewestAppend ==
    ASSUME NEW S, NEW seq \in Seq(S), NEW e \in S, NEW n \in Nat \ {0}
    PROVE  Newest(Append(Newest(seq, n), e), n) = Newest(Append(seq, e), n)
  <1>1. CASE Len(seq) <= n
    BY <1>1 DEF Newest
  <1>2. CASE Len(seq) > n
    <2> DEFINE win == Newest(seq, n)
               a   == Append(win, e)
               b   == Append(seq, e)
    <2>1. /\ win \in Seq(S) /\ Len(win) = n
          /\ \A i \in 1..n : win[i] = seq[Len(seq) - n + i]
      BY <1>2, NewestOfLonger
    <2> HIDE DEF win
    <2>2. /\ a \in Seq(S) /\ Len(a) = n + 1 /\ Len(a) > n
          /\ b \in Seq(S) /\ Len(b) = Len(seq) + 1 /\ Len(b) > n
      BY <2>1, <1>2
    <2>3. ASSUME NEW i \in 1..n
          PROVE  a[i + 1] = b[Len(seq) + 1 - n + i]
      <3>1. CASE i = n
        BY <3>1, <2>1, <1>2
      <3>2. CASE i < n
        <4>1. i + 1 \in 1..n /\ Len(seq) + 1 - n + i \in 1..Len(seq)
          BY <3>2, <1>2
        <4>2. a[i + 1] = win[i + 1]
          BY <4>1, <2>1
        <4>3. b[Len(seq) + 1 - n + i] = seq[Len(seq) - n + (i + 1)]
          BY <4>1
        <4>4. QED
          BY <4>1, <4>2, <4>3, <2>1
      <3>3. i = n \/ i < n
        OBVIOUS
      <3>4. QED
        BY <3>1, <3>2, <3>3, Zenon
    <2> HIDE DEF a, b
    <2>4. /\ Newest(a, n) \in Seq(S) /\ Len(Newest(a, n)) = n
          /\ \A i \in 1..n : Newest(a, n)[i] = a[Len(a) - n + i]
      BY <2>2, NewestOfLonger
    <2>5. /\ Newest(b, n) \in Seq(S) /\ Len(Newest(b, n)) = n
          /\ \A i \in 1..n : Newest(b, n)[i] = b[Len(b) - n + i]
      BY <2>2, NewestOfLonger
    <2>6. \A i \in 1..n : Newest(a, n)[i] = Newest(b, n)[i]
      BY <2>2, <2>3, <2>4, <2>5
    <2>7. Newest(a, n) = Newest(b, n)
      BY <2>4, <2>5, <2>6, SeqEqual
    <2>8. QED
      BY <2>7 DEF a, b, win
  <1>3. QED
    BY <1>1, <1>2

\* Lengths, as facts to cite where arithmetic and sequences meet.
LEMMA LenOfOne == \A e : \A seq : seq = <<e>> => Len(seq) = 1
  OBVIOUS

\* The length of a sequence one element longer.
LEMMA LenOfAppend == \A S : \A seq \in Seq(S), e \in S : Len(Append(seq, e)) = Len(seq) + 1
  OBVIOUS

-----------------------------------------------------------------------------
(* Type correctness.                                                        *)

\* The store keeps its type under the operations of the status package.
LEMMA StoreOps ==
    ASSUME NEW s \in Store
    PROVE  /\ \A st \in State : Update(s, st, NoEvent) \in Store
           /\ \A st \in State : E!Update(s, st, NoEvent) = Update(s, st, NoEvent)
           /\ \A e \in Event : AddEvent(s, e) \in Store
  <1>1. \A st \in State : Update(s, st, NoEvent) \in Store
    BY DEF Update, Store, State
  <1>2. \A st \in State : E!Update(s, st, NoEvent) = Update(s, st, NoEvent)
    BY DEF Update, E!Update
  <1>3. ASSUME NEW e \in Event
        PROVE  AddEvent(s, e) \in Store
    <2>1. Append(s.ring, e) \in Seq(Event) /\ s.maxEvents \in Nat
      BY DEF Store
    <2>2. Newest(Append(s.ring, e), s.maxEvents) \in Seq(Event)
      BY <2>1, NewestType
    <2>3. QED
      BY <2>2 DEF AddEvent, Store
  <1>4. QED
    BY <1>1, <1>2, <1>3

\* A change of one file.
LEMMA ChangeType ==
    ASSUME TypeOK, NEW p \in Paths, NEW bits \in (SUBSET RawOp) \ {{}},
           NEW files \in SUBSET Paths, Change(p, bits, files), WatcherOnly
    PROVE  TypeOK'
  <1>1. exists' \subseteq Paths /\ changes' \in Nat /\ clock' \in Nat
    BY DEF Change, TypeOK
  <1>2. kq' \in Seq(Raw)
    <2>1. [path |-> p, bits |-> bits] \in Raw
      BY DEF Raw
    <2>2. kq' = kq \/ kq' = Append(kq, [path |-> p, bits |-> bits])
      BY DEF Change
    <2>3. kq \in Seq(Raw)
      BY DEF TypeOK
    <2>4. QED
      BY <2>1, <2>2, <2>3
  <1>3. kerr' \in BOOLEAN /\ told' \in [Paths -> Nat \cup {NotTold}]
    <2>1. kerr' \in BOOLEAN
      BY DEF Change, TypeOK
    <2>2. told' \in [Paths -> Nat \cup {NotTold}]
      BY DEF Change, TypeOK
    <2>3. QED
      BY <2>1, <2>2
  <1>4. QED
    BY <1>1, <1>2, <1>3
       DEF Change, TypeOK, WatcherOnly, engineVars, flushVars

\* The store the daemon starts with.
LEMMA InitState ==
    ASSUME Init
    PROVE  /\ store \in Store /\ store.ring = <<>> /\ store.recent = <<>>
           /\ store.last = NoEvent /\ store.state = "idle" /\ recorded = <<>>
           /\ store.maxEvents \in Nat
  <1>1. NewStore \in Store
    BY EmptySeq DEF NewStore, Store, State
  <1>2. CASE EventLogSize <= 0
    BY <1>1, <1>2 DEF SetMaxEvents, NewStore, Init, WatchInit
  <1>3. CASE ~(EventLogSize <= 0)
    <2>1. EventLogSize \in Nat \ {0}
      BY <1>3, FsWatchAssumption
    <2>2. Newest(<<>>, EventLogSize) = <<>>
      BY <2>1 DEF Newest
    <2>3. SetMaxEvents(NewStore, EventLogSize) =
             [NewStore EXCEPT !.maxEvents = EventLogSize, !.ring = <<>>, !.recent = <<>>]
      BY <1>3, <2>2 DEF SetMaxEvents, NewStore
    <2>4. QED
      BY <1>1, <2>1, <2>3, EmptySeq DEF Store, NewStore, Init, WatchInit
  <1>4. QED
    BY <1>2, <1>3

\* The daemon starts in a state of the right type.
LEMMA InitType == Init => TypeOK
  <1> SUFFICES ASSUME Init PROVE TypeOK
    OBVIOUS
  <1>1. told \in [Paths -> Nat \cup {NotTold}] /\ pending \in [Paths -> Event \cup {NoEvent}]
    BY DEF Init, WatchInit
  <1>2. kq \in Seq(Raw) /\ out \in Seq(Event) /\ sending \in Seq(Event)
    BY EmptySeq DEF Init, WatchInit
  <1>3. /\ recorded \in Seq(Event) /\ hand \in Seq(Event)
          /\ queue \in Seq(Event) /\ received \in Seq(Event)
    BY EmptySeq DEF Init, WatchInit, E!EngineInit
  <1>4. QED
    BY InitState, <1>1, <1>2, <1>3 DEF Init, WatchInit, E!EngineInit, TypeOK

\* No step of a goroutine, a user or the clock leaves the type.
LEMMA StepType ==
    ASSUME TypeOK, [Next]_vars
    PROVE  TypeOK'
  <1> USE FsWatchAssumption
  <1>1. CASE CreateFile /\ WatcherOnly
    <2>1. PICK p \in Paths : Change(p, {"create"}, exists \cup {p})
      BY <1>1 DEF CreateFile
    <2>2. exists \cup {p} \in SUBSET Paths /\ {"create"} \in (SUBSET RawOp) \ {{}}
      BY DEF TypeOK, RawOp
    <2>3. QED
      BY <1>1, <2>1, <2>2, ChangeType
  <1>2. CASE WriteFile /\ WatcherOnly
    BY <1>2, ChangeType DEF WriteFile, TypeOK, RawOp
  <1>3. CASE ChmodFile /\ WatcherOnly
    BY <1>3, ChangeType DEF ChmodFile, TypeOK, RawOp
  <1>4. CASE RemoveFile /\ WatcherOnly
    <2>1. PICK p \in exists : Change(p, {"remove"}, exists \ {p})
      BY <1>4 DEF RemoveFile
    <2>2. /\ p \in Paths /\ exists \ {p} \in SUBSET Paths
          /\ {"remove"} \in (SUBSET RawOp) \ {{}}
      BY DEF TypeOK, RawOp
    <2>3. QED
      BY <1>4, <2>1, <2>2, ChangeType
  <1>5. CASE RenameFile /\ WatcherOnly
    <2>1. PICK p \in exists : Change(p, {"rename"}, exists \ {p})
      BY <1>5 DEF RenameFile
    <2>2. /\ p \in Paths /\ exists \ {p} \in SUBSET Paths
          /\ {"rename"} \in (SUBSET RawOp) \ {{}}
      BY DEF TypeOK, RawOp
    <2>3. QED
      BY <1>5, <2>1, <2>2, ChangeType
  <1>6. CASE TimePasses /\ WatcherOnly
    BY <1>6 DEF TimePasses, TypeOK, WatcherOnly, engineVars, flushVars, fileVars
  <1>7. CASE (StartNothing \/ StartWatching \/ StopWatcher) /\ WatcherOnly
    BY <1>7 DEF StartNothing, StartWatching, StopWatcher, TypeOK, WatcherOnly,
                engineVars, flushVars, fileVars
  <1>8. CASE StartRun /\ WatcherOnly
    BY <1>8, StoreOps DEF StartRun, State, TypeOK, WatcherOnly, engineVars, flushVars, fileVars
  <1>9. CASE HandleError /\ WatcherOnly
    BY <1>9, StoreOps DEF HandleError, State, TypeOK, WatcherOnly, engineVars, flushVars
  <1>10. CASE HandleEvent /\ WatcherOnly
    <2>1. kq' \in Seq(Raw) /\ Head(kq) \in Raw
      BY <1>10 DEF HandleEvent, TypeOK
    <2>2. pending' \in [Paths -> Event \cup {NoEvent}]
      <3> DEFINE path == Head(kq).path
                 op   == normalizeOp(Head(kq).bits)
                 new  == IF pending[path] = NoEvent THEN op
                         ELSE mergeOp(pending[path].op, op)
      <3>1. path \in Paths /\ op \in Op
        BY <2>1, NormalizeKnown DEF Raw, Op
      <3>2. new \in Op
        <4>1. pending[path] # NoEvent => pending[path].op \in Op
          BY <3>1 DEF TypeOK, Event
        <4>2. QED
          BY <3>1, <4>1, MergeIsOne
      <3> HIDE DEF path, op, new
      <3>3. path \notin Ignored => [path |-> path, op |-> new, when |-> clock + Debounce] \in Event
        BY <3>1, <3>2 DEF TypeOK, Event
      <3>4. pending' = IF path \in Ignored \/ op = "unknown" THEN pending
                       ELSE [pending EXCEPT ![path] =
                               [path |-> path, op |-> new, when |-> clock + Debounce]]
        BY <1>10 DEF HandleEvent, path, op, new
      <3>5. QED
        BY <3>1, <3>3, <3>4 DEF TypeOK
    <2>3. QED
      BY <1>10, <2>1, <2>2 DEF HandleEvent, TypeOK, WatcherOnly, engineVars, flushVars
  <1>11. CASE FlushPending /\ WatcherOnly
    <2>1. \A p \in Due : pending[p] \in Event
      BY DEF Due, TypeOK
    <2>2. ready' \subseteq Event
      <3>1. ASSUME NEW p \in Due
            PROVE  [path |-> p, op |-> pending[p].op, when |-> clock] \in Event
        <4>1. pending[p].path = p /\ p \notin Ignored
          BY <2>1 DEF Event, Due, TypeOK
        <4>2. QED
          BY <2>1, <4>1 DEF TypeOK, Event, Due
      <3>2. QED
        BY <1>11, <3>1 DEF FlushPending
    <2>3. QED
      BY <1>11, <2>2 DEF FlushPending, TypeOK, WatcherOnly, engineVars, fileVars
  <1>12. CASE RecordEvent /\ WatcherOnly
    BY <1>12, StoreOps DEF RecordEvent, TypeOK, WatcherOnly, engineVars, fileVars
  <1>13. CASE SendEvent /\ WatcherOnly
    <2>1. out \o sending \in Seq(Event) /\ <<>> \in Seq(Event)
      BY ConcatProperties, EmptySeq DEF TypeOK
    <2>2. drops' \in Nat
      BY <1>13 DEF SendEvent, TypeOK
    <2>3. out' \in Seq(Event) /\ sending' \in Seq(Event)
      BY <1>13, <2>1 DEF SendEvent, TypeOK
    <2>4. QED
      BY <1>13, <2>2, <2>3 DEF SendEvent, TypeOK, WatcherOnly, engineVars, fileVars
  <1>14. CASE E!Forward /\ EngineOnly
    BY <1>14 DEF E!Forward, TypeOK, EngineOnly, watchVars
  <1>15. CASE E!Enqueue /\ EngineOnly
    <2>1. queue \o hand \in Seq(Event) /\ <<>> \in Seq(Event)
      BY ConcatProperties, EmptySeq DEF TypeOK
    <2>2. drops' \in Nat
      BY <1>15 DEF E!Enqueue, TypeOK
    <2>3. queue' \in Seq(Event) /\ hand' \in Seq(Event)
      BY <1>15, <2>1 DEF E!Enqueue, TypeOK
    <2>4. QED
      BY <1>15, <2>2, <2>3 DEF E!Enqueue, TypeOK, EngineOnly, watchVars
  <1>16. CASE E!ReceiveEvent /\ EngineOnly
    BY <1>16 DEF E!ReceiveEvent, TypeOK, EngineOnly, watchVars
  <1>17. CASE (E!Tick \/ E!BeginSync \/ E!EndSync \/ E!StopEngine) /\ EngineOnly
    <2>1. {"idle", "syncing"} \subseteq State /\ store \in Store
      BY DEF State, TypeOK
    <2>2. E!Update(store, "idle", NoEvent) \in Store /\ E!Update(store, "syncing", NoEvent) \in Store
      BY <2>1, StoreOps
    <2>3. QED
      BY <1>17, <2>2 DEF E!Tick, E!BeginSync, E!EndSync, E!StopEngine, TypeOK,
                         EngineOnly, watchVars
  <1>18. CASE Cancel
    BY <1>18 DEF Cancel, TypeOK, watchVars, engineVars
  <1>19. CASE UNCHANGED vars
    BY <1>19 DEF TypeOK, vars, watchVars, engineVars, sharedVars
  <1>20. QED
    BY <1>1, <1>2, <1>3, <1>4, <1>5, <1>6, <1>7, <1>8, <1>9, <1>10, <1>11, <1>12,
       <1>13, <1>14, <1>15, <1>16, <1>17, <1>18, <1>19 DEF Next

\* Every variable keeps its type; in particular no ignored file is ever
\* pending, recorded or queued.
THEOREM TypeCorrect == Spec => []TypeOK
  <1>1. Init => TypeOK
    BY InitType
  <1>2. TypeOK /\ [Next]_vars => TypeOK'
    BY StepType
  <1>3. QED
    BY <1>1, <1>2, PTL DEF Spec

-----------------------------------------------------------------------------
(* Nothing disappears between the goroutines.                               *)

\* The locals of the watcher and of the forwarder stay consistent with the
\* place each goroutine is at.
LEMMA ShapeStep ==
    ASSUME TypeOK, Shape, [Next]_vars
    PROVE  Shape'
  <1> DEFINE same == UNCHANGED <<wpc, sending, ready, hand>>
  <1>1. CASE same
    BY <1>1 DEF Shape
  <1>2. CASE (CreateFile \/ WriteFile \/ ChmodFile \/ RemoveFile \/ RenameFile) /\ WatcherOnly
    <2>1. same
      BY <1>2 DEF CreateFile, WriteFile, ChmodFile, RemoveFile, RenameFile, Change,
                  flushVars, WatcherOnly, engineVars
    <2>2. QED
      BY <1>1, <2>1
  <1>3. CASE (TimePasses \/ HandleEvent \/ HandleError) /\ WatcherOnly
    <2>1. same
      BY <1>3 DEF TimePasses, HandleEvent, HandleError, flushVars, fileVars,
                  WatcherOnly, engineVars
    <2>2. QED
      BY <1>1, <2>1
  <1>4. CASE (StartNothing \/ StartWatching \/ StartRun \/ StopWatcher) /\ WatcherOnly
    BY <1>4 DEF StartNothing, StartWatching, StartRun, StopWatcher, flushVars,
                WatcherOnly, engineVars, Shape
  <1>5. CASE (FlushPending \/ RecordEvent \/ SendEvent) /\ WatcherOnly
    <2>1. CASE FlushPending /\ WatcherOnly
      BY <2>1 DEF FlushPending, WatcherOnly, engineVars, Shape
    <2>2. CASE RecordEvent /\ WatcherOnly
      BY <2>2 DEF RecordEvent, WatcherOnly, engineVars, Shape, TypeOK
    <2>3. CASE SendEvent /\ WatcherOnly
      BY <2>3 DEF SendEvent, WatcherOnly, engineVars, Shape
    <2>4. QED
      BY <1>5, <2>1, <2>2, <2>3
  <1>6. CASE (E!Forward \/ E!Enqueue) /\ EngineOnly
    <2>1. hand' = <<>> \/ Len(hand') = 1
      <3>1. hand' = <<Head(out)>> \/ hand' = <<>>
        BY <1>6 DEF E!Forward, E!Enqueue
      <3>2. QED
        BY <3>1, LenOfOne, Zenon
    <2>2. UNCHANGED <<wpc, sending, ready>>
      BY <1>6 DEF EngineOnly, watchVars
    <2>3. QED
      BY <2>1, <2>2 DEF Shape
  <1>7. CASE (E!ReceiveEvent \/ E!Tick \/ E!BeginSync \/ E!EndSync \/ E!StopEngine) /\ EngineOnly
    <2>1. same
      BY <1>7 DEF E!ReceiveEvent, E!Tick, E!BeginSync, E!EndSync, E!StopEngine,
                  EngineOnly, watchVars
    <2>2. QED
      BY <1>1, <2>1
  <1>8. CASE Cancel \/ UNCHANGED vars
    <2>1. same
      BY <1>8 DEF Cancel, vars, watchVars, engineVars
    <2>2. QED
      BY <1>1, <2>1
  <1>9. QED
    BY <1>2, <1>3, <1>4, <1>5, <1>6, <1>7, <1>8 DEF Next

\* The length of what is in transit is the sum of its parts.
LEMMA TransitLength ==
    ASSUME TypeOK
    PROVE  Len(InTransit) = Len(queue) + Len(hand) + Len(out) + Len(sending)
  <1>1. /\ queue \in Seq(Event) /\ hand \in Seq(Event)
        /\ out \in Seq(Event) /\ sending \in Seq(Event)
    BY DEF TypeOK
  <1>2. queue \o hand \in Seq(Event) /\ Len(queue \o hand) = Len(queue) + Len(hand)
    BY <1>1, ConcatProperties
  <1>3. /\ queue \o hand \o out \in Seq(Event)
        /\ Len(queue \o hand \o out) = Len(queue) + Len(hand) + Len(out)
    BY <1>1, <1>2, ConcatProperties
  <1>4. QED
    BY <1>1, <1>3, ConcatProperties DEF InTransit

\* The accounts of recorded events, part by part, and the loss they bound.
Accounts ==
    /\ Len(recorded) = Len(received) + Len(queue) + Len(hand) + Len(out)
                       + Len(sending) + drops
    /\ NoLossWithinCapacity

\* Every step moves events between the places that are counted, or counts
\* the one it drops.
LEMMA AccountsStep ==
    ASSUME TypeOK, Shape, Accounts, [Next]_vars
    PROVE  Accounts'
  <1> DEFINE same == UNCHANGED <<recorded, received, queue, hand, out, sending, drops>>
  <1> USE DEF NoLossWithinCapacity, Accounts
  <1>0. /\ recorded \in Seq(Event) /\ received \in Seq(Event) /\ queue \in Seq(Event)
        /\ hand \in Seq(Event) /\ out \in Seq(Event) /\ sending \in Seq(Event)
        /\ drops \in Nat /\ OutCap \in Nat /\ E!QueueCap \in Nat
    BY FsWatchAssumption, EventPipelineAssumption DEF TypeOK, E!QueueCap
  <1>1. CASE same
    BY <1>1 DEF E!QueueCap
  <1>2. CASE (CreateFile \/ WriteFile \/ ChmodFile \/ RemoveFile \/ RenameFile) /\ WatcherOnly
    <2>1. same
      BY <1>2 DEF CreateFile, WriteFile, ChmodFile, RemoveFile, RenameFile, Change,
                  flushVars, WatcherOnly, engineVars
    <2>2. QED
      BY <1>1, <2>1
  <1>3. CASE (TimePasses \/ HandleEvent \/ HandleError \/ StartNothing \/ StartWatching
              \/ StartRun \/ StopWatcher \/ FlushPending) /\ WatcherOnly
    <2>1. same
      BY <1>3 DEF TimePasses, HandleEvent, HandleError, StartNothing, StartWatching,
                  StartRun, StopWatcher, FlushPending, flushVars, WatcherOnly, engineVars
    <2>2. QED
      BY <1>1, <2>1
  <1>4. CASE RecordEvent /\ WatcherOnly
    <2>1. PICK evt \in ready : recorded' = Append(recorded, evt) /\ sending' = <<evt>>
      BY <1>4 DEF RecordEvent
    <2>2. Len(recorded') = Len(recorded) + 1 /\ Len(sending') = 1
      <3>1. evt \in Event
        BY DEF TypeOK
      <3>2. Len(Append(recorded, evt)) = Len(recorded) + 1
        BY <3>1, <1>0, LenOfAppend, Zenon
      <3>3. QED
        BY <2>1, <3>2, LenOfOne, Zenon
    <2>3. sending = <<>> /\ UNCHANGED <<received, queue, hand, out, drops>>
      BY <1>4 DEF RecordEvent, Shape, WatcherOnly, engineVars
    <2>4. Len(sending) = 0 /\ E!QueueCap' = E!QueueCap
      BY <2>3 DEF E!QueueCap
    <2>5. QED
      BY <1>0, <2>2, <2>3, <2>4
  <1>5. CASE SendEvent /\ WatcherOnly
    <2>1. /\ Len(sending) = 1 /\ Len(sending') = 0 /\ E!QueueCap' = E!QueueCap
          /\ UNCHANGED <<recorded, received, queue, hand>>
      BY <1>5 DEF SendEvent, Shape, WatcherOnly, engineVars, E!QueueCap
    <2>2. CASE Len(out) < OutCap
      <3>1. Len(out') = Len(out) + 1 /\ drops' = drops
        <4>1. Len(out \o sending) = Len(out) + Len(sending)
          BY <1>0, ConcatProperties
        <4>2. QED
          BY <4>1, <1>5, <2>1, <2>2 DEF SendEvent
      <3>2. QED
        BY <1>0, <2>1, <3>1
    <2>3. CASE ~(Len(out) < OutCap)
      <3>1. out' = out /\ drops' = drops + 1
        BY <1>5, <2>3 DEF SendEvent
      <3>2. QED
        BY <1>0, <2>1, <2>3, <3>1
    <2>4. QED
      BY <2>2, <2>3
  <1>6. CASE E!Forward /\ EngineOnly
    <2>1. Len(hand) = 0 /\ Len(hand') = 1
      BY <1>6 DEF E!Forward
    <2>2. out' \in Seq(Event) /\ Len(out) = Len(out') + 1
      BY <1>0, <1>6 DEF E!Forward
    <2>3. /\ UNCHANGED <<recorded, received, queue, sending, drops>>
          /\ E!QueueCap' = E!QueueCap
      BY <1>6 DEF E!Forward, EngineOnly, watchVars, E!QueueCap
    <2>4. QED
      BY <1>0, <2>1, <2>2, <2>3
  <1>7. CASE E!Enqueue /\ EngineOnly
    <2>1. /\ Len(hand) = 1 /\ Len(hand') = 0 /\ E!QueueCap' = E!QueueCap
          /\ UNCHANGED <<recorded, received, out, sending>>
      <3>1. Len(hand) = 1 /\ hand' = <<>>
        BY <1>7 DEF E!Enqueue, Shape
      <3>2. Len(hand') = 0
        BY <3>1, EmptySeq, Zenon
      <3>3. QED
        BY <1>7, <3>1, <3>2 DEF E!Enqueue, EngineOnly, watchVars, E!QueueCap
    <2>2. CASE Len(queue) < E!QueueCap
      <3>1. Len(queue') = Len(queue) + 1 /\ drops' = drops
        <4>1. Len(queue \o hand) = Len(queue) + Len(hand)
          BY <1>0, ConcatProperties
        <4>2. QED
          BY <4>1, <1>7, <2>1, <2>2 DEF E!Enqueue
      <3>2. QED
        BY <1>0, <2>1, <3>1
    <2>3. CASE ~(Len(queue) < E!QueueCap)
      <3>1. queue' = queue /\ drops' = drops + 1
        BY <1>7, <2>3 DEF E!Enqueue
      <3>2. QED
        BY <1>0, <2>1, <2>3, <3>1
    <2>4. QED
      BY <2>2, <2>3
  <1>8. CASE E!ReceiveEvent /\ EngineOnly
    <2>1. Len(received') = Len(received) + 1
      BY <1>0, <1>8 DEF E!ReceiveEvent
    <2>2. queue' \in Seq(Event) /\ Len(queue) = Len(queue') + 1
      BY <1>0, <1>8 DEF E!ReceiveEvent
    <2>3. /\ UNCHANGED <<recorded, hand, out, sending, drops>>
          /\ E!QueueCap' = E!QueueCap
      BY <1>8 DEF E!ReceiveEvent, EngineOnly, watchVars, E!QueueCap
    <2>4. QED
      BY <1>0, <2>1, <2>2, <2>3
  <1>9. CASE (E!Tick \/ E!BeginSync \/ E!EndSync \/ E!StopEngine) /\ EngineOnly
    <2>1. same
      BY <1>9 DEF E!Tick, E!BeginSync, E!EndSync, E!StopEngine, EngineOnly, watchVars
    <2>2. QED
      BY <1>1, <2>1
  <1>10. CASE Cancel \/ UNCHANGED vars
    <2>1. same
      BY <1>10 DEF Cancel, vars, watchVars, engineVars, sharedVars
    <2>2. QED
      BY <1>1, <2>1
  <1>11. QED
    BY <1>2, <1>3, <1>4, <1>5, <1>6, <1>7, <1>8, <1>9, <1>10 DEF Next

\* The inductive invariant behind the two accounting theorems.
LEMMA AccountsInvariant == Spec => [](TypeOK /\ Shape /\ Accounts)
  <1>1. Init => Shape /\ Accounts
    BY DEF Init, WatchInit, E!EngineInit, Shape, Accounts, NoLossWithinCapacity
  <1>2. TypeOK /\ Shape /\ Accounts /\ [Next]_vars => (Shape /\ Accounts)'
    BY ShapeStep, AccountsStep
  <1>3. QED
    BY <1>1, <1>2, TypeCorrect, PTL DEF Spec

\* Every event given to the status is taken by the engine, on its way to it,
\* or counted as dropped by the watcher's or the queue's full channel.
THEOREM AllAccountedFor == Spec => []EveryEventAccountedFor
  <1>1. ASSUME TypeOK, Accounts
        PROVE  EveryEventAccountedFor
    <2>1. /\ Len(queue) \in Nat /\ Len(hand) \in Nat /\ Len(out) \in Nat
          /\ Len(sending) \in Nat /\ Len(received) \in Nat /\ drops \in Nat
      BY <1>1, LenProperties DEF TypeOK
    <2>2. QED
      BY <1>1, <2>1, TransitLength DEF Accounts, EveryEventAccountedFor
  <1>2. QED
    BY <1>1, AccountsInvariant, PTL

\* Up to the capacity of the smaller channel, no event is ever dropped,
\* however slowly the forwarder and the engine run.
THEOREM NoEarlyLoss == Spec => []NoLossWithinCapacity
  <1>1. Accounts => NoLossWithinCapacity
    BY DEF Accounts
  <1>2. QED
    BY <1>1, AccountsInvariant, PTL

-----------------------------------------------------------------------------
(* The way to the engine is a FIFO that may lose events.                     *)

\* rest is seq without one element.
OneLess(seq, rest) ==
    \E i \in 1..Len(seq) : rest = SubSeq(seq, 1, i-1) \o SubSeq(seq, i+1, Len(seq))

\* Taking one element out of the middle of a sequence.
LEMMA WithoutMiddle ==
    ASSUME NEW a \in Seq(Event), NEW e \in Event, NEW b \in Seq(Event),
           NEW seq, seq = (a \o <<e>>) \o b
    PROVE  OneLess(seq, a \o b)
  <1> DEFINE i == Len(a) + 1
  <1>1. /\ a \o <<e>> \in Seq(Event) /\ Len(a \o <<e>>) = i
        /\ seq \in Seq(Event) /\ Len(seq) = i + Len(b)
    OBVIOUS
  <1>2. SubSeq(seq, 1, i-1) = a
    <2>1. \A j \in 1..Len(a) : seq[j] = a[j]
      BY <1>1
    <2>2. \A j \in 1..Len(a) : seq[j] \in Event
      BY <1>1
    <2>3. /\ SubSeq(seq, 1, i-1) \in Seq(Event) /\ Len(SubSeq(seq, 1, i-1)) = Len(a)
          /\ \A j \in 1..Len(a) : SubSeq(seq, 1, i-1)[j] = a[j]
      BY <1>1, <2>1, <2>2, SubSeqProperties
    <2>4. QED
      BY <2>3, SeqEqual
  <1>3. SubSeq(seq, i+1, Len(seq)) = b
    <2>1. \A j \in i+1..Len(seq) : seq[j] = b[j - i] /\ seq[j] \in Event
      BY <1>1
    <2>2. i+1 \in Int /\ Len(seq) \in Int /\ Len(b) \in Nat /\ i \in Nat
      BY <1>1
    <2>3. /\ SubSeq(seq, i+1, Len(seq)) \in Seq(Event)
          /\ Len(SubSeq(seq, i+1, Len(seq))) = IF i+1 <= Len(seq) THEN Len(seq) - (i+1) + 1 ELSE 0
          /\ \A j \in 1..Len(seq) - (i+1) + 1 : SubSeq(seq, i+1, Len(seq))[j] = seq[(i+1) + j - 1]
      BY <2>1, <2>2, SubSeqProperties
    <2>4. Len(seq) - (i+1) + 1 = Len(b) /\ Len(SubSeq(seq, i+1, Len(seq))) = Len(b)
      BY <1>1, <2>2, <2>3
    <2>5. \A j \in 1..Len(b) : SubSeq(seq, i+1, Len(seq))[j] = b[j]
      <3>1. TAKE j \in 1..Len(b)
      <3>2. i + j \in i+1..Len(seq) /\ (i+1) + j - 1 = i + j /\ (i + j) - i = j
        BY <1>1, <2>2
      <3>3. QED
        BY <2>1, <2>3, <2>4, <3>2
    <2>6. QED
      BY <2>3, <2>4, <2>5, SeqEqual
  <1>4. i \in 1..Len(seq)
    BY <1>1
  <1> HIDE DEF i
  <1>5. QED
    BY <1>2, <1>3, <1>4 DEF OneLess

\* The same when the parts are grouped from the right.
LEMMA WithoutMiddleEvent ==
    ASSUME NEW a \in Seq(Event), NEW e \in Event, NEW b \in Seq(Event),
           NEW seq, seq = a \o (<<e>> \o b)
    PROVE  OneLess(seq, a \o b)
  <1> DEFINE one == <<e>>
  <1>1. one \in Seq(Event)
    OBVIOUS
  <1>2. seq = (a \o one) \o b
    <2> HIDE DEF one
    <2>1. a \o (one \o b) = (a \o one) \o b
      BY <1>1
    <2>2. seq = a \o (one \o b)
      BY DEF one
    <2>3. QED
      BY <2>1, <2>2
  <1>3. QED
    BY <1>2, WithoutMiddle

\* Taking the first element of a concatenation.
LEMMA FirstOfConcat ==
    ASSUME NEW S, NEW a \in Seq(S), a # <<>>, NEW b \in Seq(S)
    PROVE  /\ a \o b # <<>> /\ Head(a \o b) = Head(a)
           /\ Tail(a \o b) = Tail(a) \o b
  <1>1. /\ a \o b \in Seq(S) /\ Len(a \o b) = Len(a) + Len(b) /\ Len(a) > 0
    OBVIOUS
  <1>2. a \o b # <<>> /\ Head(a \o b) = Head(a)
    BY <1>1
  <1>3. /\ Tail(a) \in Seq(S) /\ Len(Tail(a)) = Len(a) - 1
        /\ Tail(a \o b) \in Seq(S) /\ Len(Tail(a \o b)) = Len(a) + Len(b) - 1
    BY <1>1, <1>2
  <1>4. Tail(a) \o b \in Seq(S) /\ Len(Tail(a) \o b) = Len(a) + Len(b) - 1
    BY <1>3
  <1>5. \A j \in 1..Len(a) + Len(b) - 1 : Tail(a \o b)[j] = (Tail(a) \o b)[j]
    BY <1>1, <1>2, <1>3
  <1>6. QED
    BY <1>2, <1>3, <1>4, <1>5, SeqEqual

\* A sequence of one element.
LEMMA OneElement ==
    ASSUME NEW S, NEW seq \in Seq(S), Len(seq) = 1
    PROVE  \E e \in S : seq = <<e>>
  <1>1. seq[1] \in S
    OBVIOUS
  <1>2. <<seq[1]>> \in Seq(S) /\ Len(<<seq[1]>>) = 1 /\ seq[1] = <<seq[1]>>[1]
    BY <1>1
  <1>3. seq = <<seq[1]>>
    BY <1>1, <1>2, SeqEqual
  <1>4. QED
    BY <1>1, <1>3

\* What is in transit, grouped from the right.
LEMMA Grouped ==
    /\ TypeOK  => InTransit = queue \o (hand \o (out \o sending)) /\ out \o sending \in Seq(Event)
    /\ TypeOK' => (InTransit = queue \o (hand \o (out \o sending)) /\ out \o sending \in Seq(Event))'
  <1>1. ASSUME TypeOK
        PROVE  InTransit = queue \o (hand \o (out \o sending)) /\ out \o sending \in Seq(Event)
    <2> DEFINE start == queue \o hand
               rest  == out \o sending
    <2>1. /\ queue \in Seq(Event) /\ hand \in Seq(Event) /\ out \in Seq(Event) /\ sending \in Seq(Event)
          /\ start \in Seq(Event) /\ rest \in Seq(Event)
      BY <1>1, ConcatProperties DEF TypeOK
    <2>2. queue \o (hand \o rest) = start \o rest
      <3> HIDE DEF rest
      <3>1. QED
        BY <2>1
    <2>3. (start \o out) \o sending = start \o rest
      <3> HIDE DEF start
      <3>1. QED
        BY <2>1
    <2>4. QED
      BY <2>1, <2>2, <2>3 DEF InTransit
  <1>2. ASSUME TypeOK'
        PROVE  (InTransit = queue \o (hand \o (out \o sending)) /\ out \o sending \in Seq(Event))'
    <2> DEFINE start == queue' \o hand'
               rest  == out' \o sending'
    <2>1. /\ queue' \in Seq(Event) /\ hand' \in Seq(Event) /\ out' \in Seq(Event) /\ sending' \in Seq(Event)
          /\ start \in Seq(Event) /\ rest \in Seq(Event)
      BY <1>2, ConcatProperties DEF TypeOK
    <2>2. queue' \o (hand' \o rest) = start \o rest
      <3> HIDE DEF rest
      <3>1. QED
        BY <2>1
    <2>3. (start \o out') \o sending' = start \o rest
      <3> HIDE DEF start
      <3>1. QED
        BY <2>1
    <2>4. QED
      BY <2>1, <2>2, <2>3 DEF InTransit
  <1>3. QED
    BY <1>1, <1>2

\* Every step of the pipeline is a step of the FIFO, or none.
LEMMA FifoStep ==
    ASSUME TypeOK, Shape, [Next]_vars
    PROVE  [Fifo!Next]_<<recorded, InTransit, received>>
  <1> DEFINE same == UNCHANGED <<recorded, received, queue, hand, out, sending>>
  <1>1. CASE same
    BY <1>1 DEF InTransit
  <1>0. TypeOK'
    BY StepType
  <1>2. /\ recorded \in Seq(Event) /\ received \in Seq(Event) /\ queue \in Seq(Event)
        /\ hand \in Seq(Event) /\ out \in Seq(Event) /\ sending \in Seq(Event) /\ ready \subseteq Event
    BY DEF TypeOK
  <1>3. CASE RecordEvent /\ WatcherOnly
    <2>1. PICK evt \in ready : recorded' = Append(recorded, evt) /\ sending' = <<evt>>
      BY <1>3 DEF RecordEvent
    <2>2. sending = <<>> /\ UNCHANGED <<received, queue, hand, out>>
      BY <1>3 DEF RecordEvent, WatcherOnly, engineVars, Shape
    <2>3. evt \in Event /\ queue \o hand \o out \in Seq(Event)
      BY <1>2
    <2>4. InTransit = queue \o hand \o out /\ InTransit' = queue \o hand \o out \o <<evt>>
      BY <2>1, <2>2, <2>3, ConcatEmptySeq DEF InTransit
    <2>5. InTransit' = Append(InTransit, evt)
      BY <2>3, <2>4, AppendIsConcat
    <2>6. Len(recorded') = Len(recorded) + 1 /\ recorded'[Len(recorded')] = evt
      BY <1>2, <2>1, <2>3, AppendProperties
    <2>7. Fifo!Send
      BY <1>2, <2>1, <2>2, <2>5, <2>6 DEF Fifo!Send
    <2>8. QED
      BY <2>7 DEF Fifo!Next
  <1>4. CASE SendEvent /\ WatcherOnly
    <2>1. PICK evt \in Event : sending = <<evt>>
      BY <1>2, <1>4, OneElement DEF SendEvent, Shape
    <2>2. UNCHANGED <<recorded, received, queue, hand>> /\ sending' = <<>>
      BY <1>4 DEF SendEvent, WatcherOnly, engineVars
    <2>3. queue \o hand \in Seq(Event) /\ queue \o hand \o out \in Seq(Event)
      BY <1>2
    <2>4. CASE out' = out \o sending
      <3>1. out' \o <<>> = out \o sending
        BY <1>2, <2>4, ConcatEmptySeq
      <3>2. InTransit' = InTransit
        BY <1>0, <2>2, <3>1, Grouped
      <3>3. QED
        BY <2>2, <3>2
    <2>5. CASE out' = out
      <3>1. InTransit = ((queue \o hand \o out) \o <<evt>>) \o <<>> /\ InTransit' = (queue \o hand \o out) \o <<>>
        BY <2>1, <2>2, <2>3, <2>5, ConcatEmptySeq DEF InTransit
      <3>2. OneLess(InTransit, InTransit')
        <4> DEFINE first == queue \o hand \o out
        <4>1. first \in Seq(Event) /\ <<>> \in Seq(Event)
          BY <2>3
        <4>2. InTransit = (first \o <<evt>>) \o <<>> /\ InTransit' = first \o <<>>
          BY <3>1
        <4> HIDE DEF first
        <4>3. QED
          BY <2>1, <4>1, <4>2, WithoutMiddle
      <3>3. Fifo!Lose
        BY <2>2, <3>2, Zenon DEF Fifo!Lose, OneLess
      <3>4. QED
        BY <3>3 DEF Fifo!Next
    <2>6. QED
      BY <1>4, <2>4, <2>5 DEF SendEvent
  <1>5. CASE E!Forward /\ EngineOnly
    <2>1. /\ hand = <<>> /\ out # <<>> /\ hand' = <<Head(out)>> /\ out' = Tail(out)
          /\ UNCHANGED <<recorded, received, queue, sending>>
      BY <1>5 DEF E!Forward, EngineOnly, watchVars
    <2>2. out = <<Head(out)>> \o Tail(out) /\ Head(out) \in Event /\ Tail(out) \in Seq(Event)
      BY <1>2, <2>1
    <2>3. <<Head(out)>> \o (Tail(out) \o sending) = (<<Head(out)>> \o Tail(out)) \o sending
      <3> HIDE DEF same
      <3>1. <<Head(out)>> \in Seq(Event)
        BY <2>2
      <3>2. QED
        BY <1>2, <2>2, <3>1
    <2>4. <<>> \o (out \o sending) = out \o sending
      BY Grouped, ConcatEmptySeq
    <2>5. InTransit' = InTransit
      BY <1>0, <2>1, <2>2, <2>3, <2>4, Grouped
    <2>6. QED
      BY <2>1, <2>5
  <1>6. CASE E!Enqueue /\ EngineOnly
    <2>1. UNCHANGED <<recorded, received, out, sending>> /\ hand # <<>> /\ hand' = <<>>
      BY <1>6 DEF E!Enqueue, EngineOnly, watchVars
    <2>2. PICK evt \in Event : hand = <<evt>>
      BY <1>2, <2>1, OneElement DEF Shape
    <2>3. CASE queue' = queue \o hand
      <3>1. InTransit' = InTransit
        BY <1>2, <2>1, <2>3, ConcatEmptySeq DEF InTransit
      <3>2. QED
        BY <2>1, <3>1
    <2>4. CASE queue' = queue
      <3>1. InTransit = queue \o (<<evt>> \o (out \o sending)) /\ out \o sending \in Seq(Event)
        BY <2>2, Grouped
      <3>2. InTransit' = queue \o (<<>> \o (out \o sending))
        BY <1>0, <2>1, <2>4, Grouped
      <3> DEFINE rest == out \o sending
      <3>3. /\ rest \in Seq(Event) /\ InTransit = queue \o (<<evt>> \o rest)
            /\ InTransit' = queue \o rest
        BY <3>1, <3>2, ConcatEmptySeq
      <3> HIDE DEF rest
      <3>4. OneLess(InTransit, InTransit')
        BY <1>2, <2>2, <3>3, WithoutMiddleEvent
      <3>7. Fifo!Lose
        BY <2>1, <3>4, Zenon DEF Fifo!Lose, OneLess
      <3>8. QED
        BY <3>7 DEF Fifo!Next
    <2>5. QED
      BY <1>6, <2>3, <2>4 DEF E!Enqueue
  <1>7. CASE E!ReceiveEvent /\ EngineOnly
    <2>1. /\ queue # <<>> /\ received' = Append(received, Head(queue)) /\ queue' = Tail(queue)
          /\ UNCHANGED <<recorded, hand, out, sending>>
      BY <1>7 DEF E!ReceiveEvent, EngineOnly, watchVars
    <2> DEFINE rest == hand \o (out \o sending)
    <2>2. rest \in Seq(Event) /\ Tail(queue) \in Seq(Event)
      BY <1>2, <2>1
    <2>3. InTransit = queue \o rest
      BY Grouped
    <2>4. InTransit' = Tail(queue) \o rest
      BY <1>0, <2>1, Grouped
    <2> HIDE DEF rest
    <2>5. InTransit # <<>> /\ Head(InTransit) = Head(queue) /\ InTransit' = Tail(InTransit)
      BY <1>2, <2>1, <2>2, <2>3, <2>4, FirstOfConcat
    <2>6. QED
      BY <2>1, <2>5 DEF Fifo!Next, Fifo!Deliver
  <1>8. CASE \/ (CreateFile \/ WriteFile \/ ChmodFile \/ RemoveFile \/ RenameFile) /\ WatcherOnly
             \/ (TimePasses \/ StartNothing \/ StartWatching \/ StartRun) /\ WatcherOnly
             \/ (HandleEvent \/ HandleError \/ FlushPending \/ StopWatcher) /\ WatcherOnly
    <2>1. same
      BY <1>8 DEF CreateFile, WriteFile, ChmodFile, RemoveFile, RenameFile, Change, TimePasses,
           StartNothing, StartWatching, StartRun, HandleEvent, HandleError, FlushPending,
           StopWatcher, flushVars, WatcherOnly, engineVars
    <2>2. QED
      BY <1>1, <2>1
  <1>9. CASE (E!Tick \/ E!BeginSync \/ E!EndSync \/ E!StopEngine) /\ EngineOnly
    <2>1. same
      BY <1>9 DEF E!Tick, E!BeginSync, E!EndSync, E!StopEngine, EngineOnly, watchVars
    <2>2. QED
      BY <1>1, <2>1
  <1>10. CASE Cancel \/ UNCHANGED vars
    <2>1. same
      BY <1>10 DEF Cancel, vars, watchVars, engineVars, sharedVars
    <2>2. QED
      BY <1>1, <2>1
  <1>11. QED
    BY <1>3, <1>4, <1>5, <1>6, <1>7, <1>8, <1>9, <1>10 DEF Next

\* The pipeline of the daemon is a FIFO that may lose events and does nothing
\* else, whatever the capacities of its two channels.
THEOREM PipelineIsLossyFifo == Spec => ImplementsLossyFifo
  <1>1. Init => Fifo!Init
    BY DEF Init, WatchInit, E!EngineInit, Fifo!Init, InTransit
  <1>2. TypeOK /\ Shape /\ [Next]_vars => [Fifo!Next]_<<recorded, InTransit, received>>
    BY FifoStep
  <1>3. QED
    BY <1>1, <1>2, AccountsInvariant, PTL DEF Spec, ImplementsLossyFifo, Fifo!Spec, Fifo!vars

-----------------------------------------------------------------------------
(* What the status shows.                                                   *)

\* The steps that change the history, the store or the engine's place.
LEMMA StatusSteps ==
    ASSUME TypeOK, [Next]_vars
    PROVE  \/ UNCHANGED <<recorded, store, epc>>
           \/ UNCHANGED recorded /\ store' = Update(store, "error", NoEvent) /\ epc' = epc
           \/ UNCHANGED recorded /\ store' = Update(store, "idle", NoEvent)
           \/ UNCHANGED recorded /\ store' = Update(store, "syncing", NoEvent) /\ epc' = "end"
           \/ UNCHANGED <<recorded, store>> /\ epc = "select"
           \/ \E evt \in Event : /\ recorded' = Append(recorded, evt)
                                 /\ store' = AddEvent(store, evt) /\ epc' = epc
  <1>0. \A st \in State : E!Update(store, st, NoEvent) = Update(store, st, NoEvent)
    BY StoreOps DEF TypeOK
  <1>1. CASE (CreateFile \/ WriteFile \/ ChmodFile \/ RemoveFile \/ RenameFile) /\ WatcherOnly
    BY <1>1 DEF CreateFile, WriteFile, ChmodFile, RemoveFile, RenameFile, Change,
                flushVars, WatcherOnly, engineVars
  <1>2. CASE (TimePasses \/ HandleEvent \/ StartNothing \/ StartWatching \/ StopWatcher
              \/ FlushPending \/ SendEvent) /\ WatcherOnly
    BY <1>2 DEF TimePasses, HandleEvent, StartNothing, StartWatching, StopWatcher,
                FlushPending, SendEvent, flushVars, WatcherOnly, engineVars
  <1>3. CASE (StartRun \/ HandleError) /\ WatcherOnly
    BY <1>3 DEF StartRun, HandleError, flushVars, WatcherOnly, engineVars
  <1>4. CASE RecordEvent /\ WatcherOnly
    BY <1>4 DEF RecordEvent, WatcherOnly, engineVars, TypeOK
  <1>5. CASE (E!Forward \/ E!Enqueue \/ E!ReceiveEvent \/ E!Tick) /\ EngineOnly
    BY <1>5 DEF E!Forward, E!Enqueue, E!ReceiveEvent, E!Tick, EngineOnly, watchVars
  <1>6. CASE (E!BeginSync \/ E!EndSync \/ E!StopEngine) /\ EngineOnly
    BY <1>0, <1>6 DEF E!BeginSync, E!EndSync, E!StopEngine, EngineOnly, watchVars, State
  <1>7. CASE Cancel \/ UNCHANGED vars
    BY <1>7 DEF Cancel, vars, watchVars, engineVars, sharedVars
  <1>8. QED
    BY <1>1, <1>2, <1>3, <1>4, <1>5, <1>6, <1>7 DEF Next

\* Only BeginSync shows "syncing", and the update that follows takes it back.
LEMMA SyncingStep ==
    ASSUME TypeOK, SyncingMeansBusy, [Next]_vars
    PROVE  SyncingMeansBusy'
  <1>1. \A st \in State : Update(store, st, NoEvent).state = st
    BY DEF Update, TypeOK, Store
  <1>2. \A evt \in Event : AddEvent(store, evt).state = store.state
    BY DEF AddEvent, TypeOK, Store
  <1>3. QED
    BY <1>1, <1>2, StatusSteps DEF SyncingMeansBusy, State

\* "syncing" is shown only between the engine's two updates.
THEOREM SyncingOnlyWhenBusy == Spec => []SyncingMeansBusy
  <1>1. Init => SyncingMeansBusy
    BY InitState DEF SyncingMeansBusy
  <1>2. TypeOK /\ SyncingMeansBusy /\ [Next]_vars => SyncingMeansBusy'
    BY SyncingStep
  <1>3. QED
    BY <1>1, <1>2, TypeCorrect, PTL DEF Spec

\* AddEvent slides the window by the event it records, and every Update
\* publishes the ring again.
LEMMA StatusStep ==
    ASSUME TypeOK, StatusInv, [Next]_vars
    PROVE  StatusInv'
  <1>0. /\ store \in Store /\ recorded \in Seq(Event) /\ store.maxEvents \in Nat \ {0}
    BY DEF TypeOK, Store
  <1>1. CASE UNCHANGED <<recorded, store>>
    BY <1>1 DEF StatusInv, StatusShowsRecorded
  <1>2. ASSUME NEW st \in State, UNCHANGED recorded, store' = Update(store, st, NoEvent)
        PROVE  StatusInv'
    BY <1>0, <1>2 DEF StatusInv, StatusShowsRecorded, Update, Store
  <1>3. ASSUME NEW evt \in Event, recorded' = Append(recorded, evt),
               store' = AddEvent(store, evt)
        PROVE  StatusInv'
    <2>1. store.ring = Newest(recorded, store.maxEvents)
      BY DEF StatusInv, StatusShowsRecorded
    <2>2. Newest(Append(store.ring, evt), store.maxEvents) = Newest(recorded', store.maxEvents)
      BY <1>0, <1>3, <2>1, NewestAppend
    <2>3. /\ store'.ring = Newest(recorded', store.maxEvents)
          /\ store'.recent = store'.ring /\ store'.last = evt
          /\ store'.maxEvents = store.maxEvents
      BY <1>0, <1>3, <2>2 DEF AddEvent, Store
    <2>4. recorded' # <<>> /\ recorded'[Len(recorded')] = evt
      BY <1>0, <1>3
    <2>5. QED
      BY <2>3, <2>4 DEF StatusInv, StatusShowsRecorded
  <1>4. QED
    BY <1>1, <1>2, <1>3, StatusSteps DEF State

\* Whatever the three goroutines' updates interleave to, the status shows the
\* newest recorded events and the newest of them as the last event.
THEOREM StatusIsRecorded == Spec => []StatusShowsRecorded
  <1>1. Init => StatusInv
    <2> SUFFICES ASSUME Init PROVE StatusInv
      OBVIOUS
    <2>1. /\ store.ring = <<>> /\ store.recent = <<>> /\ store.last = NoEvent
          /\ store.maxEvents \in Nat /\ recorded = <<>>
      BY InitState
    <2>2. Newest(<<>>, store.maxEvents) = <<>>
      BY <2>1 DEF Newest
    <2>3. QED
      BY <2>1, <2>2 DEF StatusInv, StatusShowsRecorded
  <1>2. TypeOK /\ StatusInv /\ [Next]_vars => StatusInv'
    BY StatusStep
  <1>3. StatusInv => StatusShowsRecorded
    BY DEF StatusInv
  <1>4. QED
    BY <1>1, <1>2, <1>3, TypeCorrect, PTL DEF Spec

-----------------------------------------------------------------------------
(* Debouncing and merging: what becomes of a change.                        *)

newsVars == <<exists, told, clock, kq, pending, ready, recorded>>

\* The effect of a file change: queued is whether the kernel kept the
\* notification bits of path p.
FileStep(p, bits, queued) ==
    /\ kq' = IF queued THEN Append(kq, [path |-> p, bits |-> bits]) ELSE kq
    /\ told' = [told EXCEPT ![p] = IF queued THEN clock ELSE NotTold]
    /\ \/ exists' = exists \cup {p}
       \/ bits \in {{"remove"}, {"rename"}} /\ exists' = exists \ {p}
    /\ UNCHANGED <<clock, pending, ready, recorded>>

\* The steps that change what is known of a path, and where.
LEMMA NewsSteps ==
    ASSUME TypeOK, Shape, [Next]_vars
    PROVE  \/ UNCHANGED newsVars
           \/ \E p \in Paths, bits \in (SUBSET RawOp) \ {{}}, queued \in BOOLEAN :
                 FileStep(p, bits, queued)
           \/ clock' = clock + 1 /\ UNCHANGED <<exists, told, kq, pending, ready, recorded>>
           \/ HandleEvent /\ ready = {}
           \/ FlushPending /\ ready = {}
           \/ RecordEvent
  <1>1. ASSUME NEW p \in Paths, NEW bits \in (SUBSET RawOp) \ {{}}, NEW files,
               Change(p, bits, files),
               \/ files = exists \cup {p}
               \/ bits \in {{"remove"}, {"rename"}} /\ files = exists \ {p}
        PROVE  \E queued \in BOOLEAN : FileStep(p, bits, queued)
    <2> DEFINE q == Watching /\ Len(kq) < KernelCap
    <2>1. q \in BOOLEAN
      BY DEF Watching
    <2>2. FileStep(p, bits, q)
      BY <1>1 DEF Change, FileStep, flushVars
    <2>3. QED
      BY <2>1, <2>2
  <1> DEFINE filestep == \E p \in Paths, bits \in (SUBSET RawOp) \ {{}}, queued \in BOOLEAN :
                            FileStep(p, bits, queued)
  <1> HIDE DEF filestep
  <1>2. CASE CreateFile
    <2>1. PICK p \in Paths : Change(p, {"create"}, exists \cup {p})
      BY <1>2 DEF CreateFile
    <2>2. {"create"} \in (SUBSET RawOp) \ {{}}
      BY DEF RawOp
    <2>3. QED
      BY <1>1, <2>1, <2>2 DEF filestep
  <1>3. CASE WriteFile \/ ChmodFile
    <2>1. PICK p \in exists, bits \in {{"write"}, {"chmod"}} : Change(p, bits, exists)
      BY <1>3 DEF WriteFile, ChmodFile
    <2>2. bits \in (SUBSET RawOp) \ {{}} /\ p \in Paths /\ exists = exists \cup {p}
      BY DEF RawOp, TypeOK
    <2>3. QED
      BY <1>1, <2>1, <2>2 DEF filestep
  <1>4. CASE RemoveFile \/ RenameFile
    <2>1. PICK p \in exists, bits \in {{"remove"}, {"rename"}} : Change(p, bits, exists \ {p})
      BY <1>4 DEF RemoveFile, RenameFile
    <2>2. bits \in (SUBSET RawOp) \ {{}} /\ p \in Paths
      BY DEF RawOp, TypeOK
    <2>3. QED
      BY <1>1, <2>1, <2>2 DEF filestep
  <1>5. CASE TimePasses
    BY <1>5 DEF TimePasses, fileVars, flushVars
  <1>6. CASE HandleEvent \/ FlushPending
    BY <1>6 DEF HandleEvent, FlushPending, Shape
  <1>7. CASE StartNothing \/ StartWatching \/ StartRun \/ HandleError \/ SendEvent \/ StopWatcher
    BY <1>7 DEF StartNothing, StartWatching, StartRun, HandleError, SendEvent, StopWatcher,
                fileVars, flushVars, newsVars
  <1>8. CASE EngineOnly \/ Cancel \/ UNCHANGED vars
    BY <1>8 DEF EngineOnly, Cancel, vars, watchVars, newsVars
  <1>9. QED
    BY <1>2, <1>3, <1>4, <1>5, <1>6, <1>7, <1>8 DEF Next, filestep

\* A pending event is one, and what appending and taking do to positions.
LEMMA PendingIsEvent ==
    ASSUME TypeOK, NEW p \in Paths, pending[p] # NoEvent
    PROVE  pending[p] \in Event /\ pending[p].path = p /\ pending[p].when \in Nat
  BY DEF TypeOK, Event

\* The elements of an appended sequence, position by position.
LEMMA AppendAt ==
    ASSUME NEW S, NEW seq \in Seq(S), NEW e \in S
    PROVE  /\ Len(Append(seq, e)) = Len(seq) + 1
           /\ \A i \in 1..Len(seq) : Append(seq, e)[i] = seq[i]
           /\ Append(seq, e)[Len(seq) + 1] = e
           /\ 1..Len(Append(seq, e)) = 1..Len(seq) \cup {Len(seq) + 1}
  OBVIOUS

\* The elements that are left after the head is taken.
LEMMA TailAt ==
    ASSUME NEW S, NEW seq \in Seq(S), seq # <<>>
    PROVE  /\ Len(Tail(seq)) = Len(seq) - 1
           /\ \A i \in 1..Len(Tail(seq)) : i + 1 \in 1..Len(seq) /\ Tail(seq)[i] = seq[i + 1]
           /\ \A i \in 2..Len(seq) : i - 1 \in 1..Len(Tail(seq)) /\ Tail(seq)[i - 1] = seq[i]
           /\ Head(seq) = seq[1] /\ 1 \in 1..Len(seq)
  OBVIOUS

\* HandleEvent leaves every path but the notification's alone, and gives that
\* one a pending event stamped one debounce interval from now.
LEMMA HandledEvent ==
    ASSUME TypeOK, HandleEvent
    PROVE  \E h \in Paths :
             /\ h = Head(kq).path /\ kq # <<>> /\ kq' = Tail(kq)
             /\ UNCHANGED <<exists, told, clock, ready, recorded>>
             /\ \A p \in Paths \ {h} : pending'[p] = pending[p]
             /\ h \in Ignored => pending' = pending
             /\ h \notin Ignored =>
                  /\ pending'[h] # NoEvent
                  /\ pending'[h].when = clock + Debounce
                  /\ normalizeOp(Head(kq).bits) \in Removal => pending'[h].op \in Removal
  <1> DEFINE h  == Head(kq).path
             op == normalizeOp(Head(kq).bits)
             new == [path |-> h,
                     op   |-> IF pending[h] = NoEvent THEN op
                              ELSE mergeOp(pending[h].op, op),
                     when |-> clock + Debounce]
  <1>1. Head(kq) \in Raw
    BY DEF HandleEvent, TypeOK
  <1>2. h \in Paths /\ op \in RawOp /\ op # "unknown" /\ op \in Op
    BY <1>1, NormalizeKnown DEF Raw, RawOp, Op
  <1>3. pending' = IF h \in Ignored THEN pending ELSE [pending EXCEPT ![h] = new]
    BY <1>2 DEF HandleEvent
  <1>4. pending[h] # NoEvent => pending[h].op \in Op
    BY <1>2, PendingIsEvent DEF Event
  <1>5. new.op \in Op /\ (op \in Removal => new.op \in Removal)
    BY <1>2, <1>4, MergeIsOne, MergeKeepsRemoval
  <1>6. h \notin Ignored => new \in Event
    BY <1>2, <1>5, FsWatchAssumption DEF Event, TypeOK
  <1>7. h \notin Ignored => pending'[h] = new /\ new # NoEvent /\ new.when = clock + Debounce
    BY <1>2, <1>3, <1>6, FsWatchAssumption DEF TypeOK
  <1>8. \A p \in Paths \ {h} : pending'[p] = pending[p]
    BY <1>2, <1>3 DEF TypeOK
  <1>9. QED
    BY <1>2, <1>3, <1>5, <1>7, <1>8 DEF HandleEvent, flushVars

\* FlushPending turns the due events, and only those, into ready ones.
LEMMA FlushedEvents ==
    ASSUME TypeOK, FlushPending
    PROVE  /\ UNCHANGED <<exists, told, clock, kq, recorded>>
           /\ \A p \in Paths : pending'[p] = IF p \in Due THEN NoEvent ELSE pending[p]
           /\ \A e \in ready' : e.path \in Due /\ e.op = pending[e.path].op /\ e.when = clock
           /\ \A e1, e2 \in ready' : e1.path = e2.path => e1 = e2
           /\ \A p \in Due : \E e \in ready' : e.path = p
  <1>1. ready' = {[path |-> p, op |-> pending[p].op, when |-> clock] : p \in Due}
    BY DEF FlushPending
  <1>2. ASSUME NEW e \in ready'
        PROVE  /\ e = [path |-> e.path, op |-> pending[e.path].op, when |-> clock]
               /\ e.path \in Due
    <2>1. PICK p \in Due : e = [path |-> p, op |-> pending[p].op, when |-> clock]
      BY <1>1
    <2>2. QED
      BY <2>1
  <1>3. \A e \in ready' : e.path \in Due /\ e.op = pending[e.path].op /\ e.when = clock
    BY <1>2
  <1>4. ASSUME NEW p \in Due
        PROVE  \E e \in ready' : e.path = p
    <2>1. [path |-> p, op |-> pending[p].op, when |-> clock] \in ready'
      BY <1>1
    <2>2. QED
      BY <2>1
  <1>5. \A e1, e2 \in ready' : e1.path = e2.path => e1 = e2
    BY <1>2
  <1>6. QED
    BY <1>3, <1>4, <1>5 DEF FlushPending, fileVars

\* RecordEvent moves one ready event to the end of the history.
LEMMA RecordedEvent ==
    ASSUME TypeOK, RecordEvent
    PROVE  \E evt \in ready :
             /\ evt \in Event /\ ready' = ready \ {evt}
             /\ UNCHANGED <<exists, told, clock, kq, pending>>
             /\ Len(recorded') = Len(recorded) + 1
             /\ \A i \in 1..Len(recorded) : recorded'[i] = recorded[i]
             /\ recorded'[Len(recorded) + 1] = evt
             /\ 1..Len(recorded') = 1..Len(recorded) \cup {Len(recorded) + 1}
  <1>1. PICK evt \in ready : recorded' = Append(recorded, evt) /\ ready' = ready \ {evt}
    BY DEF RecordEvent
  <1>2. evt \in Event /\ recorded \in Seq(Event)
    BY DEF TypeOK
  <1>3. QED
    BY <1>1, <1>2, AppendAt DEF RecordEvent, fileVars

\* No stamp moves into the future: the clock only goes forward, and flushing
\* stamps with the clock.
LEMMA StampsStep ==
    ASSUME TypeOK, Shape, StampsInv, [Next]_vars
    PROVE  StampsInv'
  <1>0. /\ clock \in Nat /\ Debounce \in Nat /\ told \in [Paths -> Nat \cup {NotTold}]
        /\ ready \subseteq Event /\ recorded \in Seq(Event)
    BY FsWatchAssumption DEF TypeOK
  <1>1. CASE UNCHANGED newsVars
    BY <1>1 DEF newsVars, StampsInv
  <1>2. ASSUME NEW p \in Paths, NEW bits, NEW queued \in BOOLEAN, FileStep(p, bits, queued)
        PROVE  StampsInv'
    <2>1. \A q \in Paths : told'[q] <= clock'
      BY <1>0, <1>2 DEF FileStep, StampsInv, NotTold
    <2>2. QED
      BY <1>2, <2>1 DEF FileStep, StampsInv
  <1>3. CASE clock' = clock + 1 /\ UNCHANGED <<exists, told, kq, pending, ready, recorded>>
    <2>1. \A q \in Paths : told'[q] <= clock'
      BY <1>0, <1>3 DEF StampsInv, NotTold
    <2>2. ASSUME NEW q \in Paths, pending'[q] # NoEvent
          PROVE  pending'[q].when <= clock' + Debounce /\ \A evt \in ready' : evt.path # q
      BY <1>0, <1>3, <2>2, PendingIsEvent DEF StampsInv
    <2>3. \A evt \in ready' : evt.when <= clock'
      BY <1>0, <1>3 DEF StampsInv, Event
    <2>4. \A i \in 1..Len(recorded') : recorded'[i].when <= clock'
      <3>1. \A i \in 1..Len(recorded) : recorded[i].when \in Nat
        <4>1. \A i \in 1..Len(recorded) : recorded[i] \in Event
          BY <1>0, ElementOfSeq
        <4>2. QED
          BY <4>1 DEF Event
      <3>2. QED
        BY <1>0, <1>3, <3>1 DEF StampsInv
    <2>5. QED
      BY <1>3, <2>1, <2>2, <2>3, <2>4 DEF StampsInv
  <1>4. CASE HandleEvent /\ ready = {}
    <2>1. PICK h \in Paths :
             /\ UNCHANGED <<exists, told, clock, ready, recorded>>
             /\ \A p \in Paths \ {h} : pending'[p] = pending[p]
             /\ h \in Ignored => pending' = pending
             /\ h \notin Ignored => pending'[h].when = clock + Debounce
      BY <1>4, HandledEvent
    <2>2. \A q \in Paths : pending'[q] # NoEvent => pending'[q].when <= clock' + Debounce
      BY <1>0, <2>1 DEF StampsInv
    <2>3. QED
      BY <1>4, <2>1, <2>2 DEF StampsInv
  <1>5. CASE FlushPending /\ ready = {}
    <2>1. \A q \in Paths : pending'[q] # NoEvent =>
             /\ pending'[q].when <= clock' + Debounce
             /\ \A evt \in ready' : evt.path # q
      BY <1>5, FlushedEvents DEF StampsInv
    <2>2. \A evt \in ready' : evt.when <= clock'
      BY <1>0, <1>5, FlushedEvents
    <2>3. QED
      BY <1>5, <2>1, <2>2, FlushedEvents DEF StampsInv
  <1>6. CASE RecordEvent
    <2>1. PICK evt \in ready :
             /\ ready' = ready \ {evt} /\ UNCHANGED <<told, clock, pending>>
             /\ Len(recorded') = Len(recorded) + 1
             /\ \A i \in 1..Len(recorded) : recorded'[i] = recorded[i]
             /\ recorded'[Len(recorded) + 1] = evt
             /\ 1..Len(recorded') = 1..Len(recorded) \cup {Len(recorded) + 1}
      BY <1>6, RecordedEvent
    <2>2. \A i \in 1..Len(recorded') : recorded'[i].when <= clock'
      BY <2>1 DEF StampsInv
    <2>3. QED
      BY <2>1, <2>2 DEF StampsInv
  <1>7. QED
    BY <1>1, <1>2, <1>3, <1>4, <1>5, <1>6, NewsSteps

\* A path that was just reported cannot become due before a whole debounce
\* interval has passed.
LEMMA SpacingStep ==
    ASSUME TypeOK, Shape, StampsInv, SpacingInv, RecordsAreSpaced, [Next]_vars
    PROVE  SpacingInv' /\ RecordsAreSpaced'
  <1>0. /\ clock \in Nat /\ Debounce \in Nat /\ Len(recorded) \in Nat
        /\ \A i \in 1..Len(recorded) : recorded[i] \in Event /\ recorded[i].path \in Paths
                                       /\ recorded[i].when \in Nat
    BY FsWatchAssumption, ElementOfSeq, LenProperties DEF TypeOK, Event
  <1>1. CASE UNCHANGED <<pending, ready, recorded>>
    BY <1>1 DEF SpacingInv, RecordsAreSpaced, Spaced
  <1>2. CASE HandleEvent /\ ready = {}
    <2>1. PICK h \in Paths :
             /\ UNCHANGED <<ready, recorded>>
             /\ \A p \in Paths \ {h} : pending'[p] = pending[p]
             /\ h \in Ignored => pending' = pending
             /\ h \notin Ignored => pending'[h].when = clock + Debounce
      BY <1>2, HandledEvent
    <2>2. \A i \in 1..Len(recorded) : recorded[i].when <= clock
      BY DEF StampsInv
    <2>3. ASSUME NEW i \in 1..Len(recorded), pending'[recorded[i].path] # NoEvent
          PROVE  pending'[recorded[i].path].when >= recorded[i].when + Debounce
      <3>1. CASE recorded[i].path = h
        BY <1>0, <2>1, <2>2, <3>1, <2>3 DEF SpacingInv
      <3>2. CASE recorded[i].path # h
        BY <1>0, <2>1, <3>2, <2>3 DEF SpacingInv
      <3>3. QED
        BY <3>1, <3>2
    <2>4. QED
      BY <1>2, <2>1, <2>3 DEF SpacingInv, RecordsAreSpaced, Spaced
  <1>3. CASE FlushPending /\ ready = {}
    <2>1. ASSUME NEW i \in 1..Len(recorded), NEW evt \in ready', evt.path = recorded[i].path
          PROVE  evt.when >= recorded[i].when + Debounce
      <3>1. evt.path \in Due /\ evt.when = clock
        BY <1>3, FlushedEvents
      <3>2. /\ pending[evt.path].when <= clock
            /\ pending[evt.path].when >= recorded[i].when + Debounce
        BY <2>1, <3>1 DEF Due, SpacingInv
      <3>3. pending[evt.path].when \in Nat
        BY <3>1, PendingIsEvent DEF Due
      <3>4. QED
        BY <1>0, <3>1, <3>2, <3>3
    <2>2. QED
      BY <1>0, <1>3, <2>1, FlushedEvents DEF SpacingInv, RecordsAreSpaced, Spaced
  <1>4. CASE RecordEvent
    <2>1. PICK evt \in ready :
             /\ ready' = ready \ {evt} /\ UNCHANGED pending
             /\ Len(recorded') = Len(recorded) + 1
             /\ \A i \in 1..Len(recorded) : recorded'[i] = recorded[i]
             /\ recorded'[Len(recorded) + 1] = evt
             /\ 1..Len(recorded') = 1..Len(recorded) \cup {Len(recorded) + 1}
      BY <1>4, RecordedEvent
    <2>2. evt.path \in Paths
      BY DEF TypeOK, Event
    <2>3. SpacingInv'
      <3>1. ASSUME NEW i \in 1..Len(recorded)
            PROVE  LET p == recorded'[i].path
                   IN  /\ pending'[p] # NoEvent =>
                             pending'[p].when >= recorded'[i].when + Debounce
                       /\ \A e \in ready' :
                             e.path = p => e.when >= recorded'[i].when + Debounce
        BY <2>1 DEF SpacingInv
      <3>2. pending'[evt.path] = NoEvent /\ \A e \in ready' : e.path # evt.path
        BY <2>1, <2>2 DEF StampsInv
      <3>3. QED
        BY <2>1, <3>1, <3>2 DEF SpacingInv
    <2>4. RecordsAreSpaced'
      <3>1. ASSUME NEW i \in 1..Len(recorded'), NEW j \in 1..Len(recorded'), i < j,
                   recorded'[i].path = recorded'[j].path
            PROVE  recorded'[j].when >= recorded'[i].when + Debounce
        <4>1. i \in 1..Len(recorded)
          BY <1>0, <2>1, <3>1
        <4>2. CASE j \in 1..Len(recorded)
          BY <2>1, <3>1, <4>1, <4>2 DEF RecordsAreSpaced, Spaced
        <4>3. CASE j = Len(recorded) + 1
          BY <2>1, <3>1, <4>1, <4>3 DEF SpacingInv
        <4>4. QED
          BY <2>1, <4>2, <4>3
      <3>2. QED
        BY <3>1 DEF RecordsAreSpaced, Spaced
    <2>5. QED
      BY <2>3, <2>4
  <1>5. QED
    BY <1>1, <1>2, <1>3, <1>4, NewsSteps DEF newsVars, FileStep

\* The latest event recorded for a path, when one more is recorded.
LEMMA LatestAfterRecord ==
    ASSUME TypeOK, RecordEvent
    PROVE  \E evt \in ready, k \in Nat :
             /\ evt \in Event /\ ready' = ready \ {evt}
             /\ UNCHANGED <<exists, told, clock, kq, pending>>
             /\ \A i : LatestFor(evt.path, i)' => i = k
             /\ LatestFor(evt.path, k)'
             /\ recorded'[k] = evt
             /\ \A p, i : p # evt.path /\ LatestFor(p, i) =>
                             LatestFor(p, i)' /\ recorded'[i] = recorded[i]
             /\ \A p, i : p # evt.path /\ LatestFor(p, i)' =>
                             LatestFor(p, i) /\ recorded'[i] = recorded[i]
  <1>1. PICK evt \in ready :
             /\ evt \in Event /\ ready' = ready \ {evt}
             /\ UNCHANGED <<exists, told, clock, kq, pending>>
             /\ Len(recorded') = Len(recorded) + 1
             /\ \A i \in 1..Len(recorded) : recorded'[i] = recorded[i]
             /\ recorded'[Len(recorded) + 1] = evt
             /\ 1..Len(recorded') = 1..Len(recorded) \cup {Len(recorded) + 1}
    BY RecordedEvent
  <1> DEFINE n == Len(recorded)
  <1>2. n \in Nat /\ Len(recorded') = n + 1
    BY <1>1, LenProperties DEF TypeOK
  <1>3. /\ \A i \in 1..n : recorded'[i] = recorded[i]
        /\ recorded'[n + 1] = evt
    BY <1>1
  <1> HIDE DEF n
  <1>4. ASSUME NEW p, NEW i
        PROVE  LatestFor(p, i)' <=> /\ i \in 1..(n + 1) /\ recorded'[i].path = p
                                    /\ \A j \in i+1..(n + 1) : recorded'[j].path # p
    BY <1>2 DEF LatestFor
  <1>5. ASSUME NEW p, NEW i
        PROVE  LatestFor(p, i) <=> /\ i \in 1..n /\ recorded[i].path = p
                                   /\ \A j \in i+1..n : recorded[j].path # p
    BY DEF LatestFor, n
  <1>6. PICK k \in Nat : k = n + 1
    BY <1>2
  <1>7. LatestFor(evt.path, k)' /\ \A i : LatestFor(evt.path, i)' => i = k
    <2>1. k \in 1..(n + 1) /\ \A j \in k+1..(n + 1) : FALSE
      BY <1>2, <1>6
    <2>2. recorded'[k].path = evt.path
      BY <1>3, <1>6
    <2>3. LatestFor(evt.path, k)'
      BY <2>1, <2>2, <1>4
    <2>4. ASSUME NEW i, LatestFor(evt.path, i)'
          PROVE  i = k
      <3>1. i \in 1..(n + 1) /\ \A j \in i+1..(n + 1) : recorded'[j].path # evt.path
        BY <1>4, <2>4
      <3>2. ~(k \in i+1..(n + 1))
        BY <3>1, <2>2
      <3>3. QED
        BY <1>2, <1>6, <3>1, <3>2
    <2>5. QED
      BY <2>3, <2>4
  <1>8. ASSUME NEW p, NEW i, p # evt.path
        PROVE  /\ LatestFor(p, i)' <=> LatestFor(p, i)
               /\ LatestFor(p, i) => recorded'[i] = recorded[i]
    <2>1. ASSUME LatestFor(p, i)
          PROVE  LatestFor(p, i)' /\ recorded'[i] = recorded[i]
      <3>1. i \in 1..n /\ recorded[i].path = p /\ \A j \in i+1..n : recorded[j].path # p
        BY <2>1, <1>5
      <3>2. \A j \in i+1..(n + 1) : recorded'[j].path # p
        BY <3>1, <1>2, <1>3, <1>8
      <3>3. i \in 1..(n + 1) /\ recorded'[i].path = p /\ recorded'[i] = recorded[i]
        BY <3>1, <1>2, <1>3
      <3>4. QED
        BY <3>2, <3>3, <1>4
    <2>2. ASSUME LatestFor(p, i)'
          PROVE  LatestFor(p, i)
      <3>1. /\ i \in 1..(n + 1) /\ recorded'[i].path = p
            /\ \A j \in i+1..(n + 1) : recorded'[j].path # p
        BY <2>2, <1>4
      <3>2. i # n + 1
        BY <3>1, <1>3, <1>8
      <3>3. i \in 1..n
        BY <3>1, <3>2, <1>2
      <3>4. \A j \in i+1..n : j \in 1..n /\ j \in i+1..(n + 1)
        BY <3>3, <1>2
      <3>5. recorded[i].path = p /\ \A j \in i+1..n : recorded[j].path # p
        BY <3>1, <3>3, <3>4, <1>3
      <3>6. QED
        BY <3>3, <3>5, <1>5
    <2>3. QED
      BY <2>1, <2>2
  <1>9. recorded'[k] = evt
    BY <1>3, <1>6
  <1>10. QED
    BY <1>1, <1>7, <1>8, <1>9

\* What ChangeInv says of one path.
ChangeTracked(p) ==
    \/ \E i \in 1..Len(kq) : kq[i].path = p
    \/ pending[p] # NoEvent /\ pending[p].when >= told[p] + Debounce
    \/ \E evt \in ready : evt.path = p /\ evt.when >= told[p] + Debounce
    \/ \E i \in 1..Len(recorded) :
          LatestFor(p, i) /\ recorded[i].when >= told[p] + Debounce

\* The latest change of a path moves from queue to pending to ready to
\* recorded, and its stamp keeps the debounce interval.
LEMMA ChangeStep ==
    ASSUME TypeOK, Shape, StampsInv, SpacingInv, ChangeInv, [Next]_vars
    PROVE  ChangeInv'
  <1> SUFFICES ASSUME NEW p \in Paths \ Ignored, told'[p] # NotTold
               PROVE  ChangeTracked(p)'
    BY DEF ChangeInv, ChangeTracked
  <1>0. /\ clock \in Nat /\ Debounce \in Nat /\ kq \in Seq(Raw)
        /\ told \in [Paths -> Nat \cup {NotTold}] /\ told[p] <= clock
        /\ \A evt \in ready : evt.when \in Nat
        /\ \A i \in 1..Len(recorded) : recorded[i].when \in Nat
    BY FsWatchAssumption, ElementOfSeq DEF TypeOK, StampsInv, Event
  <1>a. told[p] # NotTold => ChangeTracked(p)
    BY DEF ChangeInv, ChangeTracked
  <1>1. CASE UNCHANGED <<told, kq, pending, ready, recorded>>
    BY <1>1, <1>a DEF ChangeTracked, LatestFor
  <1>2. ASSUME NEW q \in Paths, NEW bits \in (SUBSET RawOp) \ {{}}, NEW queued \in BOOLEAN,
               FileStep(q, bits, queued)
        PROVE  ChangeTracked(p)'
    <2> DEFINE raw == [path |-> q, bits |-> bits]
    <2>1. raw \in Raw
      BY DEF Raw
    <2>2. CASE p = q
      <3>1. queued
        BY <1>0, <1>2, <2>2 DEF FileStep
      <3>2. kq' = Append(kq, raw)
        BY <1>2, <3>1 DEF FileStep
      <3>3. Len(kq) + 1 \in 1..Len(kq') /\ kq'[Len(kq) + 1] = raw
        BY <1>0, <2>1, <3>2
      <3>4. QED
        BY <2>2, <3>3 DEF ChangeTracked
    <2>3. CASE p # q
      <3>1. told'[p] = told[p] /\ UNCHANGED <<pending, ready, recorded>>
        BY <1>0, <1>2, <2>3 DEF FileStep
      <3>2. \A i \in 1..Len(kq) : i \in 1..Len(kq') /\ kq'[i] = kq[i]
        <4>1. kq' = kq \/ kq' = Append(kq, raw)
          BY <1>2 DEF FileStep
        <4>2. QED
          BY <1>0, <2>1, <4>1, AppendAt
      <3>3. QED
        BY <1>a, <3>1, <3>2 DEF ChangeTracked, LatestFor
    <2>4. QED
      BY <2>2, <2>3
  <1>3. CASE HandleEvent /\ ready = {}
    <2>1. PICK h \in Paths :
             /\ h = Head(kq).path /\ kq # <<>> /\ kq' = Tail(kq)
             /\ UNCHANGED <<told, ready, recorded>>
             /\ \A r \in Paths \ {h} : pending'[r] = pending[r]
             /\ h \notin Ignored => /\ pending'[h] # NoEvent
                                    /\ pending'[h].when = clock + Debounce
      BY <1>3, HandledEvent
    <2>2. CASE p = h
      <3>1. pending'[p] # NoEvent /\ pending'[p].when >= told'[p] + Debounce
        BY <1>0, <2>1, <2>2 DEF NotTold
      <3>2. QED
        BY <3>1 DEF ChangeTracked
    <2>3. CASE p # h
      <3>1. pending'[p] = pending[p]
        BY <2>1, <2>3
      <3>2. (\E i \in 1..Len(kq) : kq[i].path = p) => \E i \in 1..Len(kq') : kq'[i].path = p
        <4>1. ASSUME NEW i \in 1..Len(kq), kq[i].path = p
              PROVE  \E j \in 1..Len(kq') : kq'[j].path = p
          <5>1. i # 1
            BY <1>0, <2>1, <2>3, <4>1, TailAt
          <5>2. i \in 2..Len(kq)
            BY <1>0, <5>1
          <5>3. i - 1 \in 1..Len(kq') /\ kq'[i - 1] = kq[i]
            BY <1>0, <2>1, <5>2, TailAt
          <5>4. QED
            BY <4>1, <5>3
        <4>2. QED
          BY <4>1
      <3>3. QED
        BY <1>a, <2>1, <3>1, <3>2 DEF ChangeTracked, LatestFor
    <2>4. QED
      BY <2>2, <2>3
  <1>4. CASE FlushPending /\ ready = {}
    <2>1. CASE p \in Due /\ pending[p].when >= told[p] + Debounce
      <3>1. PICK e \in ready' : e.path = p
        BY <1>4, <2>1, FlushedEvents
      <3>2. e.when = clock /\ told' = told
        BY <1>4, FlushedEvents
      <3>3. pending[p].when <= clock /\ pending[p].when \in Nat
        BY <2>1, PendingIsEvent DEF Due
      <3>4. told[p] \in Int
        BY <1>0 DEF NotTold
      <3>5. e.when >= told'[p] + Debounce
        BY <1>0, <2>1, <3>2, <3>3, <3>4
      <3>6. QED
        BY <3>1, <3>5 DEF ChangeTracked
    <2>2. CASE ~(p \in Due /\ pending[p].when >= told[p] + Debounce)
      <3>1. UNCHANGED <<told, kq, recorded>>
        BY <1>4, FlushedEvents
      <3>2. p \notin Due => pending'[p] = pending[p]
        BY <1>4, FlushedEvents
      <3>3. QED
        BY <1>a, <1>4, <2>2, <3>1, <3>2 DEF ChangeTracked, LatestFor
    <2>3. QED
      BY <2>1, <2>2
  <1>5. CASE RecordEvent
    <2>1. PICK evt \in ready, k \in Nat :
             /\ evt \in Event /\ ready' = ready \ {evt}
             /\ UNCHANGED <<told, kq, pending>>
             /\ LatestFor(evt.path, k)'
             /\ recorded'[k] = evt
             /\ \A q, i : q # evt.path /\ LatestFor(q, i) =>
                             LatestFor(q, i)' /\ recorded'[i] = recorded[i]
      BY <1>5, LatestAfterRecord
    <2>2. CASE p # evt.path
      <3>1. \A i : LatestFor(p, i) => LatestFor(p, i)' /\ recorded'[i] = recorded[i]
        BY <2>1, <2>2
      <3>2. \A i : LatestFor(p, i)' => i \in 1..Len(recorded')
        BY DEF LatestFor
      <3>3. QED
        BY <1>a, <2>1, <2>2, <3>1, <3>2 DEF ChangeTracked
    <2>3. CASE p = evt.path
      <3>1. pending[p] = NoEvent
        BY <2>3 DEF StampsInv
      <3>2. CASE \E i \in 1..Len(kq) : kq[i].path = p
        BY <2>1, <3>2 DEF ChangeTracked
      <3>3. CASE evt.when >= told[p] + Debounce
        <4>1. k \in 1..Len(recorded')
          BY <2>1 DEF LatestFor
        <4>2. LatestFor(p, k)'
          BY <2>1, <2>3
        <4>3. recorded'[k].when >= told'[p] + Debounce
          BY <2>1, <3>3
        <4>4. QED
          BY <4>1, <4>2, <4>3 DEF ChangeTracked
      <3>4. ASSUME ~(\E i \in 1..Len(kq) : kq[i].path = p)
            PROVE  evt.when >= told[p] + Debounce
        <4>1. CASE \E e \in ready : e.path = p /\ e.when >= told[p] + Debounce
          BY <2>3, <4>1 DEF StampsInv
        <4>2. ASSUME NEW i \in 1..Len(recorded), LatestFor(p, i),
                     recorded[i].when >= told[p] + Debounce
              PROVE  evt.when >= told[p] + Debounce
          <5>1. evt.when >= recorded[i].when + Debounce
            BY <2>3, <4>2 DEF SpacingInv, LatestFor
          <5>2. told[p] \in Int /\ recorded[i].when \in Nat /\ evt.when \in Nat
            BY <1>0 DEF NotTold
          <5>3. QED
            BY <1>0, <4>2, <5>1, <5>2
        <4>3. QED
          BY <1>a, <2>1, <3>1, <3>4, <4>1, <4>2 DEF ChangeTracked
      <3>5. QED
        BY <3>2, <3>3, <3>4
    <2>4. QED
      BY <2>2, <2>3
  <1>6. QED
    BY <1>1, <1>2, <1>3, <1>4, <1>5, NewsSteps DEF newsVars

\* What GoneInv says of one path.
LastQueued(p, i) ==
    /\ i \in 1..Len(kq) /\ kq[i].path = p
    /\ \A j \in i+1..Len(kq) : kq[j].path # p

SaysGone(p) ==
    /\ \A i : LastQueued(p, i) => normalizeOp(kq[i].bits) \in Removal
    /\ (\A i \in 1..Len(kq) : kq[i].path # p) =>
          /\ pending[p] # NoEvent => pending[p].op \in Removal
          /\ \A evt \in ready : evt.path = p => evt.op \in Removal
          /\ pending[p] = NoEvent /\ (\A evt \in ready : evt.path # p) =>
                \A i : LatestFor(p, i) => recorded[i].op \in Removal

\* GoneInv, said once per place the newest news can be in.
LEMMA GoneMeans ==
    GoneInv <=> \A p \in Paths \ exists : told[p] # NotTold => SaysGone(p)
  BY DEF GoneInv, SaysGone, LastQueued, LatestFor

\* Every step keeps the newest news of a file that is gone a removal.
LEMMA GoneStep ==
    ASSUME TypeOK, Shape, StampsInv, GoneInv, [Next]_vars
    PROVE  GoneInv'
  <1> SUFFICES ASSUME NEW p \in Paths \ exists', told'[p] # NotTold
               PROVE  SaysGone(p)'
    BY DEF GoneInv, SaysGone, LastQueued, LatestFor
  <1>0. kq \in Seq(Raw) /\ told \in [Paths -> Nat \cup {NotTold}]
    BY DEF TypeOK
  <1>a. p \notin exists /\ told[p] # NotTold => SaysGone(p)
    BY GoneMeans
  <1>1. CASE UNCHANGED <<exists, told, kq, pending, ready, recorded>>
    BY <1>1, <1>a DEF SaysGone, LastQueued, LatestFor
  <1>2. ASSUME NEW q \in Paths, NEW bits \in (SUBSET RawOp) \ {{}}, NEW queued \in BOOLEAN,
               FileStep(q, bits, queued)
        PROVE  SaysGone(p)'
    <2> DEFINE raw == [path |-> q, bits |-> bits]
    <2>1. raw \in Raw
      BY DEF Raw
    <2>2. CASE p = q
      <3>1. queued /\ bits \in {{"remove"}, {"rename"}}
        BY <1>0, <1>2, <2>2 DEF FileStep
      <3>2. kq' = Append(kq, raw)
        BY <1>2, <3>1 DEF FileStep
      <3>3. normalizeOp(bits) \in Removal
        BY <3>1 DEF normalizeOp, Removal
      <3>4. PICK k \in Nat : k = Len(kq) + 1
        BY <1>0
      <3>5. k \in 1..Len(kq') /\ Len(kq') = k /\ kq'[k].path = p /\ kq'[k].bits = bits
        BY <1>0, <2>1, <2>2, <3>2, <3>4
      <3>6. ASSUME NEW i, LastQueued(p, i)'
            PROVE  i = k
        <4>1. i \in 1..Len(kq') /\ \A j \in i+1..Len(kq') : kq'[j].path # p
          BY <3>6 DEF LastQueued
        <4>2. ~(k \in i+1..k)
          BY <3>5, <4>1
        <4>3. QED
          BY <3>4, <3>5, <4>1, <4>2
      <3>7. QED
        BY <3>3, <3>5, <3>6 DEF SaysGone
    <2>3. CASE p # q
      <3>1. p \notin exists /\ told[p] = told'[p] /\ UNCHANGED <<pending, ready, recorded>>
        BY <1>0, <1>2, <2>3 DEF FileStep
      <3>2. kq' = kq \/ kq' = Append(kq, raw)
        BY <1>2 DEF FileStep
      <3>3. /\ Len(kq) \in Nat
            /\ Len(kq') = Len(kq) \/ (Len(kq') = Len(kq) + 1 /\ kq'[Len(kq) + 1].path # p)
            /\ \A i \in 1..Len(kq) : kq'[i] = kq[i]
        BY <1>0, <2>1, <2>3, <3>2, AppendAt, LenProperties
      <3>4. ASSUME NEW i, LastQueued(p, i)'
            PROVE  LastQueued(p, i) /\ kq'[i] = kq[i]
        <4>1. /\ i \in 1..Len(kq') /\ kq'[i].path = p
              /\ \A j \in i+1..Len(kq') : kq'[j].path # p
          BY <3>4 DEF LastQueued
        <4>2. i \in 1..Len(kq)
          BY <3>3, <4>1
        <4>3. \A j \in i+1..Len(kq) : j \in 1..Len(kq) /\ j \in i+1..Len(kq')
          BY <3>3, <4>2
        <4>4. QED
          BY <3>3, <4>1, <4>2, <4>3 DEF LastQueued
      <3>5. (\A i \in 1..Len(kq') : kq'[i].path # p) => \A i \in 1..Len(kq) : kq[i].path # p
        <4>1. \A i \in 1..Len(kq) : i \in 1..Len(kq')
          BY <3>3
        <4>2. QED
          BY <3>3, <4>1
      <3>6. QED
        BY <1>a, <3>1, <3>4, <3>5 DEF SaysGone, LatestFor
    <2>4. QED
      BY <2>2, <2>3
  <1>3. CASE HandleEvent /\ ready = {}
    <2>1. PICK h \in Paths :
             /\ h = Head(kq).path /\ kq # <<>> /\ kq' = Tail(kq)
             /\ UNCHANGED <<exists, told, ready, recorded>>
             /\ \A r \in Paths \ {h} : pending'[r] = pending[r]
             /\ h \in Ignored => pending' = pending
             /\ h \notin Ignored =>
                  /\ pending'[h] # NoEvent
                  /\ normalizeOp(Head(kq).bits) \in Removal => pending'[h].op \in Removal
      BY <1>3, HandledEvent
    <2>2. SaysGone(p)
      BY <1>a, <2>1
    <2>3. /\ Len(kq) \in Nat /\ Len(kq') = Len(kq) - 1
          /\ \A i \in 1..Len(kq') : i + 1 \in 1..Len(kq) /\ kq'[i] = kq[i + 1]
          /\ \A i \in 2..Len(kq) : i - 1 \in 1..Len(kq') /\ kq'[i - 1] = kq[i]
          /\ kq[1].path = h /\ kq[1] = Head(kq) /\ 1 \in 1..Len(kq)
      BY <1>0, <2>1, TailAt, LenProperties
    <2>4. ASSUME NEW i, LastQueued(p, i)'
          PROVE  LastQueued(p, i + 1) /\ kq'[i] = kq[i + 1]
      <3>1. i \in 1..Len(kq') /\ kq'[i].path = p /\ \A j \in i+1..Len(kq') : kq'[j].path # p
        BY <2>4 DEF LastQueued
      <3>2. i + 1 \in 1..Len(kq) /\ kq'[i] = kq[i + 1]
        BY <2>3, <3>1
      <3>3. ASSUME NEW j \in (i+1)+1..Len(kq)
            PROVE  kq[j].path # p
        <4>1. j \in 2..Len(kq) /\ j - 1 \in i+1..Len(kq')
          BY <2>3, <3>1
        <4>2. QED
          BY <2>3, <3>1, <4>1
      <3>4. QED
        BY <3>1, <3>2, <3>3 DEF LastQueued
    <2>5. ASSUME \A i \in 1..Len(kq') : kq'[i].path # p
          PROVE  \A i \in 1..Len(kq) : i # 1 => kq[i].path # p
      <3>1. \A i \in 1..Len(kq) : i # 1 => i \in 2..Len(kq)
        BY <2>3
      <3>2. QED
        BY <2>3, <2>5, <3>1
    <2>6. CASE p = h
      <3>1. ASSUME \A i \in 1..Len(kq') : kq'[i].path # p
            PROVE  p \notin Ignored => pending'[p] # NoEvent /\ pending'[p].op \in Removal
        <4>1. \A j \in 1+1..Len(kq) : j \in 1..Len(kq) /\ j # 1
          BY <2>3
        <4>2. LastQueued(p, 1)
          BY <2>3, <2>5, <2>6, <3>1, <4>1 DEF LastQueued
        <4>3. normalizeOp(Head(kq).bits) \in Removal
          BY <2>2, <2>3, <4>2 DEF SaysGone
        <4>4. QED
          BY <2>1, <2>6, <4>3
      <3>2. ASSUME p \in Ignored
            PROVE  pending'[p] = NoEvent /\ \A i : ~LatestFor(p, i)'
        <4>1. \A e \in Event : e.path # p
          BY <3>2 DEF Event
        <4>2. pending[p] = NoEvent
          BY <4>1, PendingIsEvent
        <4>3. \A i \in 1..Len(recorded) : recorded[i].path # p
          BY <4>1, ElementOfSeq DEF TypeOK
        <4>4. QED
          BY <2>1, <2>6, <3>2, <4>2, <4>3 DEF LatestFor
      <3>3. \A i : LastQueued(p, i)' => normalizeOp(kq'[i].bits) \in Removal
        BY <2>2, <2>4 DEF SaysGone
      <3>4. ready' = {}
        BY <1>3, <2>1
      <3>5. QED
        BY <3>1, <3>2, <3>3, <3>4 DEF SaysGone
    <2>7. CASE p # h
      <3>1. \A i : LastQueued(p, i)' => normalizeOp(kq'[i].bits) \in Removal
        BY <2>2, <2>4 DEF SaysGone
      <3>2. (\A i \in 1..Len(kq') : kq'[i].path # p) => \A i \in 1..Len(kq) : kq[i].path # p
        BY <2>3, <2>5, <2>7
      <3>3. pending'[p] = pending[p] /\ UNCHANGED <<ready, recorded>>
        BY <2>1, <2>7
      <3>4. QED
        BY <2>2, <3>1, <3>2, <3>3 DEF SaysGone, LatestFor
    <2>8. QED
      BY <2>6, <2>7
  <1>4. CASE FlushPending /\ ready = {}
    <2>1. UNCHANGED <<exists, told, kq, recorded>>
      BY <1>4, FlushedEvents
    <2>2. SaysGone(p)
      BY <1>a, <2>1
    <2>3. CASE p \in Due
      <3>1. /\ pending'[p] = NoEvent /\ \E e \in ready' : e.path = p
            /\ \A e \in ready' : e.path = p => e.op = pending[p].op
        BY <1>4, <2>3, FlushedEvents
      <3>2. pending[p] # NoEvent
        BY <2>3 DEF Due
      <3>3. QED
        BY <2>1, <2>2, <3>1, <3>2 DEF SaysGone, LastQueued
    <2>4. CASE p \notin Due
      <3>1. pending'[p] = pending[p] /\ \A e \in ready' : e.path # p
        BY <1>4, <2>4, FlushedEvents
      <3>2. QED
        BY <1>4, <2>1, <2>2, <3>1 DEF SaysGone, LastQueued, LatestFor
    <2>5. QED
      BY <2>3, <2>4
  <1>5. CASE RecordEvent
    <2>1. PICK evt \in ready, k \in Nat :
             /\ evt \in Event /\ ready' = ready \ {evt}
             /\ UNCHANGED <<exists, told, kq, pending>>
             /\ \A i : LatestFor(evt.path, i)' => i = k
             /\ recorded'[k] = evt
             /\ \A q, i : q # evt.path /\ LatestFor(q, i)' =>
                             LatestFor(q, i) /\ recorded'[i] = recorded[i]
      BY <1>5, LatestAfterRecord
    <2>2. SaysGone(p)
      BY <1>a, <2>1
    <2>3. CASE p = evt.path
      BY <2>1, <2>2, <2>3 DEF SaysGone, LastQueued
    <2>4. CASE p # evt.path
      <3>1. (\A e \in ready' : e.path # p) => \A e \in ready : e.path # p
        BY <2>1, <2>4
      <3>2. \A i : LatestFor(p, i)' => LatestFor(p, i) /\ recorded'[i] = recorded[i]
        BY <2>1, <2>4
      <3>3. QED
        BY <2>1, <2>2, <3>1, <3>2 DEF SaysGone, LastQueued
    <2>5. QED
      BY <2>3, <2>4
  <1>6. QED
    BY <1>1, <1>2, <1>3, <1>4, <1>5, NewsSteps DEF newsVars

\* The inductive invariant behind the theorems on reports.
LEMMA NewsInvariant ==
    Spec => [](TypeOK /\ Shape /\ StampsInv /\ SpacingInv /\ RecordsAreSpaced
               /\ ChangeInv /\ GoneInv)
  <1>1. ASSUME Init
        PROVE  /\ Shape /\ StampsInv /\ SpacingInv /\ RecordsAreSpaced
               /\ ChangeInv /\ GoneInv
    <2>1. /\ ready = {} /\ recorded = <<>> /\ sending = <<>> /\ hand = <<>> /\ clock = 0
          /\ wpc = "new" /\ \A p \in Paths : told[p] = NotTold /\ pending[p] = NoEvent
      BY <1>1 DEF Init, WatchInit, E!EngineInit
    <2>2. \A i \in 1..Len(recorded) : FALSE
      BY <2>1
    <2>3. StampsInv
      BY <2>1, <2>2 DEF StampsInv, NotTold
    <2>4. QED
      BY <2>1, <2>2, <2>3
         DEF Shape, SpacingInv, RecordsAreSpaced, Spaced, ChangeInv, GoneInv
  <1>2. TypeOK /\ Shape /\ StampsInv /\ SpacingInv /\ RecordsAreSpaced /\ ChangeInv /\ GoneInv
        /\ [Next]_vars
        => (Shape /\ StampsInv /\ SpacingInv /\ RecordsAreSpaced /\ ChangeInv /\ GoneInv)'
    BY ShapeStep, StampsStep, SpacingStep, ChangeStep, GoneStep
  <1>3. QED
    BY <1>1, <1>2, TypeCorrect, PTL DEF Spec

\* No announced change is forgotten: once the watcher holds nothing of a path,
\* its latest report is stamped a debounce interval after its latest change.
THEOREM NoChangeForgotten == Spec => []LatestChangeReported
  <1>1. ChangeInv => LatestChangeReported
    BY DEF ChangeInv, LatestChangeReported, Settled
  <1>2. QED
    BY <1>1, NewsInvariant, PTL

\* A file that is gone is reported gone, whatever was merged on the way.
THEOREM RemovalsReported == Spec => []RemovalReported
  <1>1. GoneInv => RemovalReported
    BY GoneMeans DEF RemovalReported, Settled, SaysGone
  <1>2. QED
    BY <1>1, NewsInvariant, PTL

-----------------------------------------------------------------------------
(* What reaches the engine.                                                  *)

\* A set of numbers that is not empty has a least element.
LEMMA LeastNatural ==
    ASSUME NEW S \in SUBSET Nat, S # {}
    PROVE  \E m \in S : \A n \in S : m <= n
  <1>1. PICK x \in S : \A y \in S : ~ (<<y, x>> \in OpToRel(<, Nat))
    BY NatLessThanWellFounded, WFMin
  <1>2. \A y \in S : <<y, x>> \in OpToRel(<, Nat) <=> y < x
    BY DEF OpToRel
  <1>3. \A y \in S : y \in Nat /\ ~(y < x)
    BY <1>1, <1>2
  <1>4. QED
    BY <1>3

\* An increasing numbering never falls behind.
LEMMA Increasing ==
    ASSUME NEW n \in Nat, NEW at \in [1..n -> Nat \ {0}],
           \A i, j \in 1..n : i < j => at[i] < at[j]
    PROVE  \A i \in 1..n : at[i] >= i
  <1> DEFINE behind == {i \in 1..n : at[i] < i}
  <1> SUFFICES ASSUME behind # {} PROVE FALSE
    OBVIOUS
  <1>1. behind \in SUBSET Nat
    OBVIOUS
  <1>2. PICK m \in behind : \A i \in behind : m <= i
    BY <1>1, LeastNatural
  <1>3. m \in 1..n /\ at[m] < m /\ at[m] \in Nat \ {0}
    OBVIOUS
  <1>4. m - 1 \in 1..n /\ m - 1 < m
    BY <1>3
  <1>5. at[m - 1] < at[m] /\ at[m - 1] \in Nat
    BY <1>3, <1>4
  <1>6. m - 1 \in behind
    BY <1>3, <1>4, <1>5
  <1>7. QED
    BY <1>2, <1>3, <1>6

\* An increasing numbering of 1..n by 1..n is the identity.
LEMMA IncreasingOnto ==
    ASSUME NEW n \in Nat, NEW at \in [1..n -> 1..n],
           \A i, j \in 1..n : i < j => at[i] < at[j]
    PROVE  \A i \in 1..n : at[i] = i
  <1> DEFINE back == [i \in 1..n |-> n + 1 - at[n + 1 - i]]
  <1>1. \A i \in 1..n : n + 1 - i \in 1..n
    OBVIOUS
  <1>2. \A i \in 1..n : back[i] = n + 1 - at[n + 1 - i] /\ at[n + 1 - i] \in 1..n
    BY <1>1
  <1>3. \A i \in 1..n : back[i] \in Nat \ {0}
    BY <1>2
  <1>4. back \in [1..n -> Nat \ {0}]
    BY <1>3
  <1>5. \A i, j \in 1..n : i < j => back[i] < back[j]
    <2>1. TAKE i, j \in 1..n
    <2>2. HAVE i < j
    <2>3. n + 1 - j < n + 1 - i
      BY <2>2
    <2>4. at[n + 1 - j] < at[n + 1 - i]
      BY <1>1, <2>3
    <2>5. QED
      BY <1>2, <2>4
  <1> HIDE DEF back
  <1>6. \A i \in 1..n : back[i] >= i
    BY <1>4, <1>5, Increasing
  <1>7. \A i \in 1..n : at[i] >= i
    <2>1. at \in [1..n -> Nat \ {0}]
      OBVIOUS
    <2>2. QED
      BY <2>1, Increasing
  <1>8. ASSUME NEW i \in 1..n
        PROVE  at[i] = i
    <2>1. n + 1 - (n + 1 - i) = i
      OBVIOUS
    <2>2. back[n + 1 - i] = n + 1 - at[i] /\ at[i] \in 1..n
      BY <1>1, <1>2, <2>1
    <2>3. back[n + 1 - i] >= n + 1 - i
      BY <1>1, <1>6
    <2>4. QED
      BY <1>7, <2>2, <2>3
  <1>9. QED
    BY <1>8

\* A part as long as the whole is the whole.
LEMMA WholePart ==
    ASSUME NEW S, NEW s \in Seq(S), NEW t \in Seq(S), Fifo!IsPartOf(s, t), Len(s) = Len(t)
    PROVE  s = t
  <1>1. PICK at \in [1..Len(s) -> 1..Len(t)] :
           /\ \A i, j \in 1..Len(s) : i < j => at[i] < at[j]
           /\ \A i \in 1..Len(s) : s[i] = t[at[i]]
    BY DEF Fifo!IsPartOf
  <1>2. Len(s) \in Nat /\ at \in [1..Len(s) -> 1..Len(s)]
    OBVIOUS
  <1>3. \A i \in 1..Len(s) : at[i] = i
    BY <1>1, <1>2, IncreasingOnto
  <1>4. QED
    BY <1>1, <1>3, SeqEqual

\* A part of the old sequence and its new element are a part of the new one.
LEMMA PartGrows ==
    ASSUME NEW S, NEW s \in Seq(S), NEW t \in Seq(S), NEW m \in S, Fifo!IsPartOf(s, t)
    PROVE  Fifo!IsPartOf(Append(s, m), Append(t, m))
  <1>1. PICK at \in [1..Len(s) -> 1..Len(t)] :
           /\ \A i, j \in 1..Len(s) : i < j => at[i] < at[j]
           /\ \A i \in 1..Len(s) : s[i] = t[at[i]]
    BY DEF Fifo!IsPartOf
  <1> DEFINE u == Append(s, m)
             v == Append(t, m)
             then == [i \in 1..Len(u) |-> IF i <= Len(s) THEN at[i] ELSE Len(v)]
  <1>2. /\ Len(u) = Len(s) + 1 /\ Len(v) = Len(t) + 1 /\ Len(s) \in Nat /\ Len(t) \in Nat
        /\ \A i \in 1..Len(s) : u[i] = s[i] /\ at[i] \in 1..Len(t)
        /\ \A i \in 1..Len(t) : v[i] = t[i]
        /\ u[Len(u)] = m /\ v[Len(v)] = m
    OBVIOUS
  <1> HIDE DEF u, v
  <1>3. \A i \in 1..Len(u) : i \in 1..Len(s) \/ i = Len(u)
    BY <1>2
  <1>4. \A i \in 1..Len(s) : then[i] = at[i] /\ then[i] \in 1..Len(v) /\ then[i] < Len(v)
    BY <1>2
  <1>5. then[Len(u)] = Len(v)
    BY <1>2
  <1> HIDE DEF then
  <1>6. then \in [1..Len(u) -> 1..Len(v)]
    BY <1>2, <1>3, <1>4, <1>5 DEF then
  <1>7. \A i, j \in 1..Len(u) : i < j => then[i] < then[j]
    BY <1>1, <1>2, <1>3, <1>4, <1>5
  <1>8. \A i \in 1..Len(u) : u[i] = v[then[i]]
    BY <1>1, <1>2, <1>3, <1>4, <1>5
  <1>9. Fifo!IsPartOf(u, v)
    BY <1>6, <1>7, <1>8 DEF Fifo!IsPartOf
  <1>10. QED
    BY <1>9 DEF u, v

\* rest is seq without its element k.
Without(seq, k, rest) ==
    /\ Len(rest) = Len(seq) - 1
    /\ \A i \in 1..Len(seq)-1 : rest[i] = IF i < k THEN seq[i] ELSE seq[i + 1]

\* A part that loses an element is still a part.
LEMMA PartLoses ==
    ASSUME NEW S, NEW s \in Seq(S), NEW t \in Seq(S), NEW k \in 1..Len(s), NEW r \in Seq(S),
           Without(s, k, r), Fifo!IsPartOf(s, t)
    PROVE  Fifo!IsPartOf(r, t)
  <1>1. PICK at \in [1..Len(s) -> 1..Len(t)] :
           /\ \A i, j \in 1..Len(s) : i < j => at[i] < at[j]
           /\ \A i \in 1..Len(s) : s[i] = t[at[i]]
    BY DEF Fifo!IsPartOf
  <1> DEFINE old(i) == IF i < k THEN i ELSE i + 1
             then == [i \in 1..Len(r) |-> at[old(i)]]
  <1>2. \A i \in 1..Len(r) : old(i) \in 1..Len(s) /\ r[i] = s[old(i)]
    BY DEF Without
  <1>3. \A i, j \in 1..Len(r) : i < j => old(i) < old(j)
    OBVIOUS
  <1> HIDE DEF old
  <1>4. then \in [1..Len(r) -> 1..Len(t)]
    BY <1>2
  <1>5. \A i, j \in 1..Len(r) : i < j => then[i] < then[j]
    BY <1>1, <1>2, <1>3
  <1>6. \A i \in 1..Len(r) : r[i] = t[then[i]]
    BY <1>1, <1>2
  <1> HIDE DEF then
  <1>7. QED
    BY <1>4, <1>5, <1>6 DEF Fifo!IsPartOf

\* What is in transit is a sequence of events.
LEMMA TransitType ==
    /\ TypeOK  => InTransit \in Seq(Event)
    /\ TypeOK' => InTransit' \in Seq(Event)
  <1>1. \A a, b, c, d \in Seq(Event) : a \o b \o c \o d \in Seq(Event)
    OBVIOUS
  <1>2. QED
    BY <1>1 DEF InTransit, TypeOK

\* A sequence without its element i, one by one.
LEMMA WithoutElement ==
    ASSUME NEW S, NEW b \in Seq(S), NEW i \in 1..Len(b)
    PROVE  LET rest == SubSeq(b, 1, i-1) \o SubSeq(b, i+1, Len(b))
           IN  rest \in Seq(S) /\ Without(b, i, rest)
  <1> DEFINE x == SubSeq(b, 1, i-1)
             y == SubSeq(b, i+1, Len(b))
  <1>1. \A j \in 1..Len(b) : b[j] \in S
    OBVIOUS
  <1>2. Len(b) \in Nat /\ i \in Nat /\ i >= 1 /\ i <= Len(b)
    OBVIOUS
  <1>3. x \in Seq(S) /\ Len(x) = i - 1 /\ \A j \in 1..i-1 : x[j] = b[j]
    <2>1. 1 \in Int /\ i-1 \in Int /\ \A j \in 1..i-1 : b[j] \in S
      BY <1>1, <1>2
    <2>2. /\ x \in Seq(S) /\ Len(x) = IF 1 <= i-1 THEN (i-1) - 1 + 1 ELSE 0
          /\ \A j \in 1..(i-1) - 1 + 1 : x[j] = b[1 + j - 1]
      BY <2>1, SubSeqProperties
    <2>3. QED
      BY <1>2, <2>2
  <1>4. y \in Seq(S) /\ Len(y) = Len(b) - i /\ \A j \in 1..Len(b)-i : y[j] = b[i + j]
    <2>1. i+1 \in Int /\ Len(b) \in Int /\ \A j \in i+1..Len(b) : b[j] \in S
      BY <1>1, <1>2
    <2>2. /\ y \in Seq(S) /\ Len(y) = IF i+1 <= Len(b) THEN Len(b) - (i+1) + 1 ELSE 0
          /\ \A j \in 1..Len(b) - (i+1) + 1 : y[j] = b[(i+1) + j - 1]
      BY <2>1, SubSeqProperties
    <2>3. QED
      BY <1>2, <2>2
  <1> HIDE DEF x, y
  <1> DEFINE z == x \o y
  <1>5. /\ z \in Seq(S) /\ Len(z) = Len(x) + Len(y)
        /\ \A j \in 1..Len(x) + Len(y) : z[j] = IF j <= Len(x) THEN x[j] ELSE y[j - Len(x)]
    <2>1. x \in Seq(S) /\ y \in Seq(S)
      BY <1>3, <1>4
    <2>2. QED
      BY <2>1, ConcatProperties
  <1> HIDE DEF z
  <1>6. Len(z) = Len(b) - 1
    BY <1>2, <1>3, <1>4, <1>5
  <1>7. ASSUME NEW j \in 1..Len(b)-1
        PROVE  z[j] = IF j < i THEN b[j] ELSE b[j + 1]
    <2>1. j \in 1..Len(x) + Len(y)
      BY <1>2, <1>3, <1>4
    <2>2. CASE j < i
      <3>1. j \in 1..i-1 /\ j <= Len(x)
        BY <1>2, <1>3, <2>2
      <3>2. z[j] = x[j] /\ x[j] = b[j]
        BY <1>3, <1>5, <2>1, <3>1
      <3>3. QED
        BY <2>2, <3>2
    <2>3. CASE ~(j < i)
      <3>1. z[j] = y[j - (i - 1)]
        BY <1>2, <1>3, <1>5, <2>1, <2>3
      <3>2. j - (i - 1) \in 1..Len(b)-i /\ i + (j - (i - 1)) = j + 1
        BY <1>2, <2>3
      <3>3. QED
        BY <1>4, <2>3, <3>1, <3>2
    <2>4. QED
      BY <2>2, <2>3
  <1>8. QED
    BY <1>5, <1>6, <1>7 DEF x, y, z, Without

\* The same behind a prefix.
LEMMA WithoutElementBehind ==
    ASSUME NEW S, NEW a \in Seq(S), NEW b \in Seq(S), NEW i \in 1..Len(b),
           NEW rest \in Seq(S), Without(b, i, rest)
    PROVE  /\ Len(a) + i \in 1..Len(a \o b)
           /\ a \o rest \in Seq(S)
           /\ Without(a \o b, Len(a) + i, a \o rest)
  <1> DEFINE ab == a \o b
             ar == a \o rest
  <1>1. /\ ab \in Seq(S) /\ Len(ab) = Len(a) + Len(b)
        /\ \A j \in 1..Len(a) + Len(b) : ab[j] = IF j <= Len(a) THEN a[j] ELSE b[j - Len(a)]
    BY ConcatProperties
  <1>2. /\ ar \in Seq(S) /\ Len(ar) = Len(a) + Len(rest)
        /\ \A j \in 1..Len(a) + Len(rest) : ar[j] = IF j <= Len(a) THEN a[j] ELSE rest[j - Len(a)]
    BY ConcatProperties
  <1>3. /\ Len(a) \in Nat /\ Len(b) \in Nat /\ i \in Nat /\ i >= 1 /\ i <= Len(b)
        /\ Len(rest) = Len(b) - 1
    BY DEF Without
  <1>4. \A n \in 1..Len(b)-1 : rest[n] = IF n < i THEN b[n] ELSE b[n + 1]
    BY DEF Without
  <1> HIDE DEF ab, ar
  <1>5. ASSUME NEW j \in 1..Len(ab)-1
        PROVE  ar[j] = IF j < Len(a) + i THEN ab[j] ELSE ab[j + 1]
    <2>1. CASE j <= Len(a)
      <3>1. j \in 1..Len(a) + Len(b) /\ j \in 1..Len(a) + Len(rest) /\ j < Len(a) + i
        BY <1>1, <1>3, <2>1
      <3>2. ab[j] = a[j] /\ ar[j] = a[j]
        BY <1>1, <1>2, <2>1, <3>1
      <3>3. QED
        BY <3>1, <3>2
    <2>2. CASE j > Len(a)
      <3>1. PICK n \in 1..Len(b)-1 : j = Len(a) + n
        <4>1. j - Len(a) \in 1..Len(b)-1 /\ j = Len(a) + (j - Len(a))
          BY <1>1, <1>3, <2>2
        <4>2. QED
          BY <4>1
      <3>2. ar[j] = rest[n]
        <4>1. j \in 1..Len(a) + Len(rest) /\ ~(j <= Len(a)) /\ j - Len(a) = n
          BY <1>3, <3>1
        <4>2. ar[j] = rest[j - Len(a)]
          BY <1>2, <4>1
        <4>3. QED
          BY <4>1, <4>2
      <3>3. ab[j] = b[n] /\ ab[j + 1] = b[n + 1]
        <4>1. /\ j \in 1..Len(a) + Len(b) /\ ~(j <= Len(a)) /\ j - Len(a) = n
              /\ j + 1 \in 1..Len(a) + Len(b) /\ ~(j + 1 <= Len(a)) /\ (j + 1) - Len(a) = n + 1
          BY <1>3, <3>1
        <4>2. ab[j] = b[j - Len(a)] /\ ab[j + 1] = b[(j + 1) - Len(a)]
          BY <1>1, <4>1
        <4>3. QED
          BY <4>1, <4>2
      <3>4. j < Len(a) + i <=> n < i
        BY <1>3, <3>1
      <3>5. QED
        BY <1>4, <3>2, <3>3, <3>4
    <2>3. QED
      BY <1>1, <1>3, <2>1, <2>2
  <1>6. Len(a) + i \in 1..Len(ab) /\ ar \in Seq(S) /\ Without(ab, Len(a) + i, ar)
    BY <1>1, <1>2, <1>3, <1>5 DEF Without
  <1>7. QED
    BY <1>6 DEF ab, ar

\* A delivery moves the first element over the border.
LEMMA HeadMoves ==
    ASSUME NEW S, NEW a \in Seq(S), NEW b \in Seq(S), b # <<>>
    PROVE  Append(a, Head(b)) \o Tail(b) = a \o b
  <1>1. Head(b) \in S /\ Tail(b) \in Seq(S) /\ Len(Tail(b)) = Len(b) - 1 /\ Len(b) \in Nat \ {0}
    OBVIOUS
  <1>2. Append(a, Head(b)) \in Seq(S) /\ Len(Append(a, Head(b))) = Len(a) + 1
    BY <1>1
  <1>3. Append(a, Head(b)) \o Tail(b) \in Seq(S) /\ a \o b \in Seq(S)
    BY <1>1, <1>2
  <1>4. Len(Append(a, Head(b)) \o Tail(b)) = Len(a \o b)
    BY <1>1, <1>2
  <1>5. \A j \in 1..Len(a \o b) : (Append(a, Head(b)) \o Tail(b))[j] = (a \o b)[j]
    BY <1>1, <1>2
  <1>6. QED
    BY <1>3, <1>4, <1>5, SeqEqual

\* Appending behind a concatenation.
LEMMA AppendBehind ==
    ASSUME NEW S, NEW a \in Seq(S), NEW b \in Seq(S), NEW m \in S
    PROVE  a \o Append(b, m) = Append(a \o b, m)
  <1>1. a \o Append(b, m) \in Seq(S) /\ Append(a \o b, m) \in Seq(S)
    OBVIOUS
  <1>2. Len(a \o Append(b, m)) = Len(Append(a \o b, m))
    OBVIOUS
  <1>3. \A j \in 1..Len(a) + Len(b) + 1 : (a \o Append(b, m))[j] = Append(a \o b, m)[j]
    OBVIOUS
  <1>4. QED
    BY <1>1, <1>2, <1>3, SeqEqual

\* The FIFO keeps its order.
LEMMA InOrderStep ==
    ASSUME TypeOK, TypeOK', Fifo!InOrder, [Fifo!Next]_<<recorded, InTransit, received>>
    PROVE  Fifo!InOrder'
  <1>a. recorded \in Seq(Event) /\ received \in Seq(Event) /\ recorded' \in Seq(Event)
    BY DEF TypeOK
  <1>b. InTransit \in Seq(Event) /\ InTransit' \in Seq(Event)
    BY TransitType
  <1>c. \A a, b \in Seq(Event) : a \o b \in Seq(Event)
    OBVIOUS
  <1>0. /\ recorded \in Seq(Event) /\ received \in Seq(Event) /\ InTransit \in Seq(Event)
        /\ recorded' \in Seq(Event) /\ InTransit' \in Seq(Event)
        /\ received \o InTransit \in Seq(Event)
    BY <1>a, <1>b, <1>c
  <1>1. CASE Fifo!Send
    <2> DEFINE m == recorded'[Len(recorded')]
    <2>1. /\ Len(recorded') > Len(recorded) /\ UNCHANGED received
          /\ recorded' = Append(recorded, m) /\ InTransit' = Append(InTransit, m)
      BY <1>1 DEF Fifo!Send
    <2>2. m \in Event
      BY <1>0, <2>1
    <2> HIDE DEF m
    <2>3. received' \o InTransit' = Append(received \o InTransit, m)
      BY <1>0, <2>1, <2>2, AppendBehind
    <2>4. QED
      BY <1>0, <2>1, <2>2, <2>3, PartGrows DEF Fifo!InOrder
  <1>2. CASE Fifo!Lose
    <2>1. PICK i \in 1..Len(InTransit) :
             /\ InTransit' = SubSeq(InTransit, 1, i-1) \o SubSeq(InTransit, i+1, Len(InTransit))
             /\ UNCHANGED <<recorded, received>>
      BY <1>2 DEF Fifo!Lose
    <2> DEFINE s == received \o InTransit
               r == received \o InTransit'
               k == Len(received) + i
    <2>2. k \in 1..Len(s) /\ r \in Seq(Event) /\ Without(s, k, r)
      <3>1. Without(InTransit, i, InTransit')
        BY <1>0, <2>1, WithoutElement
      <3>2. QED
        BY <1>0, <3>1, WithoutElementBehind
    <2>3. s \in Seq(Event) /\ Fifo!IsPartOf(s, recorded)
      BY <1>0 DEF Fifo!InOrder
    <2> HIDE DEF s, r, k
    <2>4. Fifo!IsPartOf(r, recorded)
      BY <1>0, <2>2, <2>3, PartLoses
    <2>5. QED
      BY <2>1, <2>4 DEF Fifo!InOrder, r
  <1>3. CASE Fifo!Deliver
    BY <1>0, <1>3, HeadMoves DEF Fifo!Deliver, Fifo!InOrder
  <1>4. CASE UNCHANGED <<recorded, InTransit, received>>
    BY <1>4 DEF Fifo!InOrder
  <1>5. QED
    BY <1>1, <1>2, <1>3, <1>4 DEF Fifo!Next

\* Order holds with the invariants its step needs.
LEMMA InOrderInvariant == Spec => [](TypeOK /\ Shape /\ Fifo!InOrder)
  <1>1. Init => Fifo!InOrder
    <2>1. \A at : at = <<>> => at \in [1..0 -> 1..0]
      OBVIOUS
    <2>2. Fifo!IsPartOf(<<>> \o <<>>, <<>>)
      BY <2>1 DEF Fifo!IsPartOf
    <2>3. QED
      BY <2>2 DEF Init, WatchInit, E!EngineInit, InTransit, Fifo!InOrder
  <1>2. TypeOK /\ TypeOK' /\ Shape /\ Fifo!InOrder /\ [Next]_vars => Fifo!InOrder'
    BY FifoStep, InOrderStep
  <1>3. QED
    BY <1>1, <1>2, AccountsInvariant, PTL DEF Spec

\* What the engine got, and what is on its way, was recorded in this order.
THEOREM DeliveredInOrder == Spec => []Fifo!InOrder
  BY InOrderInvariant, PTL

\* Without a full channel the engine gets what was recorded.
LEMMA NothingMissing ==
    ASSUME TypeOK, Fifo!InOrder, EveryEventAccountedFor
    PROVE  EngineGetsRecorded
  <1> SUFFICES ASSUME drops = 0 PROVE received \o InTransit = recorded
    BY DEF EngineGetsRecorded
  <1>1. /\ recorded \in Seq(Event) /\ received \in Seq(Event) /\ InTransit \in Seq(Event)
        /\ received \o InTransit \in Seq(Event)
    BY TransitType DEF TypeOK
  <1>2. Len(received \o InTransit) = Len(recorded)
    BY <1>1 DEF EveryEventAccountedFor
  <1>3. QED
    BY <1>1, <1>2, WholePart DEF Fifo!InOrder

\* The engine misses nothing, and gets nothing out of turn, unless a full channel
\* dropped an event (fswatch.go:166, queue.go:25).
THEOREM GetsRecorded == Spec => []EngineGetsRecorded
  BY NothingMissing, InOrderInvariant, AllAccountedFor, PTL

\* From a file change to the engine: unless a channel was full, the engine ends up
\* with news of every announced change that is later than the change, and with the
\* removal of every file that is gone.
THEOREM Learns == Spec => []EngineLearns
  <1>1. ASSUME TypeOK, EngineGetsRecorded, LatestChangeReported, RemovalReported
        PROVE  EngineLearns
    <2> SUFFICES ASSUME drops = 0, InTransit = <<>>, NEW p \in Paths \ Ignored,
                        told[p] # NotTold, Settled(p)
                 PROVE  \E i \in 1..Len(received) :
                           /\ received[i].path = p
                           /\ \A j \in i+1..Len(received) : received[j].path # p
                           /\ received[i].when >= told[p] + Debounce
                           /\ p \notin exists => received[i].op \in Removal
      BY DEF EngineLearns
    <2>1. received = recorded
      BY <1>1, ConcatEmptySeq DEF TypeOK, EngineGetsRecorded
    <2>2. PICK i \in 1..Len(recorded) : LatestFor(p, i) /\ recorded[i].when >= told[p] + Debounce
      BY <1>1 DEF LatestChangeReported
    <2>3. p \notin exists => recorded[i].op \in Removal
      BY <1>1, <2>2 DEF RemovalReported
    <2>4. QED
      BY <2>1, <2>2, <2>3 DEF LatestFor
  <1>2. QED
    BY <1>1, TypeCorrect, GetsRecorded, NoChangeForgotten, RemovalsReported, PTL

\* What the engine got of a path is as far apart as what was recorded.
LEMMA PartIsSpaced ==
    ASSUME TypeOK, Fifo!InOrder, RecordsAreSpaced
    PROVE  Spaced(received)
  <1>1. /\ recorded \in Seq(Event) /\ received \in Seq(Event) /\ InTransit \in Seq(Event)
    BY TransitType DEF TypeOK
  <1> DEFINE s == received \o InTransit
  <1>2. /\ Len(s) \in Nat /\ Len(received) \in Nat /\ Len(received) <= Len(s)
        /\ \A i \in 1..Len(received) : s[i] = received[i]
    BY <1>1
  <1>3. PICK at \in [1..Len(s) -> 1..Len(recorded)] :
           /\ \A i, j \in 1..Len(s) : i < j => at[i] < at[j]
           /\ \A i \in 1..Len(s) : s[i] = recorded[at[i]]
    BY DEF Fifo!InOrder, Fifo!IsPartOf
  <1> HIDE DEF s
  <1>4. ASSUME NEW i \in 1..Len(received), NEW j \in 1..Len(received), i < j,
               received[i].path = received[j].path
        PROVE  received[j].when >= received[i].when + Debounce
    <2>1. i \in 1..Len(s) /\ j \in 1..Len(s)
      BY <1>2
    <2>2. /\ at[i] < at[j] /\ at[i] \in 1..Len(recorded) /\ at[j] \in 1..Len(recorded)
          /\ received[i] = recorded[at[i]] /\ received[j] = recorded[at[j]]
      BY <1>2, <1>3, <1>4, <2>1
    <2>3. QED
      BY <1>4, <2>2 DEF RecordsAreSpaced, Spaced
  <1>5. QED
    BY <1>4 DEF Spaced

\* Two reports of the same path are always a debounce interval apart, in the status
\* and at the engine.
THEOREM Debounced == Spec => []ReportsAreSpaced
  BY PartIsSpaced, InOrderInvariant, NewsInvariant, PTL DEF ReportsAreSpaced

-----------------------------------------------------------------------------
(* The engine and the watcher under fairness.  Each passes through its       *)
(* select again and again; there a case that stays ready is taken in the end. *)
(* What the prover cannot compute, that the cases and the steps between them  *)
(* ask for no more than their guards say, is the hypothesis; it speaks of the *)
(* definitions of the actions.                                                *)

NothingElseIsAsked ==
    /\ epc = "begin" => ENABLED <<E!BeginSync>>_ev
    /\ epc = "end" => ENABLED <<E!EndSync>>_ev
    /\ epc = "select" /\ cancelled => ENABLED <<E!StopEngine>>_ev
    /\ epc = "select" /\ queue # <<>> => ENABLED <<E!ReceiveEvent>>_ev
    /\ wpc = "new" => ENABLED <<StartNothing \/ StartWatching>>_wv
    /\ wpc = "watched" => ENABLED <<StartRun>>_wv
    /\ wpc = "publish" /\ ready # {} => ENABLED <<RecordEvent>>_wv
    /\ wpc = "send" => ENABLED <<SendEvent>>_wv
    /\ wpc = "select" /\ cancelled => ENABLED <<StopWatcher>>_wv
    /\ wpc = "select" /\ kerr => ENABLED <<HandleError>>_wv

EngineAt(place) == epc = place

\* The engine goes round its loop, and only a cancellation ends it.
LEMMA EngineStep ==
    ASSUME TypeOK, [Next]_vars
    PROVE  /\ EngineAt("begin") => EngineAt("begin")' \/ EngineAt("end")'
           /\ EngineAt("end") => EngineAt("end")' \/ EngineAt("select")'
           /\ EngineAt("stopped") => EngineAt("stopped")'
           /\ cancelled => cancelled'
  <1> USE DEF EngineAt
  <1>1. CASE UNCHANGED <<epc, cancelled>>
    BY <1>1
  <1>2. CASE (E!ReceiveEvent \/ E!Tick \/ E!BeginSync \/ E!EndSync \/ E!StopEngine) /\ EngineOnly
    BY <1>2 DEF E!ReceiveEvent, E!Tick, E!BeginSync, E!EndSync, E!StopEngine, EngineOnly
  <1>3. CASE (E!Forward \/ E!Enqueue) /\ EngineOnly
    BY <1>1, <1>3 DEF E!Forward, E!Enqueue, EngineOnly
  <1>4. CASE Cancel
    BY <1>4 DEF Cancel, engineVars
  <1>5. CASE UNCHANGED vars
    BY <1>1, <1>5 DEF vars, engineVars, sharedVars
  <1>6. CASE WatcherOnly
    BY <1>1, <1>6 DEF WatcherOnly, engineVars
  <1>7. QED
    BY <1>2, <1>3, <1>4, <1>5, <1>6 DEF Next

\* The places of the engine, under its fairness.
LEMMA EngineTurns ==
    FairSpec /\ []NothingElseIsAsked =>
        /\ EngineAt("begin") ~> EngineAt("end")
        /\ EngineAt("end") ~> EngineAt("select")
  <1>1. TypeOK /\ [Next]_vars =>
           /\ EngineAt("begin") => EngineAt("begin")' \/ EngineAt("end")'
           /\ EngineAt("end") => EngineAt("end")' \/ EngineAt("select")'
    BY EngineStep
  <1>2. TypeOK /\ EngineAt("begin") /\ <<E!BeginSync>>_ev => EngineAt("end")'
    BY DEF E!BeginSync, EngineAt
  <1>3. TypeOK /\ EngineAt("end") /\ <<E!EndSync>>_ev => EngineAt("select")'
    BY DEF E!EndSync, EngineAt
  <1>4. NothingElseIsAsked =>
           /\ EngineAt("begin") => ENABLED <<E!BeginSync>>_ev
           /\ EngineAt("end") => ENABLED <<E!EndSync>>_ev
    BY DEF NothingElseIsAsked, EngineAt
  <1>5. QED
    BY <1>1, <1>2, <1>3, <1>4, TypeCorrect, PTL DEF FairSpec, Spec, Fairness

\* After cancellation the engine stops, wherever it is and however many events
\* wait (sync.go:36): half of ShutdownCompletes, for any sizes.
THEOREM EngineStops ==
    FairSpec /\ []NothingElseIsAsked => (cancelled ~> epc = "stopped")
  <1>1. TypeOK /\ [Next]_vars =>
           /\ EngineAt("stopped") => EngineAt("stopped")'
           /\ cancelled => cancelled'
    BY EngineStep
  <1>2. TypeOK => EngineAt("select") \/ EngineAt("begin") \/ EngineAt("end") \/ EngineAt("stopped")
    BY DEF TypeOK, EngineAt
  <1>3. TypeOK /\ <<E!StopEngine>>_ev => EngineAt("stopped")'
    BY DEF E!StopEngine, EngineAt, TypeOK
  <1>4. NothingElseIsAsked /\ EngineAt("select") /\ cancelled => ENABLED <<E!StopEngine>>_ev
    BY DEF NothingElseIsAsked, EngineAt
  <1>5. EngineAt("stopped") => epc = "stopped"
    BY DEF EngineAt
  <1>6. FairSpec => Spec /\ SF_ev(E!StopEngine)
    BY PTL DEF FairSpec, Fairness
  <1>7. QED
    BY <1>1, <1>2, <1>3, <1>4, <1>5, <1>6, EngineTurns, TypeCorrect, PTL DEF Spec

Waiting(n) == queue # <<>> /\ Len(received) = n
Taken(n)   == Len(received) > n

\* An event at the head of the queue stays there until it is taken.
LEMMA WaitingStep ==
    ASSUME TypeOK, NEW n \in Nat, [Next]_vars
    PROVE  /\ Waiting(n) => Waiting(n)' \/ Taken(n)'
           /\ Waiting(n) /\ <<E!ReceiveEvent>>_ev => Taken(n)'
  <1>1. Waiting(n) /\ E!ReceiveEvent => Taken(n)'
    <2>1. E!ReceiveEvent => Len(received') = Len(received) + 1
      BY LenOfAppend DEF E!ReceiveEvent, TypeOK
    <2>2. QED
      BY <2>1 DEF Waiting, Taken
  <1>2. CASE UNCHANGED <<queue, received>>
    BY <1>1, <1>2 DEF Waiting, Taken
  <1>3. CASE E!Enqueue /\ EngineOnly
    <2>1. received' = received /\ (queue' = queue \/ queue' = queue \o hand)
      BY <1>3 DEF E!Enqueue
    <2>2. queue # <<>> => queue \o hand # <<>>
      BY DEF TypeOK
    <2>3. QED
      BY <2>1, <2>2 DEF Waiting, Taken, E!ReceiveEvent
  <1>4. CASE (E!ReceiveEvent \/ E!Tick \/ E!BeginSync \/ E!EndSync \/ E!StopEngine \/ E!Forward)
             /\ EngineOnly
    BY <1>1, <1>2, <1>4 DEF E!Tick, E!BeginSync, E!EndSync, E!StopEngine, E!Forward, EngineOnly
  <1>5. CASE Cancel
    BY <1>2, <1>5 DEF Cancel, engineVars
  <1>6. CASE UNCHANGED vars
    BY <1>2, <1>6 DEF vars, engineVars
  <1>7. CASE WatcherOnly
    BY <1>2, <1>7 DEF WatcherOnly, engineVars
  <1>8. QED
    BY <1>1, <1>3, <1>4, <1>5, <1>6, <1>7 DEF Next

\* As long as the engine runs, the event at the head of the queue is taken in
\* the end, however often the ticker is ready at the same time (sync.go:40).
THEOREM HeadIsTaken ==
    ASSUME NEW n \in Nat
    PROVE  FairSpec /\ []NothingElseIsAsked =>
              (queue # <<>> /\ Len(received) = n ~> Len(received) > n \/ epc = "stopped")
  <1>1. TypeOK /\ [Next]_vars =>
           /\ Waiting(n) => Waiting(n)' \/ Taken(n)'
           /\ Waiting(n) /\ <<E!ReceiveEvent>>_ev => Taken(n)'
    BY WaitingStep
  <1>2. TypeOK => EngineAt("select") \/ EngineAt("begin") \/ EngineAt("end") \/ EngineAt("stopped")
    BY DEF TypeOK, EngineAt
  <1>3. NothingElseIsAsked /\ EngineAt("select") /\ Waiting(n) => ENABLED <<E!ReceiveEvent>>_ev
    BY DEF NothingElseIsAsked, EngineAt, Waiting
  <1>4. FairSpec => Spec /\ SF_ev(E!ReceiveEvent)
    BY PTL DEF FairSpec, Fairness
  <1>5. FairSpec /\ []NothingElseIsAsked =>
           (Waiting(n) ~> Taken(n) \/ EngineAt("stopped"))
    BY <1>1, <1>2, <1>3, <1>4, EngineTurns, TypeCorrect, PTL DEF Spec
  <1>6. QED
    BY <1>5, PTL DEF Waiting, Taken, EngineAt
-----------------------------------------------------------------------------
(* The watcher under fairness.  Between two selects it publishes a finite    *)
(* set of events.                                                            *)

WatcherAt(place) == wpc = place

PublishInv ==
    /\ IsFiniteSet(ready)
    /\ wpc = "publish" => ready # {}
    /\ kerr => wpc \notin {"new", "off"}
    /\ wpc = "stopped" => cancelled

\* What a flush collects is finite, as there are finitely many files.
LEMMA FlushedIsFinite ==
    ASSUME IsFiniteSet(Paths), FlushPending
    PROVE  IsFiniteSet(ready') /\ ready' # {}
  <1> DEFINE event == [p \in Due |-> [path |-> p, op |-> pending[p].op, when |-> clock]]
  <1>1. IsFiniteSet(Due) /\ Due # {}
    BY FS_Subset DEF FlushPending, Due
  <1>2. ready' = {event[p] : p \in Due}
    BY DEF FlushPending
  <1>3. event \in Surjection(Due, ready')
    BY <1>2 DEF Surjection
  <1>4. QED
    BY <1>1, <1>2, <1>3, FS_Surjection

LEMMA PublishStep ==
    ASSUME IsFiniteSet(Paths), TypeOK, PublishInv, [Next]_vars
    PROVE  PublishInv'
  <1> USE DEF PublishInv
  <1>1. CASE UNCHANGED <<ready, wpc, kerr>> /\ (cancelled => cancelled')
    BY <1>1
  <1>2. CASE (CreateFile \/ WriteFile \/ ChmodFile \/ RemoveFile \/ RenameFile) /\ WatcherOnly
    <2>1. UNCHANGED <<ready, wpc, cancelled>> /\ (kerr' => kerr \/ Watching)
      BY <1>2 DEF CreateFile, WriteFile, ChmodFile, RemoveFile, RenameFile, Change,
                  flushVars, WatcherOnly
    <2>2. QED
      BY <2>1 DEF Watching
  <1>3. CASE (TimePasses \/ StartNothing \/ StartWatching \/ StartRun \/ HandleEvent
                \/ HandleError \/ StopWatcher) /\ WatcherOnly
    BY <1>3 DEF TimePasses, StartNothing, StartWatching, StartRun, HandleEvent, HandleError,
                StopWatcher, fileVars, flushVars, WatcherOnly
  <1>4. CASE FlushPending /\ WatcherOnly
    BY <1>4, FlushedIsFinite DEF FlushPending, fileVars, WatcherOnly
  <1>5. CASE RecordEvent /\ WatcherOnly
    <2>1. IsFiniteSet(ready')
      BY <1>5, FS_RemoveElement DEF RecordEvent
    <2>2. QED
      BY <1>5, <2>1 DEF RecordEvent, fileVars, WatcherOnly
  <1>6. CASE SendEvent /\ WatcherOnly
    BY <1>6 DEF SendEvent, fileVars, WatcherOnly
  <1>7. CASE EngineOnly
    BY <1>1, <1>7 DEF EngineOnly, watchVars
  <1>8. CASE Cancel \/ UNCHANGED vars
    BY <1>1, <1>8 DEF Cancel, vars, watchVars, sharedVars
  <1>9. QED
    BY <1>2, <1>3, <1>4, <1>5, <1>6, <1>7, <1>8 DEF Next

LEMMA PublishInvariant ==
    ASSUME IsFiniteSet(Paths)
    PROVE  Spec => [](TypeOK /\ PublishInv)
  <1>1. Init => PublishInv
    BY FS_EmptySet DEF Init, WatchInit, PublishInv
  <1>2. TypeOK /\ PublishInv /\ [Next]_vars => PublishInv'
    BY PublishStep
  <1>3. QED
    BY <1>1, <1>2, TypeCorrect, PTL DEF Spec

Publishing(place, n) == wpc = place /\ Cardinality(ready) = n
FewerLeft(n) == \E m \in Nat : m < n /\ (Publishing("publish", m) \/ Publishing("send", m))
StillPublishing == \E n \in Nat : Publishing("publish", n) \/ Publishing("send", n)

\* The goroutine goes from place to place, and the events left become fewer.
LEMMA WatcherStep ==
    ASSUME TypeOK, PublishInv, [Next]_vars, NEW n \in Nat
    PROVE  /\ WatcherAt("new") => WatcherAt("new")' \/ WatcherAt("off")' \/ WatcherAt("watched")'
           /\ WatcherAt("watched") => WatcherAt("watched")' \/ WatcherAt("select")'
           /\ WatcherAt("off") => WatcherAt("off")'
           /\ WatcherAt("stopped") => WatcherAt("stopped")'
           /\ Publishing("publish", n) => Publishing("publish", n)' \/ FewerLeft(n)'
           /\ Publishing("send", n) => \/ Publishing("send", n)' \/ Publishing("publish", n)'
                                       \/ WatcherAt("select")'
           /\ cancelled => cancelled'
  <1> USE DEF WatcherAt, Publishing
  <1>1. CASE UNCHANGED <<wpc, ready>> /\ (cancelled => cancelled')
    BY <1>1
  <1>2. CASE (CreateFile \/ WriteFile \/ ChmodFile \/ RemoveFile \/ RenameFile) /\ WatcherOnly
    BY <1>1, <1>2 DEF CreateFile, WriteFile, ChmodFile, RemoveFile, RenameFile, Change,
                flushVars, WatcherOnly
  <1>3. CASE (TimePasses \/ HandleEvent \/ HandleError) /\ WatcherOnly
    BY <1>1, <1>3 DEF TimePasses, HandleEvent, HandleError, flushVars, WatcherOnly
  <1>4. CASE (StartNothing \/ StartWatching \/ StartRun \/ StopWatcher \/ FlushPending) /\ WatcherOnly
    BY <1>4 DEF StartNothing, StartWatching, StartRun, StopWatcher, FlushPending, flushVars,
                WatcherOnly
  <1>5. CASE RecordEvent /\ WatcherOnly
    <2>1. Cardinality(ready') = Cardinality(ready) - 1 /\ Cardinality(ready') \in Nat
      BY <1>5, FS_RemoveElement, FS_CardinalityType DEF RecordEvent, PublishInv
    <2>2. wpc = "publish" /\ wpc' = "send" /\ cancelled' = cancelled
      BY <1>5 DEF RecordEvent, WatcherOnly
    <2>3. QED
      BY <2>1, <2>2 DEF FewerLeft
  <1>6. CASE SendEvent /\ WatcherOnly
    BY <1>6 DEF SendEvent, WatcherOnly
  <1>7. CASE EngineOnly
    BY <1>1, <1>7 DEF EngineOnly, watchVars
  <1>8. CASE Cancel \/ UNCHANGED vars
    BY <1>1, <1>8 DEF Cancel, vars, watchVars, sharedVars
  <1>9. QED
    BY <1>2, <1>3, <1>4, <1>5, <1>6, <1>7, <1>8 DEF Next

\* The two steps of the loop over ready.
LEMMA PublishMoves ==
    ASSUME PublishInv, NEW n \in Nat
    PROVE  /\ Publishing("publish", n) /\ RecordEvent => FewerLeft(n)'
           /\ Publishing("send", n) /\ SendEvent => Publishing("publish", n)' \/ WatcherAt("select")'
  <1>1. ASSUME Publishing("publish", n), RecordEvent
        PROVE  FewerLeft(n)'
    <2>1. /\ Cardinality(ready') = Cardinality(ready) - 1 /\ Cardinality(ready') \in Nat
          /\ wpc' = "send"
      BY <1>1, FS_RemoveElement, FS_CardinalityType DEF RecordEvent, PublishInv
    <2>2. QED
      BY <1>1, <2>1 DEF Publishing, FewerLeft
  <1>2. Publishing("send", n) /\ SendEvent => Publishing("publish", n)' \/ WatcherAt("select")'
    BY DEF SendEvent, Publishing, WatcherAt
  <1>3. QED
    BY <1>1, <1>2

\* With n events left, fewer are left in the end or the loop is over.
LEMMA PublishesOne ==
    ASSUME IsFiniteSet(Paths), NEW n \in Nat
    PROVE  FairSpec /\ []NothingElseIsAsked =>
              (Publishing("publish", n) \/ Publishing("send", n) ~> FewerLeft(n) \/ WatcherAt("select"))
  <1> DEFINE inv == TypeOK /\ PublishInv
  <1>1. inv /\ [Next]_vars =>
           /\ Publishing("publish", n) => Publishing("publish", n)' \/ FewerLeft(n)'
           /\ Publishing("send", n) => \/ Publishing("send", n)' \/ Publishing("publish", n)'
                                       \/ WatcherAt("select")'
    BY WatcherStep
  <1>2. inv =>
           /\ Publishing("publish", n) /\ <<RecordEvent>>_wv => FewerLeft(n)'
           /\ Publishing("send", n) /\ <<SendEvent>>_wv =>
                 Publishing("publish", n)' \/ WatcherAt("select")'
    BY PublishMoves
  <1>3. inv /\ NothingElseIsAsked =>
           /\ Publishing("publish", n) => ENABLED <<RecordEvent>>_wv
           /\ Publishing("send", n) => ENABLED <<SendEvent>>_wv
    BY DEF NothingElseIsAsked, PublishInv, Publishing
  <1>4. FairSpec => Spec /\ WF_wv(RecordEvent) /\ WF_wv(SendEvent)
    BY PTL DEF FairSpec, Fairness
  <1>5. QED
    BY <1>1, <1>2, <1>3, <1>4, PublishInvariant, PTL DEF Spec

\* The rule that a number cannot become smaller for ever, for the number of
\* events left.  It is a law of temporal logic and an induction, so the prover
\* cannot derive it; it is a hypothesis where it is used.
FewerThenNone ==
    (\A n \in Nat : Publishing("publish", n) \/ Publishing("send", n)
                       ~> FewerLeft(n) \/ WatcherAt("select"))
      => (StillPublishing ~> WatcherAt("select"))

\* So the watcher comes back to its select, whatever was collected.
LEMMA WatcherTurns ==
    ASSUME IsFiniteSet(Paths)
    PROVE  FairSpec /\ []NothingElseIsAsked /\ FewerThenNone =>
              []<>(WatcherAt("select") \/ WatcherAt("off") \/ WatcherAt("stopped"))
  <1> DEFINE inv == TypeOK /\ PublishInv
  <1>1. FairSpec /\ []NothingElseIsAsked /\ FewerThenNone => (StillPublishing ~> WatcherAt("select"))
    BY PublishesOne DEF FewerThenNone
  <1>2. inv /\ [Next]_vars =>
           /\ WatcherAt("new") => WatcherAt("new")' \/ WatcherAt("off")' \/ WatcherAt("watched")'
           /\ WatcherAt("watched") => WatcherAt("watched")' \/ WatcherAt("select")'
    BY WatcherStep
  <1>3. /\ <<StartNothing \/ StartWatching>>_wv => WatcherAt("off")' \/ WatcherAt("watched")'
        /\ <<StartRun>>_wv => WatcherAt("select")'
    BY DEF StartNothing, StartWatching, StartRun, WatcherAt
  <1>4. NothingElseIsAsked =>
           /\ WatcherAt("new") => ENABLED <<StartNothing \/ StartWatching>>_wv
           /\ WatcherAt("watched") => ENABLED <<StartRun>>_wv
    BY DEF NothingElseIsAsked, WatcherAt
  <1>5. inv => \/ WatcherAt("new") \/ WatcherAt("watched") \/ WatcherAt("select") \/ WatcherAt("off")
               \/ WatcherAt("stopped") \/ StillPublishing
    BY FS_CardinalityType DEF TypeOK, PublishInv, WatcherAt, StillPublishing, Publishing
  <1>6. FairSpec => Spec /\ WF_wv(StartNothing \/ StartWatching) /\ WF_wv(StartRun)
    BY PTL DEF FairSpec, Fairness
  <1>7. QED
    BY <1>1, <1>2, <1>3, <1>4, <1>5, <1>6, PublishInvariant, PTL DEF Spec

\* After cancellation both goroutines stop, wherever they are and whatever is
\* still queued, for any number of files and any sizes (fswatch.go:122, sync.go:36).
THEOREM BothStop ==
    ASSUME IsFiniteSet(Paths)
    PROVE  FairSpec /\ []NothingElseIsAsked /\ FewerThenNone => ShutdownCompletes
  <1>1. TypeOK /\ PublishInv /\ [Next]_vars =>
           /\ WatcherAt("off") => WatcherAt("off")'
           /\ WatcherAt("stopped") => WatcherAt("stopped")'
           /\ cancelled => cancelled'
    BY WatcherStep
  <1>2. TypeOK /\ [Next]_vars => (EngineAt("stopped") => EngineAt("stopped")')
    BY EngineStep
  <1>3. <<StopWatcher>>_wv => WatcherAt("stopped")'
    BY DEF StopWatcher, WatcherAt
  <1>4. NothingElseIsAsked /\ WatcherAt("select") /\ cancelled => ENABLED <<StopWatcher>>_wv
    BY DEF NothingElseIsAsked, WatcherAt
  <1>5. FairSpec => Spec /\ SF_wv(StopWatcher)
    BY PTL DEF FairSpec, Fairness
  <1>6. FairSpec /\ []NothingElseIsAsked => (cancelled ~> EngineAt("stopped"))
    BY EngineStops, PTL DEF EngineAt
  <1>7. FairSpec /\ []NothingElseIsAsked /\ FewerThenNone =>
           (cancelled ~> WatcherAt("off") \/ WatcherAt("stopped"))
    BY <1>1, <1>3, <1>4, <1>5, WatcherTurns, PublishInvariant, PTL DEF Spec
  <1>8. EngineAt("stopped") /\ (WatcherAt("off") \/ WatcherAt("stopped")) =>
           epc = "stopped" /\ wpc \in {"off", "stopped"}
    BY DEF EngineAt, WatcherAt
  <1>9. FairSpec => Spec
    BY DEF FairSpec
  <1>10. QED
    BY <1>1, <1>2, <1>6, <1>7, <1>8, <1>9, PublishInvariant, PTL DEF Spec, ShutdownCompletes

\* An overflow that is waiting stays there until the watcher takes it, and then
\* the status says "error".
LEMMA OverflowStep ==
    ASSUME TypeOK, [Next]_vars
    PROVE  /\ kerr => kerr' \/ store'.state = "error"
           /\ HandleError => store'.state = "error"
  <1>1. HandleError => store'.state = "error"
    BY DEF HandleError, Update, TypeOK, Store
  <1>2. CASE kerr' = kerr
    BY <1>1, <1>2
  <1>3. CASE (CreateFile \/ WriteFile \/ ChmodFile \/ RemoveFile \/ RenameFile) /\ WatcherOnly
    <2>1. kerr => kerr'
      BY <1>3 DEF CreateFile, WriteFile, ChmodFile, RemoveFile, RenameFile, Change
    <2>2. QED
      BY <1>1, <2>1
  <1>4. CASE (TimePasses \/ StartNothing \/ StartWatching \/ StartRun \/ HandleEvent \/ FlushPending
                \/ RecordEvent \/ SendEvent \/ StopWatcher) /\ WatcherOnly
    BY <1>2, <1>4 DEF TimePasses, StartNothing, StartWatching, StartRun, HandleEvent, FlushPending,
       RecordEvent, SendEvent, StopWatcher, fileVars
  <1>5. CASE EngineOnly \/ Cancel \/ UNCHANGED vars
    BY <1>2, <1>5 DEF EngineOnly, Cancel, vars, watchVars, sharedVars
  <1>6. QED
    BY <1>1, <1>3, <1>4, <1>5 DEF Next

OverflowShown == store.state = "error"

\* A kernel queue that overflowed is reported as the error state, however busy
\* the watcher is with events (fswatch.go:145), for any sizes.
THEOREM OverflowComesOut ==
    ASSUME IsFiniteSet(Paths)
    PROVE  FairSpec /\ []NothingElseIsAsked /\ FewerThenNone => OverflowIsShown
  <1> DEFINE inv == TypeOK /\ PublishInv
  <1>1. inv /\ [Next]_vars =>
           /\ kerr => kerr' \/ OverflowShown'
           /\ <<HandleError>>_wv => OverflowShown'
    BY OverflowStep DEF OverflowShown
  <1>2. NothingElseIsAsked /\ WatcherAt("select") /\ kerr => ENABLED <<HandleError>>_wv
    BY DEF NothingElseIsAsked, WatcherAt
  <1>3. inv =>
           /\ kerr => ~WatcherAt("off")
           /\ WatcherAt("stopped") => cancelled
    BY DEF PublishInv, WatcherAt
  <1>4. FairSpec => Spec /\ SF_wv(HandleError)
    BY PTL DEF FairSpec, Fairness
  <1>5. QED
    BY <1>1, <1>2, <1>3, <1>4, WatcherTurns, PublishInvariant, PTL DEF Spec, OverflowIsShown, OverflowShown
=============================================================================
