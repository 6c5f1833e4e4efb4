---------------------------- MODULE StatusStore ----------------------------
(* internal/status/status.go: the snapshot every goroutine of the daemon    *)
(* publishes into and every status reader copies out of.  Each operation    *)
(* holds the mutex from its first to its last line, so it is a function     *)
(* from a store to a store; the modules that own a variable "store" apply   *)
(* one of them per step.  Messages and UpdatedAt are left out: no property  *)
(* depends on them.                                                         *)
EXTENDS Integers, Sequences

CONSTANT NoEvent    \* "no event": LastEvent = ""

State == {"unspecified", "idle", "syncing", "error", "paused"}

\* The last n elements of seq: the slice expression of SetMaxEvents, AddEvent.
Newest(seq, n) ==
    IF Len(seq) > n THEN SubSeq(seq, Len(seq) - n + 1, Len(seq)) ELSE seq

NewStore == [state |-> "idle", last |-> NoEvent,
             recent |-> <<>>, ring |-> <<>>, maxEvents |-> 20]

\* Mutant: a size of zero is not refused.
SetMaxEventsUnguarded(s, max) ==
    LET ring == Newest(s.ring, max)
    IN  [s EXCEPT !.maxEvents = max, !.ring = ring, !.recent = ring]

SetMaxEvents(s, max) ==
    LET ring == Newest(s.ring, max)
    IN  IF max <= 0 THEN s
        ELSE [s EXCEPT !.maxEvents = max, !.ring = ring, !.recent = ring]

\* Mutant: an update without a last event erases the one that is shown.
UpdateErases(s, state, last) ==
    [s EXCEPT !.state = state, !.last = last, !.recent = s.ring]

\* A caller hands over a state and a last event, NoEvent when it omits it.
Update(s, state, last) ==
    [s EXCEPT !.state  = state,
              !.last   = IF last = NoEvent THEN s.last ELSE last,
              !.recent = s.ring]

AddEvent(s, evt) ==
    LET ring == Newest(Append(s.ring, evt), s.maxEvents)
    IN  [s EXCEPT !.ring = ring, !.last = evt, !.recent = ring]

\* What a reader gets: RecentEvents is copied from the ring, not the snapshot.
Current(s) == [state |-> s.state, last |-> s.last, recent |-> s.ring]
=============================================================================
