----------------------------- MODULE StatusTui -----------------------------
(* cmd/googlysync/tui.go: the status program.  Every command that Update     *)
(* returns runs in a goroutine and ends in one message to Update, so the     *)
(* program is a set of chains poll -> answer -> poll: the one of Init and    *)
(* one more for every refresh key.  Answers of two chains may overtake each  *)
(* other.  A daemon that can be reached answers within the timeout of 3 s.   *)
EXTENDS Naturals

CONSTANT MaxRefreshes   \* bound: how often "r" is pressed

VARIABLES
    reachable,  \* a daemon listens at the socket path   (the daemon's)
    version,    \* changes of the status so far          (the daemon's)
    chain,      \* per chain: what it waits for, and the answer it carries
    view,       \* what View renders, and the status last shown (m.status), which
                \* an error hides and does not forget
    refreshes,
    quitting

Chains == 0..MaxRefreshes
Idle == [at |-> "none", seen |-> 0]
Polling == [at |-> "poll", seen |-> 0]

TuiInit ==
    /\ chain = [c \in Chains |-> IF c = 0 THEN Polling ELSE Idle]
    /\ view = [at |-> "loading", seen |-> 0]
    /\ refreshes = 0 /\ quitting = FALSE

Step(c, from, to) == ~quitting /\ chain[c].at = from /\ chain' = [chain EXCEPT ![c] = to]

\* pollStatusCmd: one connection, one GetStatus, one message.
Poll(c) ==
    /\ Step(c, "poll", IF reachable THEN [at |-> "status", seen |-> version]
                       ELSE [at |-> "error", seen |-> 0])
    /\ UNCHANGED <<view, refreshes, quitting>>

\* Mutant: a second command is started beside the poll.
HandleStatusTwice(c) ==
    /\ ~quitting /\ chain[c].at = "status"
    /\ chain' = [d \in Chains |-> IF d = c \/ chain[d].at = "none" THEN Polling ELSE chain[d]]
    /\ view' = chain[c]
    /\ UNCHANGED <<refreshes, quitting>>

\* statusMsg: the next poll starts at once, the interval is not used.
HandleStatus(c) ==
    /\ Step(c, "status", Polling) /\ view' = chain[c]
    /\ UNCHANGED <<refreshes, quitting>>

\* Mutant: after an error only a refresh polls again.
HandleErrorStops(c) ==
    /\ Step(c, "error", Idle) /\ view' = [view EXCEPT !.at = "error"]
    /\ UNCHANGED <<refreshes, quitting>>

\* errMsg: the next poll waits for the interval.
HandleError(c) ==
    /\ Step(c, "error", [at |-> "tick", seen |-> 0])
    /\ view' = [view EXCEPT !.at = "error"]
    /\ UNCHANGED <<refreshes, quitting>>

\* The interval is over; pollNowMsg.
HandlePollNow(c) ==
    /\ Step(c, "tick", Polling)
    /\ UNCHANGED <<view, refreshes, quitting>>

PressRefresh ==
    /\ refreshes < MaxRefreshes /\ refreshes' = refreshes + 1
    /\ Step(refreshes + 1, "none", Polling)
    /\ UNCHANGED <<view, quitting>>

PressQuit ==
    /\ ~quitting /\ quitting' = TRUE
    /\ UNCHANGED <<chain, view, refreshes>>

ChainStep(c) ==
    Poll(c) \/ HandleStatus(c) \/ HandleError(c) \/ HandlePollNow(c)

TuiNext == PressRefresh \/ PressQuit \/ \E c \in Chains : ChainStep(c)
=============================================================================
