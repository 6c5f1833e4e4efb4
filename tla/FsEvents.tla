----------------------------- MODULE FsEvents -----------------------------
(* internal/fswatch: the operation labels of a file event, how the bit set  *)
(* of a raw notification becomes one label, and how two labels for the same *)
(* path are merged while the path is being debounced.                       *)
EXTENDS Integers

RawOp == {"create", "write", "remove", "rename", "chmod"}
Op    == RawOp \cup {"unknown"}

\* The labels that say a path is gone.
Removal == {"remove", "rename"}

\* The switch of normalizeOp: the first bit that is set names the event.
normalizeOp(bits) ==
    IF "create" \in bits THEN "create"
    ELSE IF "write" \in bits THEN "write"
    ELSE IF "remove" \in bits THEN "remove"
    ELSE IF "rename" \in bits THEN "rename"
    ELSE IF "chmod" \in bits THEN "chmod"
    ELSE "unknown"

\* Mutant: a rename ranks below the events of a file that is there.
PriorityRenameLow(op) ==
    CASE op = "remove" -> 5
      [] op = "create" -> 4
      [] op = "write"  -> 3
      [] op = "rename" -> 2
      [] op = "chmod"  -> 1
      [] op = "unknown" -> 0

Priority(op) ==
    CASE op = "remove" -> 5
      [] op = "rename" -> 4
      [] op = "create" -> 3
      [] op = "write"  -> 2
      [] op = "chmod"  -> 1
      [] op = "unknown" -> 0

mergeOp(current, next) ==
    IF Priority(next) >= Priority(current) THEN next ELSE current
=============================================================================
