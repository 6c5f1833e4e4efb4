--------------------------- MODULE MCWatchTree ---------------------------
(* WatchTree for TLC: two directories in a third, an ignored directory with *)
(* one inside, and a file.                                                  *)
EXTENDS WatchTree, TLC

CONSTANTS root, a, b, c, t, u, f

MCDirs  == {a, b, c, t, u}
MCFiles == {f}
MCParentOf == (a :> root) @@ (b :> a) @@ (c :> a) @@ (t :> root) @@ (u :> t) @@ (f :> a)
MCIgnored  == {t}
=============================================================================
