---------------------------- MODULE MCMetaStore ----------------------------
(* MetaStore for TLC: the default account and one more, two files and two   *)
(* paths, one id in the other tables and one email, which no rule looks at. *)
EXTENDS PrefixSearch, TLC

CONSTANTS default, user, local, f1, f2, d1, o1, s1

MCAccounts == {default, user}
MCEmails   == {local}
MCFiles    == {f1, f2}
MCFolders  == {d1}
MCOps      == {o1}
MCDrives   == {s1}
MCPaths    == {<<"a", "%">>, <<"A", "\\">>}
MCTimes    == {1, 2}

MCBefore(p, q) == p[1] = "A" /\ q[1] = "a"
MCLimits       == {0, 1}

MCLower(c)   == IF c = "A" THEN "a" ELSE c
MCCharacters == {"a", "%", "_", "\\"}

Names == Permutations(MCFiles)
=============================================================================
