--------------------------- MODULE MCAuthService ---------------------------
(* AuthService for TLC: two Google accounts beside the default one.         *)
EXTENDS AuthService, TLC

CONSTANTS default, local, g1, g2, m1, m2, user, refresher

MCGoogleIds  == {g1, g2}
MCEmails     == {m1, m2}
MCUsers      == {user}
MCRefreshers == {refresher}

Names == Permutations(MCGoogleIds) \cup Permutations(MCEmails)
=============================================================================
