---------------------------- MODULE MCOAuthFlow ----------------------------
(* OAuthFlow for TLC: three connections to the callback port.               *)
EXTENDS OAuthFlow, TLC

CONSTANTS r1, r2, r3

MCCallbacks == {r1, r2, r3}
=============================================================================
