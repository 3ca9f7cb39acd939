---------------------------- MODULE MCIrcClient -----------------------------
(***************************************************************************)
(* Small instances of IrcClient for TLC: a few nicks, of which the server  *)
(* refuses some.                                                           *)
(***************************************************************************)
EXTENDS IrcClient, TLC

MCFirstInUse == {0}
MCBothInUse  == {0, 1}

=============================================================================
