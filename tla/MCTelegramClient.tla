-------------------------- MODULE MCTelegramClient ---------------------------
(***************************************************************************)
(* Small instances of TelegramClient for TLC.                              *)
(***************************************************************************)
EXTENDS TelegramClient, TLC

\* Every outcome of undefined behaviour.
MCAllBuilds ==
    [asserts : BOOLEAN, optional : {"crash", "garbage"}]

\* A build that survives it.
MCGoodBuild ==
    {[asserts |-> FALSE, optional |-> "garbage"]}

=============================================================================
