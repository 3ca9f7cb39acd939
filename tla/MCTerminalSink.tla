---------------------------- MODULE MCTerminalSink ----------------------------
(***************************************************************************)
(* One terminal and the bot: the connection before an interrupt and the    *)
(* one that may follow it, queues of one message.                          *)
(***************************************************************************)
EXTENDS TerminalSink

MCConnections == {1, 2}

MCContents == <<2, 0, 1>>

=============================================================================
