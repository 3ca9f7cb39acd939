----------------------------- MODULE MCJohnBot ------------------------------
(***************************************************************************)
(* Small instances of JohnBot for TLC: one or two clients, the relay and   *)
(* the logger, two chats, an operator and a regular user.                  *)
(***************************************************************************)
EXTENDS JohnBot, TLC

CONSTANTS c1, c2        \* clients
CONSTANTS x, y          \* chats
CONSTANTS op, regular   \* users

MCUserLevel == (op :> Op) @@ (regular :> 0)

MCBroadcast == {All}
MCAnybody   == {All, c2}

MCWords == {AddMap, "map", x, y}

MCSetup    == <<c1, Relay, Logger>>
MCSetupTwo == <<c1, c2, Relay>>

MCNoMappings == {}
MCMapping == {<<x, y>>}

Addmap(user) == Command(user, x, <<AddMap, x, y>>)

\* What people write in chat x, with operator commands in every form.
MCTrafficAll ==
    {IncomingMessage(x), Addmap(op), Addmap(regular),
     Command(op, x, <<AddMap>>), Command(op, x, <<"map">>), Command(op, x, <<>>), Exit}

MCTrafficChat  == {IncomingMessage(x)}
MCTrafficExit  == {IncomingMessage(x), Addmap(op), Exit}
MCTrafficProgress == {IncomingMessage(x), Addmap(op), Addmap(regular), Exit}

=============================================================================
