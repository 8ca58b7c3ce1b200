--------------------------- MODULE MCClientSession ---------------------------
(* Clients for TLC: one that logs in, trades and searches, one that trades *)
(* without a login, one with an empty and an oversized message.            *)
EXTENDS ClientSession

Msg(kind, size) == [kind |-> kind, size |-> size]
MCScripts ==
  {<<Msg("login", 1), Msg("trade", 2), Msg("search", 1)>>,
   <<Msg("bad login", 1), Msg("trade", 1), Msg("login", 2)>>,
   <<Msg("invalid", 0), Msg("search", 2), Msg("invalid", 3)>>}

(* Two clients with messages of different lengths.                         *)
PairScripts == {<<Msg("search", 1)>>, <<Msg("login", 2), Msg("trade", 1)>>}
=============================================================================
