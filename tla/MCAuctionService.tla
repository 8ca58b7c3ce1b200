--------------------------- MODULE MCAuctionService ---------------------------
(* The clients of MCClientSession, on one listing of a client and one that *)
(* was there before; s1 and the listings are strings.                      *)
EXTENDS AuctionService

CONSTANTS own, old

Msg(kind, size) == [kind |-> kind, size |-> size]
MCScripts ==
  {<<Msg("login", 1), Msg("trade", 1), Msg("trade", 1)>>,
   <<Msg("bad login", 1), Msg("trade", 1), Msg("login", 1)>>,
   <<Msg("invalid", 0), Msg("search", 2), Msg("invalid", 3)>>}

MCListings == {own, old}
MCForeign == {old}
=============================================================================
