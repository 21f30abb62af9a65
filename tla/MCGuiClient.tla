---------------------------- MODULE MCGuiClient ----------------------------
(* Two connections one after the other (or, after a stale refresh, at once)*)
(* and two messages or clicks on Disconnect, which compete for the lock.   *)
EXTENDS GuiClient
=============================================================================
