---------------------------- MODULE MCGuiSession ----------------------------
(* One connection and one run of the server; one message or click on      *)
(* Disconnect by the client's user, one message or click on Stop by the   *)
(* server's.                                                               *)
EXTENDS GuiSession
=============================================================================
