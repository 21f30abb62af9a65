---------------------------- MODULE MCGuiServer ----------------------------
(* Two runs of the server, the second started after the first has ended or *)
(* before that, and two messages or clicks on Stop.                        *)
EXTENDS GuiServer
=============================================================================
