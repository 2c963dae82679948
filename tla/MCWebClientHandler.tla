------------------------- MODULE MCWebClientHandler -------------------------
(* Model-checking instance of WebClientHandler.                            *)
EXTENDS WebClientHandler
=============================================================================
