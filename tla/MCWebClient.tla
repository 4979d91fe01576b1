---------------------------- MODULE MCWebClient ----------------------------
(* The pane of schemas, whose handlers do all that those of the other pane *)
(* do and more, with two calls at once and two jobs.                       *)
EXTENDS WebClient

CONSTANTS h1, h2, s1, s2
=============================================================================
