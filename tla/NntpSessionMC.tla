--------------------------- MODULE NntpSessionMC ---------------------------
(***************************************************************************)
(* Values for model-checking NntpSession.                                  *)
(***************************************************************************)
EXTENDS NntpSession

Reads == {"LISTGROUP", "GROUP", "ARTICLE"}

\* A server that never asks for AUTHINFO; one that asks before it serves
\* articles and takes postings; one that asks for XOVER too, so that
\* nntp_open() itself authenticates; and the first with -A and no ~/.newsauth.
MCSetups ==
  {[asks |-> {}, force |-> FALSE, newsauth |-> TRUE],
   [asks |-> Reads \cup {"POST"}, force |-> FALSE, newsauth |-> TRUE],
   [asks |-> Reads \cup {"POST", "XOVER", "OVER"}, force |-> FALSE, newsauth |-> FALSE],
   [asks |-> {}, force |-> TRUE, newsauth |-> FALSE]}
=============================================================================
