------------------------------ MODULE GroupsMC ------------------------------
(***************************************************************************)
(* Groups and what is read of them: one group and its index (GroupIndex),  *)
(* the counts of all groups (GroupPipeline), and the list the reader moves *)
(* in (Groups).  Each of the three runs while the others stand at their    *)
(* start.                                                                  *)
(*   GroupIndex: four articles, the third without a Date:, the fourth with *)
(* an Archive-name: before its Date:.                                      *)
(*   Groups: one group on the server, a line of .newsrc for a group that is *)
(* gone, and a group created while tin runs, subscribed on its own or not. *)
(***************************************************************************)
EXTENDS GroupPipeline, Groups

CONSTANTS MaxArt, Headers, Modes, GetartLimits, MaxCuts
VARIABLES mode, getart_limit, spool, high, xmin, xmax, nov, base, arts, last_read_article, at, pc,
          cuts, lostarts

I == INSTANCE GroupIndex WITH lost <- lostarts
index == <<mode, getart_limit, spool, high, xmin, xmax, nov, base, arts, last_read_article, at, pc,
           cuts, lostarts>>

Plain == <<"From", "Subject", "Date", "Message-ID">>
MCHeaders == [n \in 1..MaxArt |->
  IF n = 3 THEN <<"From", "Message-ID">>
  ELSE IF n = 4 THEN <<"Received", "From", "Archive-name", "Date", "Message-ID">> ELSE Plain]
Mode(nntp, listgroup, xover, cache) == [nntp |-> nntp, listgroup |-> listgroup, xover |-> xover, cache |-> cache]
MCModes == {Mode(FALSE, FALSE, FALSE, FALSE), Mode(TRUE, TRUE, FALSE, FALSE), Mode(TRUE, FALSE, FALSE, FALSE),
            Mode(TRUE, TRUE, TRUE, FALSE), Mode(TRUE, TRUE, TRUE, TRUE)}
MCNoListgroup == {Mode(TRUE, FALSE, FALSE, FALSE)}
MCLimits == {0, 2, -1}

-----------------------------------------------------------------------------

MCLines == [i \in 1..6 |-> [name |-> <<"a", "b", "c", "d", "e", "f">>[i], sub |-> i # 4]]

MCActive == <<"a">>
MCNewsrc == <<[name |-> "gone", sub |-> TRUE], [name |-> "a", sub |-> TRUE]>>

-----------------------------------------------------------------------------

VARIABLE part   \* which of the three runs

\* No list, while the others run.
NoList ==
  /\ s = [active |-> <<>>, sub |-> {}, new |-> {}, bogus |-> {}, unread |-> {}, my |-> <<>>, cur |-> 0,
          file |-> <<>>]
  /\ server = <<>> /\ yank = TRUE /\ only = TRUE

MCInit ==
  /\ Init /\ I!Init
  /\ part \in {"index", "counts", "groups"}
  /\ IF part = "groups" THEN ListInit ELSE NoList
  /\ part # "index" => mode = Mode(FALSE, FALSE, FALSE, FALSE) /\ getart_limit = 0
MCNext ==
  /\ UNCHANGED part
  /\ \/ part = "index" /\ I!Next /\ UNCHANGED <<vars, list_vars>>
     \/ part = "counts" /\ (Next \/ (Done /\ UNCHANGED vars)) /\ UNCHANGED <<index, list_vars>>
     \/ part = "groups" /\ ListNext /\ UNCHANGED <<vars, index>>
MCSpec == MCInit /\ [][MCNext]_<<vars, index, list_vars, part>>

IndexIsGroup == I!IndexIsGroup
=============================================================================
