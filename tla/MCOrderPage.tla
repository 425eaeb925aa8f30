---------------------------- MODULE MCOrderPage ----------------------------
(***************************************************************************)
(* Two status requests under way at a time: enough for one to overtake the *)
(* other.  The order moves as the present flow does, or is given up by the *)
(* watchdog and finished after all by a late task of the old one.          *)
(***************************************************************************)
EXTENDS OrderPageProperties

GivenUp == FreshMoves \cup {<<"generating", "refunded">>, <<"refunded", "done">>}

=============================================================================
