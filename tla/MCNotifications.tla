--------------------------- MODULE MCNotifications ---------------------------
(***************************************************************************)
(* Two users who connect, are cut off and connect again.                          *)
(***************************************************************************)
EXTENDS Notifications, TLC

CONSTANTS w1, u1, u2, i0, systemKey, retiredKey

MCNoticeBodies == {}

MCNoticeScopes ==
  {[calls |-> {"socket", "stream", "socketError"}, users |-> {u1, u2}, batches |-> {},
    tokens |-> {}, sockets |-> {1, 2, 3}]}

=============================================================================
