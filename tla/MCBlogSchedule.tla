--------------------------- MODULE MCBlogSchedule ---------------------------
(* One post, two requests on it, two dispatch calls. The limits keep their     *)
(* order (the dead-letter job acts before the service gives up): 1 and 2 for 5 *)
(* and 6.                                                                      *)
EXTENDS BlogSchedule

CONSTANTS e1, e2, t1, t2
=============================================================================
