------------------------------ MODULE MCOutbox ------------------------------
(* Small instances of Outbox. The limits keep their order (the dead-letter job *)
(* acts before a service gives up): 2 and 3 for 5 and 6 or 8.                  *)
EXTENDS Outbox

CONSTANTS r1, r2, d1, d2, none
=============================================================================
