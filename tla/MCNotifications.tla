--------------------------- MODULE MCNotifications ---------------------------
(***************************************************************************)
(* Notifications for TLC.  Days of two slots, weeks of four; u1 has a paid *)
(* period, u2 is on trial, and only u1 has battles in the table.           *)
(***************************************************************************)
EXTENDS Notifications, TLC

CONSTANTS u1, u2

PaidThenTrial == (u1 :> 5) @@ (u2 :> 3)
PaidAndTrial == (u1 :> "paid") @@ (u2 :> "trial")
=============================================================================
