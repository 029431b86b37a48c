--------------------------- MODULE OrderLifecycle ---------------------------
(***************************************************************************)
(* The statuses of an order and the transitions that transition_status     *)
(* allows.                                                                 *)
(***************************************************************************)

OrderStatus == {"pending", "confirmed", "paid", "processing", "shipped",
                "delivered", "completed", "cancelled", "disputed", "refunded"}

(* VALID_TRANSITIONS: the order state machine. *)
ValidNext ==
    [s \in OrderStatus |->
        CASE s = "pending"    -> {"confirmed", "cancelled"}
          [] s = "confirmed"  -> {"paid", "cancelled"}
          [] s = "paid"       -> {"processing", "refunded", "disputed"}
          [] s = "processing" -> {"shipped", "refunded"}
          [] s = "shipped"    -> {"delivered"}
          [] s = "delivered"  -> {"completed", "disputed"}
          [] s = "disputed"   -> {"refunded", "completed", "cancelled"}
          [] OTHER            -> {}]

(* Mutant: validation forgotten. *)
CanTransition_Any(old, new) == new \in OrderStatus

CanTransition(old, new) == new \in ValidNext[old]
=============================================================================
