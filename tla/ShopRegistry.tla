---------------------------- MODULE ShopRegistry ----------------------------
(***************************************************************************)
(* What connecting a shop promises of the rows of shop_integrations, as a  *)
(* registry that one transaction at a time changes: each shop is connected *)
(* by one row, a vendor account belongs to one row, and a row is pending,  *)
(* then connected, then disconnected, and never comes back.                *)
(*                                                                         *)
(* Of the requests that do it only their overlaps are left: `contested`    *)
(* are the shops that two of them have served at once.  Each transaction   *)
(* says what that excuses.                                                 *)
(***************************************************************************)
CONSTANTS Shop, Integration, ShopOf, Vendor, None

VARIABLES
    status,     \* of each row
    vendor,     \* the vendor account it is for
    contested

registry == <<status, vendor, contested>>

Present(i) == status[i] \notin {"absent", "deleted"}
Open(sh) == {i \in Integration : ShopOf[i] = sh /\ status[i] \in {"pending", "connected"}}

Init ==
    /\ status = [i \in Integration |-> "absent"]
    /\ vendor = [i \in Integration |-> None]
    /\ contested = {}

(* The rows in D give way to row i: one row of its shop at most, and just  *)
(* the flow that was abandoned, if there is one.                           *)
Replaces(i, D) ==
    /\ status[i] = "absent"
    /\ \A j \in D : Present(j) /\ ShopOf[j] = ShopOf[i]
    /\ \A j, k \in D : j = k
    /\ ShopOf[i] \notin contested =>
          D = Open(ShopOf[i]) /\ \A j \in D : status[j] = "pending"

Insert(i, D, st) ==
    status' = [j \in Integration |->
        IF j \in D THEN "deleted" ELSE IF j = i THEN st ELSE status[j]]

(* Row i can connect vendor v: no other row connects the shop or has v.    *)
Connectable(i, D, v) ==
    \A j \in Integration \ ({i} \cup D) :
        /\ status[j] = "connected" => ShopOf[j] # ShopOf[i]
        /\ Present(j) /\ v # None => vendor[j] # v

(* A flow starts.                                                          *)
OpenFlow(i, D) ==
    /\ Replaces(i, D)
    /\ Insert(i, D, "pending")
    /\ UNCHANGED <<vendor, contested>>

(* A shop is connected without one.                                        *)
Connect(i, D, v) ==
    /\ Replaces(i, D)
    /\ Connectable(i, D, v)
    /\ Insert(i, D, "connected")
    /\ vendor' = [vendor EXCEPT ![i] = v]
    /\ UNCHANGED contested

(* A flow ends with a connection.                                          *)
Complete(i, v) ==
    /\ status[i] = "pending" \/ (ShopOf[i] \in contested /\ Present(i))
    /\ Connectable(i, {}, v)
    /\ status' = [status EXCEPT ![i] = "connected"]
    /\ vendor' = [vendor EXCEPT ![i] = v]
    /\ UNCHANGED contested

(* A connection ends, or a flow is given up.                               *)
Disconnect(i) ==
    /\ status[i] \in {"pending", "connected"}
    /\ status' = [status EXCEPT ![i] = "disconnected"]
    /\ UNCHANGED <<vendor, contested>>

(* Requests overlap; no row changes.                                       *)
Overlap ==
    /\ contested \subseteq contested' /\ contested' \subseteq Shop
    /\ UNCHANGED <<status, vendor>>

Next ==
    \/ Overlap
    \/ \E i \in Integration :
          \/ Disconnect(i)
          \/ \E D \in SUBSET Integration : OpenFlow(i, D)
          \/ \E v \in Vendor \cup {None} :
                Complete(i, v) \/ \E D \in SUBSET Integration : Connect(i, D, v)

Spec == Init /\ [][Next]_registry
=============================================================================
