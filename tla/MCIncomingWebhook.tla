------------------------- MODULE MCIncomingWebhook -------------------------
(* One instance of IncomingWebhook: two bodies that claim one event id,    *)
(* one whose type the processor does not take, one without a processor,    *)
(* one without an event id and one whose id is a number.                   *)
EXTENDS IncomingWebhook

CONSTANTS r1, r2, r3, paid, changed, parcel, ping, anonymous, numeric

MCRequest == {r1, r2, r3}
MCMessage == {paid, changed, parcel, ping, anonymous, numeric}
MCIdOf == [m \in MCMessage |->
    CASE m \in {paid, changed} -> "order1"
      [] m = parcel            -> "parcel1"
      [] m = ping              -> "ping1"
      [] m = anonymous         -> NoId
      [] m = numeric           -> "5"]
MCProcessor == [m \in MCMessage |->
    CASE m \in {paid, changed, anonymous, numeric} -> "handles"
      [] m = parcel -> "refuses"
      [] m = ping   -> "none"]
MCNumeric == {numeric}
=============================================================================
