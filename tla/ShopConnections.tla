-------------------------- MODULE ShopConnections --------------------------
(***************************************************************************)
(* How shops connect to the platform (IntegrationService: connect_shop,    *)
(* start_oauth, handle_oauth_callback, disconnect_shop, as the endpoints   *)
(* of api/v1/shops.py call them).  A request reads, talks to the platform  *)
(* and writes in one transaction at its end; other requests run in         *)
(* between, so what it has read may be out of date when it writes.  There  *)
(* is one platform, as in ConnectRequest.                                  *)
(***************************************************************************)
EXTENDS Naturals, FiniteSets

CONSTANTS Session,      \* requests being served, one after another in each
          Shop,
          Integration,  \* row ids of shop_integrations, each used once
          ShopOf,       \* ShopOf[i]: the shop a row belongs to
          Vendor,       \* vendor accounts of the platform
          Webhook,      \* webhook ids the platform gives out, each once
          None

ASSUME ConnectionAssumption ==
    /\ ShopOf \in [Integration -> Shop]
    /\ None \notin Integration \cup Vendor \cup Webhook \cup Shop

VARIABLES
    status,      \* of each row
    vendor,      \* external_shop_id
    webhook,     \* webhook_id
    hookStatus,  \* webhook_status
    registered,  \* the platform's side: the shop each webhook was made for
    states,      \* OAuth states in Redis, named by the row made with them
    req,         \* what each session is doing
    contested,   \* history: shops that two requests have served at once
    cut          \* and webhooks whose request never had their id to store

rows == <<status, vendor, webhook, hookStatus>>
history == <<contested, cut>>
vars == <<rows, registered, states, req, history>>

Status == {"absent", "pending", "connected", "disconnected", "deleted"}
HookStatus == {"not_registered", "active", "cleanup_failed"}

Request ==
    [op     : {"none", "connect", "start", "callback", "disconnect"},
     step   : {"idle", "find", "state", "write"},
     shop   : Shop \cup {None},
     row    : Integration \cup {None},
     ends   : BOOLEAN,
     cleans : BOOLEAN]

(* row: the integration a request has picked or found stale; ends, cleans: *)
(* whether its UPDATE of that row will have status and webhook_status.     *)
Idle == [op |-> "none", step |-> "idle", shop |-> None, row |-> None,
         ends |-> FALSE, cleans |-> FALSE]

TypeOK ==
    /\ status \in [Integration -> Status]
    /\ vendor \in [Integration -> Vendor \cup {None}]
    /\ webhook \in [Integration -> Webhook \cup {None}]
    /\ hookStatus \in [Integration -> HookStatus]
    /\ registered \in [Webhook -> Shop \cup {None}]
    /\ states \subseteq Integration
    /\ req \in [Session -> Request]
    /\ contested \subseteq Shop
    /\ cut \subseteq Webhook

Init ==
    /\ status = [i \in Integration |-> "absent"]
    /\ vendor = [i \in Integration |-> None]
    /\ webhook = [i \in Integration |-> None]
    /\ hookStatus = [i \in Integration |-> "not_registered"]
    /\ registered = [h \in Webhook |-> None]
    /\ states = {}
    /\ req = [s \in Session |-> Idle]
    /\ contested = {}
    /\ cut = {}

-----------------------------------------------------------------------------
(* Reads of the repository                                                 *)

Exists(i) == status[i] \notin {"absent", "deleted"}
Fresh(i) == status[i] = "absent"
RowsOf(sh) == {i \in Integration : ShopOf[i] = sh /\ Exists(i)}
ConnectedRows(sh) == {i \in RowsOf(sh) : status[i] = "connected"}
PendingRows_Any(sh) == RowsOf(sh)
PendingRows(sh) == {i \in RowsOf(sh) : status[i] = "pending"}

ActiveTaken_Never(i, gone) == FALSE

(* one_active_integration_per_shop: the partial unique index.  A row that  *)
(* the same transaction deletes does not count.                            *)
ActiveTaken(i, gone) == ConnectedRows(ShopOf[i]) \ {i, gone} # {}

VendorTaken_Connected(i, v, gone) ==
    v # None /\ \E j \in Integration \ {i, gone} : status[j] = "connected" /\ vendor[j] = v

(* uq_platform_shop.  The row of a shop that has been disconnected keeps   *)
(* its vendor, and the look-up that a callback makes for other shops       *)
(* before it writes refuses no more than this.                             *)
VendorTaken(i, v, gone) ==
    v # None /\ \E j \in Integration \ {i, gone} : Exists(j) /\ vendor[j] = v

Begin(s, r) ==
    /\ req[s] = Idle
    /\ req' = [req EXCEPT ![s] = r]
    /\ contested' = contested \cup {sh \in {r.shop} : \E t \in Session : req[t].shop = sh}
    /\ UNCHANGED cut

End(s) ==
    /\ req' = [req EXCEPT ![s] = Idle]
    /\ UNCHANGED contested

(* Registration is two calls.  The first makes the platform create an      *)
(* active webhook for the shop, or refuse; the second subscribes the       *)
(* vendor to it.  The request gets the id to store, got = hook, only if    *)
(* both are answered: otherwise the webhook lives on without it.           *)
Registers(s, hook, got) ==
    \/ hook = None /\ got = None /\ UNCHANGED <<registered, cut>>
    \/ /\ hook # None /\ got \in {hook, None}
       /\ registered[hook] = None
       /\ registered' = [registered EXCEPT ![hook] = req[s].shop]
       /\ cut' = IF got = hook THEN cut ELSE cut \cup {hook}

-----------------------------------------------------------------------------
(* connect_shop and start_oauth                                            *)

(* get_active_by_shop: a connected row answers 409.                        *)
StartConnect(s, sh, op) ==
    /\ ConnectedRows(sh) = {}
    /\ Begin(s, [Idle EXCEPT !.op = op, !.step = "find", !.shop = sh])
    /\ UNCHANGED <<rows, registered, states>>

(* get_pending_by_shop: the pending row of an abandoned flow, if any.  It  *)
(* uses scalar_one_or_none, so that two pending rows are an error.         *)
FindStale(s) ==
    /\ req[s].step = "find"
    /\ LET pending == PendingRows(req[s].shop) IN
       \/ Cardinality(pending) > 1 /\ End(s)
       \/ pending = {} /\ req' = [req EXCEPT ![s].step = "write"]
       \/ \E i \in Integration :
             pending = {i} /\ req' = [req EXCEPT ![s] = [@ EXCEPT !.step = "write", !.row = i]]
    /\ UNCHANGED <<rows, registered, states, history>>

Deletes_Nothing(s, i) == FALSE

(* The stale row is deleted by primary key, whatever its status is by now. *)
Deletes(s, i) == i = req[s].row

(* start_oauth: a new state goes to Redis and a pending row is inserted.   *)
CommitStart(s, i) ==
    /\ req[s].op = "start" /\ req[s].step = "write"
    /\ Fresh(i) /\ ShopOf[i] = req[s].shop
    /\ status' = [j \in Integration |->
          IF Deletes(s, j) THEN "deleted" ELSE IF j = i THEN "pending" ELSE status[j]]
    /\ states' = states \cup {i}
    /\ End(s)
    /\ UNCHANGED <<vendor, webhook, hookStatus, registered, history>>

(* connect_shop inserts a row i ...                                        *)
Inserts(s, i) ==
    /\ req[s].op = "connect" /\ req[s].step = "write"
    /\ Fresh(i) /\ ShopOf[i] = req[s].shop

(* ... and, when either call of the registration fails, the endpoint       *)
(* starts again without webhooks in the same transaction, where the        *)
(* look-up for stale rows takes the row of the first try and fails if it   *)
(* finds another one beside it.                                            *)
SecondTryFails(s, got) ==
    got = None /\ PendingRows(req[s].shop) \ {req[s].row} # {}

CommitConnect(s, i, v, hook, got) ==
    /\ Inserts(s, i)
    /\ ~VendorTaken(i, v, req[s].row)
    /\ ~ActiveTaken(i, req[s].row)
    /\ ~SecondTryFails(s, got)
    /\ status' = [j \in Integration |->
          IF Deletes(s, j) THEN "deleted" ELSE IF j = i THEN "connected" ELSE status[j]]
    /\ vendor' = [vendor EXCEPT ![i] = v]
    /\ webhook' = [webhook EXCEPT ![i] = got]
    /\ hookStatus' = [hookStatus EXCEPT ![i] =
          IF got = None THEN "not_registered" ELSE "active"]
    /\ Registers(s, hook, got)
    /\ End(s)
    /\ UNCHANGED states

ConnectFails_Eager(s, i, v, hook, got) ==
    /\ Inserts(s, i)
    /\ VendorTaken(i, v, req[s].row)
    /\ Registers(s, hook, got)
    /\ End(s)
    /\ UNCHANGED <<rows, states>>

(* The vendor is refused by the INSERT, before the platform is called; a   *)
(* row of the shop that was connected meanwhile only by the UPDATE after   *)
(* it, or by the look-up of the second try.  The roll back does not take   *)
(* the webhook back.                                                       *)
ConnectFails(s, i, v, hook, got) ==
    /\ Inserts(s, i)
    /\ IF VendorTaken(i, v, req[s].row)
       THEN UNCHANGED <<registered, cut>>
       ELSE /\ ActiveTaken(i, req[s].row) \/ SecondTryFails(s, got)
            /\ Registers(s, hook, got)
    /\ End(s)
    /\ UNCHANGED <<rows, states>>

-----------------------------------------------------------------------------
(* handle_oauth_callback                                                   *)

(* The state is read and, in a second call to Redis, deleted.              *)
StartCallback(s, i) ==
    /\ i \in states
    /\ Begin(s, [Idle EXCEPT !.op = "callback", !.step = "state",
                             !.shop = ShopOf[i], !.row = i])
    /\ UNCHANGED <<rows, registered, states>>

(* A state that another callback has deleted in between is as good as any. *)
(* The callback takes the first pending row of the shop, which need not be *)
(* the one its flow was started with.                                      *)
PickPending(s) ==
    /\ req[s].step = "state"
    /\ states' = states \ {req[s].row}
    /\ LET pending == PendingRows(req[s].shop) IN
       \/ pending = {} /\ End(s)
       \/ \E i \in pending :
             req' = [req EXCEPT ![s] = [@ EXCEPT !.step = "write", !.row = i]]
    /\ UNCHANGED <<rows, registered, history>>

Callback(s) == req[s].op = "callback" /\ req[s].step = "write"

(* The UPDATE sets the status whatever it is by now, unless the row is     *)
(* gone.  A registration that fails in either call is only noted, as       *)
(* "not_registered", and the webhook it may have made is not.              *)
CommitCallback(s, v, hook, got) ==
    LET i == req[s].row IN
    /\ Callback(s)
    /\ Exists(i) /\ ~VendorTaken(i, v, None) /\ ~ActiveTaken(i, None)
    /\ status' = [status EXCEPT ![i] = "connected"]
    /\ vendor' = [vendor EXCEPT ![i] = v]
    /\ webhook' = [webhook EXCEPT ![i] = IF got = None THEN @ ELSE got]
    /\ hookStatus' = [hookStatus EXCEPT ![i] =
          IF got = None THEN "not_registered" ELSE "active"]
    /\ Registers(s, hook, got)
    /\ End(s)
    /\ UNCHANGED states

(* The code cannot be exchanged, the user is no vendor, or the vendor, the *)
(* shop or the row itself is taken.                                        *)
CallbackFails(s) ==
    /\ Callback(s)
    /\ End(s)
    /\ UNCHANGED <<rows, registered, states, history>>

-----------------------------------------------------------------------------
(* disconnect_shop                                                         *)

(* The request names an integration, but only its platform is passed on:   *)
(* the first row of the shop is taken, whatever its status.  The connector *)
(* that should delete its webhook was never connected, so every try fails  *)
(* before it reaches the platform.  An attribute that already has the      *)
(* value to be written is left out of the UPDATE.                          *)
StartDisconnect(s, i) ==
    /\ Exists(i)
    /\ Begin(s, [op |-> "disconnect", step |-> "write", shop |-> ShopOf[i],
                 row |-> i,
                 ends   |-> status[i] # "disconnected",
                 cleans |-> webhook[i] # None /\ hookStatus[i] # "cleanup_failed"])
    /\ UNCHANGED <<rows, registered, states>>

Disconnecting(s) == req[s].op = "disconnect" /\ req[s].step = "write"

CommitDisconnect(s) ==
    LET i == req[s].row IN
    /\ Disconnecting(s)
    /\ Exists(i)
    /\ status' = [status EXCEPT ![i] =
          IF req[s].ends THEN "disconnected" ELSE @]
    /\ hookStatus' = [hookStatus EXCEPT ![i] =
          IF req[s].cleans THEN "cleanup_failed" ELSE @]
    /\ End(s)
    /\ UNCHANGED <<vendor, webhook, registered, states, history>>

DisconnectFails(s) ==
    /\ Disconnecting(s)
    /\ ~Exists(req[s].row)
    /\ End(s)
    /\ UNCHANGED <<rows, registered, states, history>>

-----------------------------------------------------------------------------
(* Environment                                                             *)

(* A state lives ten minutes.                                              *)
Expire(i) ==
    /\ i \in states
    /\ states' = states \ {i}
    /\ UNCHANGED <<rows, registered, req, history>>

(* The transaction is rolled back; a webhook that was registered stays.    *)
Crash(s, hook) ==
    /\ req[s] # Idle
    /\ hook # None => req[s].step = "write" /\ req[s].op \in {"connect", "callback"}
    /\ Registers(s, hook, None)
    /\ End(s)
    /\ UNCHANGED <<rows, states>>

Connect(s) ==
    \/ \E sh \in Shop, op \in {"connect", "start"} : StartConnect(s, sh, op)
    \/ FindStale(s)
    \/ \E i \in Integration : CommitStart(s, i)
    \/ \E i \in Integration, v \in Vendor \cup {None}, h \in Webhook \cup {None} :
       \E got \in {h, None} :
          CommitConnect(s, i, v, h, got) \/ ConnectFails(s, i, v, h, got)

HandleCallback(s) ==
    \/ \E i \in Integration : StartCallback(s, i)
    \/ PickPending(s)
    \/ \E v \in Vendor, h \in Webhook \cup {None} :
       \E got \in {h, None} : CommitCallback(s, v, h, got)
    \/ CallbackFails(s)

Disconnect(s) ==
    \/ \E i \in Integration : StartDisconnect(s, i)
    \/ CommitDisconnect(s)
    \/ DisconnectFails(s)

Next ==
    \/ \E s \in Session :
          \/ Connect(s) \/ HandleCallback(s) \/ Disconnect(s)
          \/ \E h \in Webhook \cup {None} : Crash(s, h)
    \/ \E i \in Integration : Expire(i)

Spec == Init /\ [][Next]_vars

-----------------------------------------------------------------------------
(* Properties                                                              *)

(***************************************************************************)
(* One integration per shop.  The check of connect_shop and start_oauth is *)
(* made on an old read, and a callback makes none: only the index keeps    *)
(* two overlapping flows, or a flow and one that was thought abandoned,    *)
(* from connecting the shop twice.                                         *)
(***************************************************************************)
OneActive == \A sh \in Shop : \A i, j \in ConnectedRows(sh) : i = j

(***************************************************************************)
(* A vendor account belongs to one integration, through connections and    *)
(* callbacks of several shops at once.                                     *)
(***************************************************************************)
VendorOnce ==
    \A i, j \in Integration :
        Exists(i) /\ Exists(j) /\ vendor[i] = vendor[j] /\ vendor[i] # None => i = j

(* Both, with everything interleaved. *)
ConnectedOnce == OneActive /\ VendorOnce

(***************************************************************************)
(* An abandoned flow does not block a new one, nor does it linger: a shop  *)
(* that no two requests have served at once has one pending or connected   *)
(* row at most, so get_pending_by_shop finds the stale one instead of      *)
(* failing.  Expired states, crashes, failed callbacks, disconnections of  *)
(* pending rows and whatever happens to other shops do not change that.    *)
(***************************************************************************)
OneOpen ==
    \A sh \in Shop \ contested :
        \A i, j \in ConnectedRows(sh) \cup PendingRows(sh) : i = j

(***************************************************************************)
(* A webhook id, once a request has it, is not lost.  Every webhook the    *)
(* platform delivers to is known to a row of the shop it was made for,     *)
(* which is what a later clean-up of webhooks would have to go by: unless  *)
(* two requests have served that shop at once, or the request that made it *)
(* never had its id to store, since the second call of the registration    *)
(* failed or the process died.                                             *)
(***************************************************************************)
WebhooksAreKnown ==
    \A h \in Webhook \ cut :
        registered[h] \notin {None} \cup contested =>
            \E i \in Integration :
                Exists(i) /\ ShopOf[i] = registered[h] /\ webhook[i] = h

(***************************************************************************)
(* The registry promised in ShopRegistry: whatever requests overlap, each  *)
(* commit opens one row in the place of the abandoned flow, completes or   *)
(* disconnects one, and what it may do wrong besides is excused only by an *)
(* overlap on that very shop.                                              *)
(***************************************************************************)
Registry == INSTANCE ShopRegistry
KeepsRegistry == Registry!Spec
=============================================================================
