----------------------- MODULE ShopConnectionsProofs -----------------------
(***************************************************************************)
(* Proofs about ShopConnections, for every number of sessions, shops, rows *)
(* and webhooks.  OneActive and VendorOnce rest on the two indexes alone;  *)
(* OneOpen and WebhooksAreKnown on what a request knows of its shop, as    *)
(* long as no other serves that shop too.                                  *)
(***************************************************************************)
EXTENDS ShopConnections, TLAPS

Opens(s) == req[s].op \in {"connect", "start"}

(* A row has no vendor and no webhook before its first connection.         *)
Blank ==
    \A i \in Integration :
        status[i] \in {"absent", "pending"} => vendor[i] = None /\ webhook[i] = None

Open(sh) == ConnectedRows(sh) \cup PendingRows(sh)

(* A request serves a shop, and a row it has picked is one of that shop.   *)
RequestShape ==
    \A s \in Session : req[s] # Idle =>
        /\ req[s].shop \in Shop
        /\ req[s].row # None => ShopOf[req[s].row] = req[s].shop
        /\ req[s].step = "find" => Opens(s) /\ req[s].row = None
        /\ req[s].step = "state" => req[s].op = "callback"

Undisturbed(s) == req[s] # Idle /\ req[s].shop \notin contested

OneRequest ==
    \A s, t \in Session : Undisturbed(s) /\ req[t].shop = req[s].shop => t = s

(* What a request has read is still so when no other has served its shop.  *)
Current(s) ==
    /\ Opens(s) => ConnectedRows(req[s].shop) = {}
    /\ Opens(s) /\ req[s].step = "write" =>
          /\ PendingRows(req[s].shop) \subseteq {req[s].row}
          /\ req[s].row # None => status[req[s].row] = "pending"
    /\ Callback(s) => req[s].row # None /\ status[req[s].row] = "pending"

ReadIsCurrent == \A s \in Session : Undisturbed(s) => Current(s)

Inv ==
    /\ TypeOK
    /\ Blank
    /\ OneActive
    /\ VendorOnce
    /\ RequestShape
    /\ OneRequest
    /\ ReadIsCurrent
    /\ OneOpen
    /\ WebhooksAreKnown

-----------------------------------------------------------------------------

LEMMA InvInit == Init => Inv
  BY ConnectionAssumption
     DEF Init, Inv, TypeOK, Request, Blank, OneActive, VendorOnce, RequestShape, OneRequest,
         ReadIsCurrent, Undisturbed, OneOpen, WebhooksAreKnown, Idle, Status, HookStatus,
         ConnectedRows, PendingRows, RowsOf, Exists

LEMMA RequestMoves ==
    ASSUME req \in [Session -> Request], NEW s \in Session
    PROVE  /\ [req EXCEPT ![s] = Idle] \in [Session -> Request]
           /\ [req EXCEPT ![s].step = "write"] \in [Session -> Request]
           /\ \A i \in Integration :
                [req EXCEPT ![s] = [@ EXCEPT !.step = "write", !.row = i]]
                  \in [Session -> Request]
<1> DEFINE r == req[s]
<1>1. Idle \in Request
  BY DEF Idle, Request
<1>2. r \in Request
  OBVIOUS
<1>3. [r EXCEPT !.step = "write"] \in Request
  BY <1>2 DEF Request
<1>4. \A i \in Integration : [r EXCEPT !.step = "write", !.row = i] \in Request
  BY <1>2 DEF Request
<1> QED BY <1>1, <1>3, <1>4

LEMMA TypeInv == TypeOK /\ RequestShape /\ [Next]_vars => TypeOK'
<1> SUFFICES ASSUME TypeOK, RequestShape, [Next]_vars PROVE TypeOK'
  OBVIOUS
<1> USE ConnectionAssumption DEF TypeOK, Status, HookStatus, Idle, rows, history, Registers
<1>1. ASSUME NEW s \in Session, Connect(s) PROVE TypeOK'
  <2>1. ASSUME NEW sh \in Shop, NEW op \in {"connect", "start"}, StartConnect(s, sh, op)
        PROVE  TypeOK'
    BY <2>1 DEF StartConnect, Begin, Request
  <2>2. ASSUME FindStale(s) PROVE TypeOK'
    <3>1. req' \in [Session -> Request]
      <4> HIDE DEF Idle, TypeOK
      <4>0. req \in [Session -> Request]
        BY DEF TypeOK
      <4>1. CASE End(s)
        BY <4>0, <4>1, RequestMoves DEF End
      <4>2. CASE req' = [req EXCEPT ![s].step = "write"]
        BY <4>0, <4>2, RequestMoves
      <4>3. ASSUME NEW i \in Integration,
                   req' = [req EXCEPT ![s] = [@ EXCEPT !.step = "write", !.row = i]]
            PROVE  req' \in [Session -> Request]
        BY <4>0, <4>3, RequestMoves
      <4> QED BY <2>2, <4>1, <4>2, <4>3 DEF FindStale
    <3> QED BY <2>2, <3>1 DEF FindStale
  <2>3. ASSUME NEW i \in Integration, CommitStart(s, i) PROVE TypeOK'
    BY <2>3 DEF CommitStart, End, Request
  <2>4. ASSUME NEW i \in Integration, NEW v \in Vendor \cup {None},
               NEW h \in Webhook \cup {None}, NEW got \in {h, None},
               CommitConnect(s, i, v, h, got) \/ ConnectFails(s, i, v, h, got)
        PROVE  TypeOK'
    <3>1. CASE CommitConnect(s, i, v, h, got)
      BY <2>4, <3>1 DEF CommitConnect, End, Request
    <3>2. CASE ConnectFails(s, i, v, h, got)
      BY <2>4, <3>2 DEF ConnectFails, End, Request
    <3> QED BY <2>4, <3>1, <3>2
  <2> QED BY <1>1, <2>1, <2>2, <2>3, <2>4 DEF Connect
<1>2. ASSUME NEW s \in Session, HandleCallback(s) PROVE TypeOK'
  <2>1. ASSUME NEW i \in Integration, StartCallback(s, i) PROVE TypeOK'
    <3> DEFINE r == [Idle EXCEPT !.op = "callback", !.step = "state",
                                 !.shop = ShopOf[i], !.row = i]
    <3>1. r \in Request /\ r.shop \in Shop
      BY DEF Request
    <3>2. /\ req' = [req EXCEPT ![s] = r]
          /\ contested' = contested \cup {sh \in {r.shop} : \E t \in Session : req[t].shop = sh}
          /\ UNCHANGED <<rows, registered, states, cut>>
      BY <2>1 DEF StartCallback, Begin
    <3> HIDE DEF r
    <3> QED BY <3>1, <3>2
  <2>2. ASSUME PickPending(s) PROVE TypeOK'
    <3>1. req' \in [Session -> Request]
      <4> HIDE DEF Idle, TypeOK
      <4>0. req \in [Session -> Request]
        BY DEF TypeOK
      <4>1. CASE End(s)
        BY <4>0, <4>1, RequestMoves DEF End
      <4>2. ASSUME NEW i \in Integration,
                   req' = [req EXCEPT ![s] = [@ EXCEPT !.step = "write", !.row = i]]
            PROVE  req' \in [Session -> Request]
        BY <4>0, <4>2, RequestMoves
      <4> QED BY <2>2, <4>1, <4>2 DEF PickPending, PendingRows, RowsOf
    <3> QED BY <2>2, <3>1 DEF PickPending
  <2>3. ASSUME NEW v \in Vendor, NEW h \in Webhook \cup {None}, NEW got \in {h, None},
               CommitCallback(s, v, h, got)
        PROVE  TypeOK'
    <3> DEFINE i == req[s].row
    <3>1. status' \in [Integration -> Status] /\ vendor' \in [Integration -> Vendor \cup {None}]
      BY <2>3 DEF CommitCallback
    <3>2. webhook' \in [Integration -> Webhook \cup {None}]
      BY <2>3 DEF CommitCallback
    <3>3. hookStatus' \in [Integration -> HookStatus]
      <4>1. hookStatus' = [hookStatus EXCEPT ![i] =
                IF got = None THEN "not_registered" ELSE "active"]
        BY <2>3 DEF CommitCallback
      <4> QED BY <4>1
    <3>4. registered' \in [Webhook -> Shop \cup {None}]
      BY <2>3 DEF CommitCallback, Request
    <3> QED BY <2>3, <3>1, <3>2, <3>3, <3>4 DEF CommitCallback, End, Request
  <2>4. ASSUME CallbackFails(s) PROVE TypeOK'
    BY <2>4 DEF CallbackFails, End, Request
  <2> QED BY <1>2, <2>1, <2>2, <2>3, <2>4 DEF HandleCallback
<1>3. ASSUME NEW s \in Session, Disconnect(s) PROVE TypeOK'
  <2>1. ASSUME NEW i \in Integration, StartDisconnect(s, i) PROVE TypeOK'
    BY <2>1 DEF StartDisconnect, Begin, Request
  <2>2. ASSUME CommitDisconnect(s) PROVE TypeOK'
    BY <2>2 DEF CommitDisconnect, End, Request
  <2>3. ASSUME DisconnectFails(s) PROVE TypeOK'
    BY <2>3 DEF DisconnectFails, End, Request
  <2> QED BY <1>3, <2>1, <2>2, <2>3 DEF Disconnect
<1>4. ASSUME NEW s \in Session, NEW h \in Webhook \cup {None}, Crash(s, h) PROVE TypeOK'
  BY <1>4 DEF Crash, End, Request, RequestShape
<1>5. ASSUME NEW i \in Integration, Expire(i) PROVE TypeOK'
  BY <1>5 DEF Expire
<1>6. ASSUME UNCHANGED vars PROVE TypeOK'
  BY <1>6 DEF vars
<1> QED BY <1>1, <1>2, <1>3, <1>4, <1>5, <1>6 DEF Next

-----------------------------------------------------------------------------
(* The indexes *)

RowFacts == Blank /\ OneActive /\ VendorOnce

(* A step that only deletes rows, or takes their connection away.          *)
LEMMA LessRows ==
    ASSUME TypeOK, RowFacts, UNCHANGED <<vendor, webhook>>,
           \A i \in Integration : status'[i] = status[i] \/ status'[i] \in {"deleted", "disconnected"},
           \A i \in Integration : Exists(i)' => Exists(i)
    PROVE  RowFacts'
  BY DEF RowFacts, Blank, OneActive, VendorOnce, ConnectedRows, RowsOf, Exists

LEMMA RowInv == TypeOK /\ RowFacts /\ [Next]_vars => RowFacts'
<1> SUFFICES ASSUME TypeOK, RowFacts, [Next]_vars PROVE RowFacts'
  OBVIOUS
<1> USE ConnectionAssumption
<1>0. ASSUME UNCHANGED rows PROVE RowFacts'
  BY <1>0, LessRows DEF rows, Exists
<1>1. ASSUME NEW s \in Session, Connect(s) PROVE RowFacts'
  <2>1. ASSUME NEW i \in Integration, CommitStart(s, i) PROVE RowFacts'
    BY <2>1 DEF CommitStart, Deletes, Fresh, RowFacts, Blank, OneActive, VendorOnce,
                ConnectedRows, RowsOf, Exists, TypeOK
  <2>2. ASSUME NEW i \in Integration, NEW v \in Vendor \cup {None},
               NEW h \in Webhook \cup {None}, NEW got \in {h, None},
               CommitConnect(s, i, v, h, got)
        PROVE  RowFacts'
    <3> DEFINE gone == req[s].row
    <3>1. /\ Fresh(i)
          /\ status' = [j \in Integration |->
                IF j = gone THEN "deleted" ELSE IF j = i THEN "connected" ELSE status[j]]
          /\ vendor' = [vendor EXCEPT ![i] = v]
          /\ webhook' = [webhook EXCEPT ![i] = got]
          /\ ~VendorTaken(i, v, gone) /\ ~ActiveTaken(i, gone)
      BY <2>2 DEF CommitConnect, Inserts, Deletes
    <3>2. Blank'
      BY <3>1 DEF RowFacts, Blank, TypeOK
    <3>3. OneActive'
      BY <3>1 DEF RowFacts, OneActive, ActiveTaken, ConnectedRows, RowsOf, Exists
    <3>4. VendorOnce'
      BY <3>1 DEF RowFacts, VendorOnce, VendorTaken, Exists, TypeOK
    <3> QED BY <3>2, <3>3, <3>4 DEF RowFacts
  <2>3. ASSUME NEW i \in Integration, NEW v \in Vendor \cup {None},
               NEW h \in Webhook \cup {None}, NEW got \in {h, None}, ConnectFails(s, i, v, h, got)
        PROVE  RowFacts'
    BY <1>0, <2>3 DEF ConnectFails
  <2>4. CASE \/ \E sh \in Shop, op \in {"connect", "start"} : StartConnect(s, sh, op)
             \/ FindStale(s)
    BY <1>0, <2>4 DEF StartConnect, FindStale, rows
  <2> QED BY <1>1, <2>1, <2>2, <2>3, <2>4 DEF Connect
<1>2. ASSUME NEW s \in Session, HandleCallback(s) PROVE RowFacts'
  <2>1. ASSUME NEW v \in Vendor, NEW h \in Webhook \cup {None}, NEW got \in {h, None},
               CommitCallback(s, v, h, got)
        PROVE  RowFacts'
    <3> DEFINE i == req[s].row
    <3>0. CASE i \in Integration
      <4>1. /\ Exists(i) /\ ~VendorTaken(i, v, None) /\ ~ActiveTaken(i, None)
            /\ status' = [status EXCEPT ![i] = "connected"]
            /\ vendor' = [vendor EXCEPT ![i] = v]
            /\ webhook' = [webhook EXCEPT ![i] = IF got = None THEN @ ELSE got]
        BY <2>1 DEF CommitCallback
      <4>2. Blank'
        BY <3>0, <4>1 DEF RowFacts, Blank, TypeOK
      <4>3. OneActive'
        BY <3>0, <4>1 DEF RowFacts, OneActive, ActiveTaken, ConnectedRows, RowsOf, Exists, TypeOK
      <4>4. VendorOnce'
        BY <3>0, <4>1 DEF RowFacts, VendorOnce, VendorTaken, Exists, TypeOK
      <4> QED BY <4>2, <4>3, <4>4 DEF RowFacts
    <3>1. CASE i \notin Integration
      <4>1. UNCHANGED rows
        BY <2>1, <3>1 DEF CommitCallback, rows, TypeOK
      <4> QED BY <1>0, <4>1
    <3> QED BY <3>0, <3>1
  <2> QED BY <1>0, <1>2, <2>1 DEF HandleCallback, StartCallback, PickPending, CallbackFails, rows
<1>3. ASSUME NEW s \in Session, Disconnect(s) PROVE RowFacts'
  <2>1. ASSUME CommitDisconnect(s) PROVE RowFacts'
    <3>1. /\ UNCHANGED <<vendor, webhook>>
          /\ \A i \in Integration : status'[i] \in {status[i], "disconnected"}
          /\ \A i \in Integration : Exists(i)' => Exists(i)
      BY <2>1 DEF CommitDisconnect, Exists, TypeOK
    <3> QED BY <3>1, LessRows
  <2> QED BY <1>0, <1>3, <2>1 DEF Disconnect, StartDisconnect, DisconnectFails, rows
<1> QED BY <1>0, <1>1, <1>2, <1>3 DEF Next, Crash, Expire, vars, rows

-----------------------------------------------------------------------------
(* One request at a time on a shop *)

ShopFacts == RequestShape /\ OneRequest /\ ReadIsCurrent /\ OneOpen /\ WebhooksAreKnown

OneOpenAt(sh) == \A i, j \in Open(sh) : i = j

KnownAt(sh) ==
    \A h \in Webhook \ cut : registered[h] = sh =>
        \E i \in Integration : Exists(i) /\ ShopOf[i] = sh /\ webhook[i] = h

LEMMA ShopByShop ==
    /\ OneOpen <=> \A sh \in Shop \ contested : OneOpenAt(sh)
    /\ TypeOK => (WebhooksAreKnown <=> \A sh \in Shop \ contested : KnownAt(sh))
  BY ConnectionAssumption DEF OneOpen, WebhooksAreKnown, OneOpenAt, KnownAt, Open, TypeOK

(* The rows and webhooks of a shop are as they were.                       *)
Untouched(sh) ==
    /\ cut \subseteq cut'
    /\ \A i \in Integration : ShopOf[i] = sh =>
          status'[i] = status[i] /\ webhook'[i] = webhook[i]
    /\ \A h \in Webhook : registered'[h] = sh => registered[h] = sh

LEMMA UntouchedStays ==
    ASSUME NEW sh, Untouched(sh)
    PROVE  /\ ConnectedRows(sh)' = ConnectedRows(sh)
           /\ PendingRows(sh)' = PendingRows(sh)
           /\ OneOpenAt(sh) => OneOpenAt(sh)'
           /\ KnownAt(sh) => KnownAt(sh)'
<1>1. ConnectedRows(sh)' = ConnectedRows(sh) /\ PendingRows(sh)' = PendingRows(sh)
  BY DEF Untouched, ConnectedRows, PendingRows, RowsOf, Exists
<1>2. OneOpenAt(sh) => OneOpenAt(sh)'
  BY <1>1 DEF OneOpenAt, Open
<1>3. KnownAt(sh) => KnownAt(sh)'
  BY DEF Untouched, KnownAt, Exists
<1> QED BY <1>1, <1>2, <1>3

(* What a request knows of an untouched shop stays true.                   *)
LEMMA CurrentStays ==
    ASSUME TypeOK, RequestShape, NEW t \in Session, req[t] # Idle, req'[t] = req[t],
           Untouched(req[t].shop), Current(t)
    PROVE  Current(t)'
<1>1. /\ ConnectedRows(req[t].shop)' = ConnectedRows(req[t].shop)
      /\ PendingRows(req[t].shop)' = PendingRows(req[t].shop)
  BY UntouchedStays
<1>2. req[t].row # None => status'[req[t].row] = status[req[t].row]
  BY DEF Untouched, RequestShape, TypeOK, Request
<1> QED BY <1>1, <1>2 DEF Current, Opens, Callback

(* A registration gives a webhook to the shop of the request only, and one *)
(* whose id it did not get is cut off.                                     *)
LEMMA RegisterCuts ==
    ASSUME registered \in [Webhook -> Shop \cup {None}], NEW s \in Session,
           NEW h \in Webhook \cup {None}, NEW got \in {h, None},
           Registers(s, h, got)
    PROVE  /\ cut \subseteq cut'
           /\ \A g \in Webhook : registered'[g] \in {registered[g], req[s].shop}
           /\ \A g \in Webhook \ ({got} \cup cut') : registered'[g] = registered[g]
  BY DEF Registers

(* A request ends.  It has touched no shop but its own, and left that with *)
(* one open row and every webhook known, unless another had served it too. *)
LEMMA Ends ==
    ASSUME TypeOK, TypeOK', ShopFacts, NEW s \in Session, req[s] # Idle, End(s),
           cut \subseteq cut',
           NEW own, own = req[s].shop,
           \A sh \in Shop \ {own} : Untouched(sh),
           own \notin contested => OneOpenAt(own)',
           own \notin contested => KnownAt(own)'
    PROVE  ShopFacts'
<1>1. /\ contested' = contested /\ req'[s] = Idle
      /\ \A t \in Session \ {s} : req'[t] = req[t]
  BY DEF End, TypeOK
<1>2. RequestShape'
  BY <1>1 DEF ShopFacts, RequestShape, Opens
<1>3. \A t \in Session : Undisturbed(t)' => Undisturbed(t) /\ t # s
  BY <1>1 DEF Undisturbed
<1>4. OneRequest'
  BY <1>1, <1>3, ConnectionAssumption DEF ShopFacts, OneRequest, RequestShape, Undisturbed, Idle
<1>5. ReadIsCurrent'
  <2> SUFFICES ASSUME NEW t \in Session, Undisturbed(t)' PROVE Current(t)'
    BY DEF ReadIsCurrent
  <2>1. Undisturbed(t) /\ t # s
    BY <1>3
  <2>2. req[t].shop \in Shop /\ req[s].shop # req[t].shop
    BY <2>1 DEF ShopFacts, OneRequest, RequestShape, Undisturbed
  <2>3. Untouched(req[t].shop) /\ Current(t)
    BY <2>1, <2>2 DEF ShopFacts, ReadIsCurrent
  <2> QED BY <1>1, <2>1, <2>3, CurrentStays DEF ShopFacts, Undisturbed
<1>6. ASSUME NEW sh \in Shop \ contested PROVE OneOpenAt(sh)'
  <2>1. OneOpenAt(sh)
    BY ShopByShop DEF ShopFacts
  <2> QED BY <2>1, UntouchedStays
<1>7. ASSUME NEW sh \in Shop \ contested PROVE KnownAt(sh)'
  <2>1. KnownAt(sh)
    BY ShopByShop DEF ShopFacts
  <2> QED BY <2>1, UntouchedStays
<1>8. OneOpen' <=> \A sh \in Shop \ contested' : OneOpenAt(sh)'
  BY DEF OneOpen, OneOpenAt, Open
<1>9. WebhooksAreKnown' <=> \A sh \in Shop \ contested' : KnownAt(sh)'
  BY ConnectionAssumption DEF WebhooksAreKnown, KnownAt, TypeOK
<1> QED BY <1>1, <1>2, <1>4, <1>5, <1>6, <1>7, <1>8, <1>9 DEF ShopFacts

(* It ends and leaves the rows as they were.                               *)
LEMMA EndsIdly ==
    ASSUME TypeOK, TypeOK', ShopFacts, NEW s \in Session, req[s] # Idle, End(s),
           UNCHANGED rows, cut \subseteq cut',
           \A h \in Webhook : registered'[h] \in {registered[h], req[s].shop},
           req[s].shop \notin contested =>
              \A h \in Webhook \ cut' : registered'[h] = registered[h]
    PROVE  ShopFacts'
<1> DEFINE own == req[s].shop
<1>1. /\ own \in Shop /\ own = req[s].shop
      /\ own \notin contested => \A h \in Webhook \ cut' : registered'[h] = registered[h]
  BY DEF ShopFacts, RequestShape
<1>2. \A sh \in Shop \ {own} : Untouched(sh)
  BY DEF Untouched, rows
<1>3. PICK sh \in Shop : sh = own
  BY <1>1
<1>4. ASSUME sh \notin contested PROVE OneOpenAt(sh)'
  <2>1. OneOpenAt(sh)
    BY <1>4, ShopByShop DEF ShopFacts
  <2> QED BY <2>1 DEF OneOpenAt, Open, ConnectedRows, PendingRows, RowsOf, Exists, rows
<1>5. ASSUME sh \notin contested PROVE KnownAt(sh)'
  <2>1. KnownAt(sh)
    BY <1>5, ShopByShop DEF ShopFacts
  <2>2. \A h \in Webhook \ cut' : registered'[h] = registered[h]
    BY <1>1, <1>3, <1>5
  <2> QED BY <2>1, <2>2 DEF KnownAt, Exists, rows
<1> HIDE DEF own
<1> QED BY <1>1, <1>2, <1>3, <1>4, <1>5, Ends

(* A request begins.  Its first step has read nothing but that its shop is *)
(* not connected, or the row it will write.                                *)
LEMMA Begins ==
    ASSUME TypeOK, TypeOK', ShopFacts, NEW s \in Session, NEW r, Begin(s, r), r # Idle,
           UNCHANGED <<rows, registered>>,
           r.shop \in Shop,
           r.row # None => ShopOf[r.row] = r.shop,
           r.op \in {"connect", "start"} =>
              r.step = "find" /\ ConnectedRows(r.shop) = {},
           r.step = "find" => r.op \in {"connect", "start"} /\ r.row = None,
           r.step = "state" => r.op = "callback",
           ~(r.op = "callback" /\ r.step = "write")
    PROVE  ShopFacts'
<1>1. /\ req'[s] = r /\ \A t \in Session \ {s} : req'[t] = req[t]
      /\ contested \subseteq contested' /\ cut' = cut
      /\ r.shop \notin contested' => \A t \in Session : req[t].shop # r.shop
  BY DEF Begin, TypeOK
<1>2. RequestShape'
  BY <1>1 DEF ShopFacts, RequestShape, Opens
<1>3. \A t \in Session \ {s} : Undisturbed(t)' => Undisturbed(t) /\ req[t].shop # r.shop
  BY <1>1 DEF Undisturbed, Begin
<1>4. OneRequest'
  BY <1>1, <1>3 DEF ShopFacts, OneRequest, Undisturbed
<1>5. ASSUME NEW sh PROVE Untouched(sh)
  BY <1>1 DEF Untouched, rows
<1>6. ReadIsCurrent'
  <2> SUFFICES ASSUME NEW t \in Session, Undisturbed(t)' PROVE Current(t)'
    BY DEF ReadIsCurrent
  <2>1. CASE t = s
    <3>1. ConnectedRows(r.shop)' = ConnectedRows(r.shop)
      BY <1>5, UntouchedStays
    <3> QED BY <1>1, <2>1, <3>1 DEF Current, Opens, Callback
  <2>2. CASE t # s
    BY <1>1, <1>3, <1>5, <2>2, CurrentStays DEF ShopFacts, ReadIsCurrent, Undisturbed
  <2> QED BY <2>1, <2>2
<1>7. OneOpen' /\ WebhooksAreKnown'
  BY <1>1 DEF ShopFacts, OneOpen, WebhooksAreKnown, ConnectedRows, PendingRows, RowsOf,
              Exists, rows
<1> QED BY <1>2, <1>4, <1>6, <1>7 DEF ShopFacts

(* A request has read what it needs and goes on to write.                  *)
LEMMA ReadsOn ==
    ASSUME TypeOK, TypeOK', ShopFacts, NEW s \in Session, req[s] # Idle, NEW r,
           req' = [req EXCEPT ![s] = r], r.step = "write", r.shop = req[s].shop,
           UNCHANGED <<rows, registered, history>>,
           r.row # None => ShopOf[r.row] = r.shop,
           Undisturbed(s) =>
              /\ r.op \in {"connect", "start"} =>
                    /\ ConnectedRows(r.shop) = {}
                    /\ PendingRows(r.shop) \subseteq {r.row}
                    /\ r.row # None => status[r.row] = "pending"
              /\ r.op = "callback" => r.row # None /\ status[r.row] = "pending"
    PROVE  ShopFacts'
<1>1. /\ req'[s] = r /\ \A t \in Session \ {s} : req'[t] = req[t]
      /\ contested' = contested /\ cut' = cut
  BY DEF TypeOK, history
<1>2. RequestShape'
  BY <1>1 DEF ShopFacts, RequestShape, Opens
<1>3. \A t \in Session : Undisturbed(t)' => Undisturbed(t)
  BY <1>1 DEF Undisturbed
<1>4. OneRequest'
  BY <1>1, <1>3 DEF ShopFacts, OneRequest
<1>5. ASSUME NEW sh PROVE Untouched(sh)
  BY <1>1 DEF Untouched, rows
<1>6. ReadIsCurrent'
  <2> SUFFICES ASSUME NEW t \in Session, Undisturbed(t)' PROVE Current(t)'
    BY DEF ReadIsCurrent
  <2>1. CASE t = s
    <3>1. /\ ConnectedRows(r.shop)' = ConnectedRows(r.shop)
          /\ PendingRows(r.shop)' = PendingRows(r.shop)
      BY <1>5, UntouchedStays
    <3>2. Undisturbed(s) /\ status' = status
      BY <1>3, <2>1 DEF rows
    <3> QED BY <1>1, <2>1, <3>1, <3>2 DEF Current, Opens, Callback
  <2>2. CASE t # s
    BY <1>1, <1>3, <1>5, <2>2, CurrentStays DEF ShopFacts, ReadIsCurrent, Undisturbed
  <2> QED BY <2>1, <2>2
<1>7. OneOpen' /\ WebhooksAreKnown'
  BY <1>1 DEF ShopFacts, OneOpen, WebhooksAreKnown, ConnectedRows, PendingRows, RowsOf,
              Exists, rows
<1> QED BY <1>2, <1>4, <1>6, <1>7 DEF ShopFacts

(* What a request that opens a row of shop sh knows when it writes: there  *)
(* is no open row but the one it deletes.                                  *)
OpenBecomes(sh, gone) ==
    /\ ConnectedRows(sh) = {}
    /\ PendingRows(sh) \subseteq {gone}
    /\ gone # None => status[gone] = "pending"

LEMMA OneOpens ==
    ASSUME NEW i \in Integration, NEW gone, NEW new \in Status,
           OpenBecomes(ShopOf[i], gone),
           status' = [j \in Integration |->
              IF j = gone THEN "deleted" ELSE IF j = i THEN new ELSE status[j]]
    PROVE  OneOpenAt(ShopOf[i])'
<1> SUFFICES ASSUME NEW x \in Open(ShopOf[i])' PROVE x = i
  BY DEF OneOpenAt, Open, ConnectedRows, PendingRows, RowsOf, Exists
<1>1. /\ x \in Integration /\ ShopOf[x] = ShopOf[i]
      /\ status'[x] \in {"connected", "pending"}
  BY DEF Open, ConnectedRows, PendingRows, RowsOf, Exists
<1>2. x # gone /\ status'[x] = IF x = i THEN new ELSE status[x]
  BY <1>1
<1>3. ASSUME x # i PROVE FALSE
  <2>1. status[x] \in {"connected", "pending"}
    BY <1>1, <1>2, <1>3
  <2>2. x \in Open(ShopOf[i])
    BY <1>1, <2>1 DEF Open, ConnectedRows, PendingRows, RowsOf, Exists
  <2> QED BY <1>2, <2>2 DEF OpenBecomes, Open
<1> QED BY <1>3

LEMMA KeepsWebhooks ==
    ASSUME TypeOK, Blank, NEW i \in Integration, NEW gone,
           KnownAt(ShopOf[i]),
           NEW got \in Webhook \cup {None}, NEW new \in {"pending", "connected"},
           status[i] = "absent", OpenBecomes(ShopOf[i], gone),
           status' = [j \in Integration |->
              IF j = gone THEN "deleted" ELSE IF j = i THEN new ELSE status[j]],
           webhook' = [webhook EXCEPT ![i] = got],
           cut \subseteq cut',
           \A g \in Webhook \ ({got} \cup cut') : registered'[g] = registered[g]
    PROVE  KnownAt(ShopOf[i])'
<1> SUFFICES ASSUME NEW g \in Webhook \ cut', registered'[g] = ShopOf[i]
             PROVE  \E j \in Integration :
                       Exists(j)' /\ ShopOf[j] = ShopOf[i] /\ webhook'[j] = g
  BY DEF KnownAt
<1>1. i # gone
  BY ConnectionAssumption DEF OpenBecomes, TypeOK
<1>2. CASE g = got
  BY <1>1, <1>2 DEF Exists, TypeOK
<1>3. CASE g # got
  <2>1. registered[g] = ShopOf[i] /\ g # None
    BY <1>3, ConnectionAssumption
  <2>2. PICK j \in Integration : Exists(j) /\ ShopOf[j] = ShopOf[i] /\ webhook[j] = g
    BY <2>1 DEF KnownAt
  <2>3. j # i /\ j # gone
    BY <2>1, <2>2, ConnectionAssumption DEF Blank, OpenBecomes, Exists
  <2> QED BY <2>2, <2>3 DEF Exists, TypeOK
<1> QED BY <1>2, <1>3

(* A request that has found its shop unconnected opens row i in place of   *)
(* the row it has found stale.                                             *)
LEMMA OpensRow ==
    ASSUME TypeOK, TypeOK', RowFacts, ShopFacts, NEW s \in Session, NEW i \in Integration,
           NEW h \in Webhook \cup {None}, NEW got \in {h, None},
           NEW new \in {"pending", "connected"},
           Opens(s), req[s].step = "write", End(s), Fresh(i), ShopOf[i] = req[s].shop,
           status' = [j \in Integration |->
              IF j = req[s].row THEN "deleted" ELSE IF j = i THEN new ELSE status[j]],
           webhook' = [webhook EXCEPT ![i] = got],
           Registers(s, h, got)
    PROVE  ShopFacts'
<1>1. req[s] # Idle /\ ShopOf[i] \in Shop /\ cut \subseteq cut'
  <2>1. cut \subseteq cut'
    BY RegisterCuts DEF TypeOK
  <2> QED BY <2>1, ConnectionAssumption DEF Opens, Idle
<1>2. \A sh \in Shop \ {req[s].shop} : Untouched(sh)
  <2>1. req[s].row # None => ShopOf[req[s].row] = req[s].shop
    BY <1>1 DEF ShopFacts, RequestShape
  <2>2. \A j \in Integration : ShopOf[j] # req[s].shop => j # i /\ j # req[s].row
    BY <2>1, ConnectionAssumption
  <2>3. \A g \in Webhook : registered'[g] \in {registered[g], req[s].shop}
    BY RegisterCuts DEF TypeOK
  <2> QED BY <1>1, <2>2, <2>3 DEF Untouched, TypeOK
<1>3. ASSUME req[s].shop \notin contested
      PROVE  OpenBecomes(ShopOf[i], req[s].row)
  BY <1>1, <1>3 DEF ShopFacts, ReadIsCurrent, Undisturbed, Current, OpenBecomes
<1>4. ShopOf[i] \notin contested => OneOpenAt(ShopOf[i])'
  BY <1>3, OneOpens DEF Status
<1>5. ShopOf[i] \notin contested => KnownAt(ShopOf[i])'
  <2> SUFFICES ASSUME ShopOf[i] \notin contested
               PROVE  KnownAt(ShopOf[i])'
    OBVIOUS
  <2>1. KnownAt(ShopOf[i]) /\ OpenBecomes(ShopOf[i], req[s].row)
    BY <1>1, <1>3, ShopByShop DEF ShopFacts
  <2>2. Blank /\ status[i] = "absent"
    BY DEF RowFacts, Fresh
  <2>3. \A g \in Webhook \ ({got} \cup cut') : registered'[g] = registered[g]
    BY RegisterCuts DEF TypeOK
  <2> QED BY <1>1, <2>1, <2>2, <2>3, KeepsWebhooks
<1> QED BY <1>1, <1>2, <1>4, <1>5, Ends

LEMMA ShopInv == TypeOK /\ TypeOK' /\ RowFacts /\ ShopFacts /\ [Next]_vars => ShopFacts'
<1> SUFFICES ASSUME TypeOK, TypeOK', RowFacts, ShopFacts, [Next]_vars PROVE ShopFacts'
  OBVIOUS
<1> USE ConnectionAssumption
<1>0. ASSUME NEW s \in Session, req[s] # Idle, End(s), UNCHANGED <<rows, registered, cut>>
      PROVE  ShopFacts'
  BY <1>0, EndsIdly
<1>1. ASSUME NEW s \in Session, Connect(s) PROVE ShopFacts'
  <2>1. ASSUME NEW sh \in Shop, NEW op \in {"connect", "start"}, StartConnect(s, sh, op)
        PROVE  ShopFacts'
    <3> DEFINE r == [Idle EXCEPT !.op = op, !.step = "find", !.shop = sh]
    <3>1. r.op = op /\ r.step = "find" /\ r.shop = sh /\ r.row = None /\ r # Idle
      BY DEF Idle
    <3> HIDE DEF r
    <3>2. Begin(s, r) /\ UNCHANGED <<rows, registered>> /\ ConnectedRows(sh) = {}
      BY <2>1 DEF StartConnect, r
    <3> QED BY <3>1, <3>2, Begins
  <2>2. ASSUME FindStale(s) PROVE ShopFacts'
    <3>0. req[s].step = "find" /\ UNCHANGED <<rows, registered, history>>
      BY <2>2 DEF FindStale
    <3>1. req[s] # Idle
      BY <3>0 DEF Idle
    <3>2. CASE End(s)
      BY <1>0, <3>0, <3>1, <3>2 DEF history
    <3>3. /\ Opens(s) /\ req[s].row = None
          /\ Undisturbed(s) => ConnectedRows(req[s].shop) = {}
      BY <3>0, <3>1 DEF ShopFacts, RequestShape, ReadIsCurrent, Current
    <3> HIDE DEF Idle
    <3>4. CASE PendingRows(req[s].shop) = {} /\ req' = [req EXCEPT ![s].step = "write"]
      <4> DEFINE r == [req[s] EXCEPT !.step = "write"]
      <4>1. /\ r.op = req[s].op /\ r.shop = req[s].shop /\ r.row = req[s].row
            /\ r.step = "write" /\ req' = [req EXCEPT ![s] = r]
        BY <3>4 DEF TypeOK, Request
      <4> HIDE DEF r
      <4>2. /\ Undisturbed(s) => ConnectedRows(r.shop) = {}
            /\ PendingRows(r.shop) \subseteq {r.row}
            /\ r.row = None /\ r.op # "callback"
        BY <3>3, <3>4, <4>1 DEF Opens
      <4> QED BY <3>0, <3>1, <4>1, <4>2, ReadsOn
    <3>5. ASSUME NEW i \in Integration, PendingRows(req[s].shop) = {i},
                 req' = [req EXCEPT ![s] = [@ EXCEPT !.step = "write", !.row = i]]
          PROVE  ShopFacts'
      <4> DEFINE r == [req[s] EXCEPT !.step = "write", !.row = i]
      <4>1. /\ r.op = req[s].op /\ r.shop = req[s].shop /\ r.row = i
            /\ r.step = "write" /\ req' = [req EXCEPT ![s] = r]
        BY <3>5 DEF TypeOK, Request
      <4>2. status[i] = "pending" /\ ShopOf[i] = req[s].shop
        BY <3>5 DEF PendingRows, RowsOf
      <4> HIDE DEF r
      <4>3. /\ Undisturbed(s) => ConnectedRows(r.shop) = {}
            /\ PendingRows(r.shop) \subseteq {r.row}
            /\ status[r.row] = "pending" /\ ShopOf[r.row] = r.shop /\ r.op # "callback"
        BY <3>3, <3>5, <4>1, <4>2 DEF Opens
      <4> QED BY <3>0, <3>1, <4>1, <4>3, ReadsOn
    <3> QED BY <2>2, <3>2, <3>4, <3>5 DEF FindStale
  <2>3. ASSUME NEW i \in Integration, CommitStart(s, i) PROVE ShopFacts'
    <3>1. /\ Opens(s) /\ req[s].step = "write" /\ End(s)
          /\ Fresh(i) /\ ShopOf[i] = req[s].shop
          /\ status' = [j \in Integration |->
                IF j = req[s].row THEN "deleted" ELSE IF j = i THEN "pending" ELSE status[j]]
          /\ webhook' = webhook /\ registered' = registered /\ cut' = cut
      BY <2>3 DEF CommitStart, Deletes, Opens, history
    <3>2. webhook' = [webhook EXCEPT ![i] = None]
      BY <3>1 DEF RowFacts, Blank, Fresh, TypeOK
    <3>3. Registers(s, None, None)
      BY <3>1 DEF Registers
    <3> QED BY <3>1, <3>2, <3>3, OpensRow
  <2>4. ASSUME NEW i \in Integration, NEW v \in Vendor \cup {None},
               NEW h \in Webhook \cup {None}, NEW got \in {h, None},
               CommitConnect(s, i, v, h, got)
        PROVE  ShopFacts'
    <3>1. /\ Opens(s) /\ req[s].step = "write" /\ End(s)
          /\ Fresh(i) /\ ShopOf[i] = req[s].shop
          /\ status' = [j \in Integration |->
                IF j = req[s].row THEN "deleted" ELSE IF j = i THEN "connected" ELSE status[j]]
          /\ webhook' = [webhook EXCEPT ![i] = got]
          /\ Registers(s, h, got)
      BY <2>4 DEF CommitConnect, Inserts, Deletes, Opens, history
    <3> QED BY <3>1, OpensRow
  <2>5. ASSUME NEW i \in Integration, NEW v \in Vendor \cup {None},
               NEW h \in Webhook \cup {None}, NEW got \in {h, None},
               ConnectFails(s, i, v, h, got)
        PROVE  ShopFacts'
    <3>1. /\ req[s] # Idle /\ End(s) /\ ShopOf[i] = req[s].shop /\ Opens(s)
          /\ UNCHANGED rows
      BY <2>5 DEF ConnectFails, Inserts, Idle, Opens
    <3>2. Undisturbed(s) => ~ActiveTaken(i, req[s].row)
      BY <3>1 DEF ActiveTaken, ShopFacts, ReadIsCurrent, Current
    <3>3. /\ cut \subseteq cut'
          /\ \A g \in Webhook : registered'[g] \in {registered[g], req[s].shop}
      BY <2>5, RegisterCuts DEF ConnectFails, TypeOK
    <3>4. Undisturbed(s) => \A g \in Webhook \ cut' : registered'[g] = registered[g]
      <4>1. Undisturbed(s) => got = None \/ UNCHANGED registered
        BY <2>5, <3>2 DEF ConnectFails, SecondTryFails
      <4> QED BY <2>5, <4>1, RegisterCuts, ConnectionAssumption DEF ConnectFails, TypeOK
    <3> QED BY <3>1, <3>3, <3>4, EndsIdly DEF Undisturbed
  <2> QED BY <1>1, <2>1, <2>2, <2>3, <2>4, <2>5 DEF Connect
<1>2. ASSUME NEW s \in Session, HandleCallback(s) PROVE ShopFacts'
  <2>1. ASSUME NEW i \in Integration, StartCallback(s, i) PROVE ShopFacts'
    <3> DEFINE r == [Idle EXCEPT !.op = "callback", !.step = "state",
                                 !.shop = ShopOf[i], !.row = i]
    <3>1. /\ r.op = "callback" /\ r.step = "state" /\ r.shop = ShopOf[i] /\ r.row = i
          /\ r # Idle
      BY DEF Idle
    <3> HIDE DEF r
    <3>2. Begin(s, r) /\ UNCHANGED <<rows, registered>>
      BY <2>1 DEF StartCallback, r
    <3> QED BY <3>1, <3>2, Begins
  <2>2. ASSUME PickPending(s) PROVE ShopFacts'
    <3>0. req[s].step = "state" /\ UNCHANGED <<rows, registered, history>>
      BY <2>2 DEF PickPending
    <3>1. req[s] # Idle
      BY <3>0 DEF Idle
    <3>2. CASE End(s)
      BY <1>0, <3>0, <3>1, <3>2 DEF history
    <3>3. req[s].op = "callback"
      BY <3>0, <3>1 DEF ShopFacts, RequestShape
    <3> HIDE DEF Idle
    <3>4. ASSUME NEW i \in PendingRows(req[s].shop),
                 req' = [req EXCEPT ![s] = [@ EXCEPT !.step = "write", !.row = i]]
          PROVE  ShopFacts'
      <4> DEFINE r == [req[s] EXCEPT !.step = "write", !.row = i]
      <4>1. /\ r.op = req[s].op /\ r.row = i /\ r.shop = req[s].shop
            /\ r.step = "write" /\ req' = [req EXCEPT ![s] = r]
        BY <3>4 DEF TypeOK, Request
      <4>2. i # None /\ status[i] = "pending" /\ ShopOf[i] = req[s].shop
        BY <3>4 DEF PendingRows, RowsOf
      <4> HIDE DEF r
      <4> QED BY <3>0, <3>1, <3>3, <4>1, <4>2, ReadsOn
    <3> QED BY <2>2, <3>2, <3>4 DEF PickPending
  <2>3. ASSUME NEW v \in Vendor, NEW h \in Webhook \cup {None}, NEW got \in {h, None},
               CommitCallback(s, v, h, got)
        PROVE  ShopFacts'
    <3> DEFINE i == req[s].row
    <3>1. /\ req[s] # Idle /\ End(s) /\ Callback(s) /\ Exists(i)
          /\ status' = [status EXCEPT ![i] = "connected"]
          /\ webhook' = [webhook EXCEPT ![i] = IF got = None THEN @ ELSE got]
          /\ Registers(s, h, got) /\ cut \subseteq cut'
      BY <2>3, RegisterCuts DEF CommitCallback, Callback, Idle, TypeOK
    <3>2. req[s].shop \in Shop /\ (i # None => ShopOf[i] = req[s].shop)
      BY <3>1 DEF ShopFacts, RequestShape
    <3>3. \A sh \in Shop \ {req[s].shop} : Untouched(sh)
      <4>1. \A j \in Integration : ShopOf[j] # req[s].shop => j # i
        BY <3>2
      <4>2. \A g \in Webhook : registered'[g] \in {registered[g], req[s].shop}
        BY <3>1, RegisterCuts DEF TypeOK
      <4> QED BY <3>1, <4>1, <4>2 DEF Untouched, TypeOK
    <3>4. ASSUME req[s].shop \notin contested
          PROVE  i \in Integration /\ ShopOf[i] = req[s].shop /\ status[i] = "pending"
      BY <3>1, <3>2, <3>4
         DEF ShopFacts, ReadIsCurrent, Undisturbed, Current, TypeOK, Request
    <3>5. PICK sh \in Shop : sh = req[s].shop
      BY <3>2
    <3>6. ASSUME sh \notin contested PROVE OneOpenAt(sh)'
      <4>1. OneOpenAt(sh) /\ i \in Open(sh)
        BY <3>4, <3>5, <3>6, ShopByShop
           DEF ShopFacts, Open, PendingRows, RowsOf, Exists
      <4>2. \A j \in Open(sh)' : j \in Open(sh)
        BY <3>1, <4>1 DEF Open, ConnectedRows, PendingRows, RowsOf, Exists, TypeOK
      <4> QED BY <4>1, <4>2 DEF OneOpenAt
    <3>7. ASSUME sh \notin contested PROVE KnownAt(sh)'
      <4> SUFFICES ASSUME NEW g \in Webhook \ cut', registered'[g] = sh
                   PROVE  \E j \in Integration :
                             Exists(j)' /\ ShopOf[j] = sh /\ webhook'[j] = g
        BY DEF KnownAt
      <4>1. i \in Integration /\ ShopOf[i] = sh /\ status[i] = "pending" /\ webhook[i] = None
        BY <3>4, <3>5, <3>7 DEF RowFacts, Blank
      <4>2. CASE g = got
        BY <3>1, <4>1, <4>2, ConnectionAssumption DEF Exists, TypeOK
      <4>3. CASE g # got
        <5>1. registered[g] = sh /\ g \notin {None} \cup cut
          BY <3>1, <4>3, RegisterCuts, ConnectionAssumption DEF TypeOK
        <5>2. PICK j \in Integration : Exists(j) /\ ShopOf[j] = sh /\ webhook[j] = g
          BY <3>7, <5>1, ShopByShop DEF ShopFacts, KnownAt
        <5>3. j # i
          BY <4>1, <5>1, <5>2
        <5> QED BY <3>1, <5>2, <5>3 DEF Exists, TypeOK
      <4> QED BY <4>2, <4>3
    <3> QED BY <3>1, <3>3, <3>5, <3>6, <3>7, Ends
  <2>4. ASSUME CallbackFails(s) PROVE ShopFacts'
    <3>1. req[s] # Idle
      BY <2>4 DEF CallbackFails, Callback, Idle
    <3> QED BY <1>0, <2>4, <3>1 DEF CallbackFails, history
  <2> QED BY <1>2, <2>1, <2>2, <2>3, <2>4 DEF HandleCallback
<1>3. ASSUME NEW s \in Session, Disconnect(s) PROVE ShopFacts'
  <2>1. ASSUME NEW i \in Integration, StartDisconnect(s, i) PROVE ShopFacts'
    <3> DEFINE r == [op |-> "disconnect", step |-> "write", shop |-> ShopOf[i], row |-> i,
                     ends   |-> status[i] # "disconnected",
                     cleans |-> webhook[i] # None /\ hookStatus[i] # "cleanup_failed"]
    <3>1. /\ r.op = "disconnect" /\ r.step = "write" /\ r.shop = ShopOf[i] /\ r.row = i
          /\ r # Idle
      BY DEF Idle
    <3> HIDE DEF r
    <3>2. Begin(s, r) /\ UNCHANGED <<rows, registered>>
      BY <2>1 DEF StartDisconnect, r
    <3> QED BY <3>1, <3>2, Begins
  <2>2. ASSUME CommitDisconnect(s) PROVE ShopFacts'
    <3> DEFINE i == req[s].row
    <3>1. /\ req[s] # Idle /\ End(s) /\ Exists(i)
          /\ status' = [status EXCEPT ![i] = IF req[s].ends THEN "disconnected" ELSE @]
          /\ UNCHANGED <<webhook, registered, cut>>
      BY <2>2 DEF CommitDisconnect, Disconnecting, Idle, history
    <3>2. req[s].shop \in Shop /\ (i # None => ShopOf[i] = req[s].shop)
      BY <3>1 DEF ShopFacts, RequestShape
    <3>3. \A sh \in Shop \ {req[s].shop} : Untouched(sh)
      BY <3>1, <3>2 DEF Untouched, TypeOK
    <3>4. PICK sh \in Shop : sh = req[s].shop
      BY <3>2
    <3>5. ASSUME sh \notin contested PROVE OneOpenAt(sh)'
      <4>1. OneOpenAt(sh)
        BY <3>5, ShopByShop DEF ShopFacts
      <4>2. \A j \in Open(sh)' : j \in Open(sh)
        BY <3>1 DEF Open, ConnectedRows, PendingRows, RowsOf, Exists, TypeOK
      <4> QED BY <4>1, <4>2 DEF OneOpenAt
    <3>6. ASSUME sh \notin contested PROVE KnownAt(sh)'
      <4>1. KnownAt(sh)
        BY <3>6, ShopByShop DEF ShopFacts
      <4> QED BY <3>1, <4>1 DEF KnownAt, Exists, TypeOK
    <3> QED BY <3>1, <3>3, <3>4, <3>5, <3>6, Ends
  <2>3. ASSUME DisconnectFails(s) PROVE ShopFacts'
    <3>1. req[s] # Idle
      BY <2>3 DEF DisconnectFails, Disconnecting, Idle
    <3> QED BY <1>0, <2>3, <3>1 DEF DisconnectFails, history
  <2> QED BY <1>3, <2>1, <2>2, <2>3 DEF Disconnect
<1>4. ASSUME NEW s \in Session, NEW h \in Webhook \cup {None}, Crash(s, h) PROVE ShopFacts'
  <2>1. /\ req[s] # Idle /\ End(s) /\ UNCHANGED rows
        /\ Registers(s, h, None)
    BY <1>4 DEF Crash
  <2>2. /\ cut \subseteq cut'
        /\ \A g \in Webhook : registered'[g] \in {registered[g], req[s].shop}
    BY <2>1, RegisterCuts DEF TypeOK
  <2>3. \A g \in Webhook \ cut' : registered'[g] = registered[g]
    BY <2>1, RegisterCuts, ConnectionAssumption DEF TypeOK
  <2> QED BY <2>1, <2>2, <2>3, EndsIdly
<1>5. CASE UNCHANGED <<rows, registered, req, history>>
  BY <1>5 DEF history, rows, ShopFacts, RequestShape, OneRequest, ReadIsCurrent, Undisturbed,
              Current, OneOpen, WebhooksAreKnown, Opens, Callback, ConnectedRows,
              PendingRows, RowsOf, Exists
<1> QED BY <1>1, <1>2, <1>3, <1>4, <1>5 DEF Next, Expire, vars

-----------------------------------------------------------------------------

LEMMA InvNext == Inv /\ [Next]_vars => Inv'
  BY TypeInv, RowInv, ShopInv DEF Inv, RowFacts, ShopFacts

THEOREM Invariance == Spec => []Inv
  BY InvInit, InvNext, PTL DEF Spec

(* Every row, request and webhook is what the columns and enums allow.     *)
THEOREM TypesHold == Spec => []TypeOK
<1>1. Inv => TypeOK
  BY DEF Inv
<1> QED BY <1>1, Invariance, PTL

(* A shop has one connected integration, and a vendor account belongs to   *)
(* one, whoever connects at once: the two indexes make up for the checks   *)
(* of connect_shop, start_oauth and the callback, which are on old reads.  *)
THEOREM ConnectedOnceHolds == Spec => []ConnectedOnce
<1>1. Inv => ConnectedOnce
  BY DEF Inv, ConnectedOnce
<1> QED BY <1>1, Invariance, PTL

(* A shop that was served one request at a time has no two open rows,      *)
(* through abandoned flows, expired states and crashes, whatever overlaps  *)
(* on other shops.                                                         *)
THEOREM OneOpenHolds == Spec => []OneOpen
<1>1. Inv => OneOpen
  BY DEF Inv
<1> QED BY <1>1, Invariance, PTL

(* A shop that was served one request at a time knows every webhook made   *)
(* for it but those whose request never had the id to store: no commit     *)
(* deletes or overwrites the row that knows one, and a request that fails  *)
(* otherwise has made none.                                                *)
THEOREM WebhooksAreKnownHolds == Spec => []WebhooksAreKnown
<1>1. Inv => WebhooksAreKnown
  BY DEF Inv
<1> QED BY <1>1, Invariance, PTL

-----------------------------------------------------------------------------
(* ShopConnections implements ShopRegistry                                 *)

(* A row that a request has picked or a state is for has been inserted.    *)
Used ==
    /\ \A s \in Session : req[s].row # None => status[req[s].row] # "absent"
    /\ \A i \in states : status[i] # "absent"

LEMMA UsedNext == TypeOK /\ Used /\ [Next]_vars => Used'
<1> SUFFICES ASSUME TypeOK, Used, [Next]_vars PROVE Used'
  OBVIOUS
<1> USE ConnectionAssumption DEF rows, history, Idle
<1>t. /\ req \in [Session -> Request] /\ states \subseteq Integration
      /\ status \in [Integration -> Status]
      /\ \A s \in Session : req[s].row \in Integration \cup {None}
  BY DEF TypeOK, Request
<1>1. ASSUME \A i \in Integration : status[i] # "absent" => status'[i] # "absent",
             states' \subseteq states,
             \A s \in Session : req'[s].row \in {req[s].row, None}
      PROVE  Used'
  BY <1>1, <1>t DEF Used
<1>2. ASSUME NEW s \in Session, End(s)
      PROVE  \A t \in Session : req'[t].row \in {req[t].row, None}
  BY <1>2, <1>t DEF End
<1>3. ASSUME NEW s \in Session, NEW sh \in Shop, NEW op \in {"connect", "start"},
             StartConnect(s, sh, op)
      PROVE  Used'
  <2>1. UNCHANGED <<status, states>>
        /\ \A t \in Session : req'[t].row \in {req[t].row, None}
    BY <1>3, <1>t DEF StartConnect, Begin
  <2>. QED
    BY <1>1, <2>1
<1>4. ASSUME NEW s \in Session, FindStale(s) \/ PickPending(s) PROVE Used'
  <2>1. UNCHANGED status /\ states' \subseteq states
    BY <1>4 DEF FindStale, PickPending
  <2>2. CASE End(s)
    BY <1>1, <1>2, <2>1, <2>2
  <2>3. ASSUME NEW i \in Integration, status[i] = "pending",
               req' = [req EXCEPT ![s] = [@ EXCEPT !.step = "write", !.row = i]]
        PROVE  Used'
    BY <1>t, <2>1, <2>3 DEF Used, Request
  <2>4. CASE req' = [req EXCEPT ![s].step = "write"]
    <3>1. \A t \in Session : req'[t].row = req[t].row
      BY <1>t, <2>4 DEF Request
    <3>. QED
      BY <1>1, <2>1, <3>1
  <2>. QED
    BY <1>4, <2>2, <2>3, <2>4 DEF FindStale, PickPending, PendingRows, RowsOf
<1>5. ASSUME NEW s \in Session, NEW i \in Integration, CommitStart(s, i) PROVE Used'
  <2>1. /\ \A j \in Integration : status[j] # "absent" => status'[j] # "absent"
        /\ status'[i] # "absent" /\ states' = states \cup {i}
    BY <1>5, <1>t DEF CommitStart, Fresh
  <2>2. \A t \in Session : req'[t].row \in {req[t].row, None}
    BY <1>2, <1>5 DEF CommitStart
  <2>. QED
    BY <1>t, <2>1, <2>2 DEF Used
<1>6. ASSUME NEW s \in Session, NEW i \in Integration, NEW v \in Vendor \cup {None},
             NEW h \in Webhook \cup {None}, NEW got \in {h, None},
               CommitConnect(s, i, v, h, got)
      PROVE  Used'
  <2>1. /\ \A j \in Integration : status[j] # "absent" => status'[j] # "absent"
        /\ states' = states
    BY <1>6, <1>t DEF CommitConnect, Inserts, Fresh
  <2>. QED
    BY <1>1, <1>2, <1>6, <2>1 DEF CommitConnect
<1>7. ASSUME NEW s \in Session, NEW i \in Integration, StartCallback(s, i) PROVE Used'
  BY <1>7, <1>t DEF StartCallback, Begin, Used
<1>8. ASSUME NEW s \in Session,
             \/ \E v \in Vendor, h \in Webhook \cup {None} :
                   \E got \in {h, None} : CommitCallback(s, v, h, got)
             \/ CommitDisconnect(s)
      PROVE  Used'
  <2>1. /\ \A j \in Integration : status[j] # "absent" => status'[j] # "absent"
        /\ states' = states /\ End(s)
    BY <1>8, <1>t DEF CommitCallback, CommitDisconnect
  <2>. QED
    BY <1>1, <1>2, <2>1
<1>9. ASSUME NEW s \in Session, NEW i \in Integration, StartDisconnect(s, i) PROVE Used'
  <2>1. /\ UNCHANGED <<status, states>> /\ status[i] # "absent"
        /\ \A t \in Session : req'[t].row \in {req[t].row, i}
    BY <1>9, <1>t DEF StartDisconnect, Begin, Exists
  <2>. QED
    BY <1>t, <2>1 DEF Used
<1>10. ASSUME NEW s \in Session, UNCHANGED <<status, states>>, End(s) PROVE Used'
  BY <1>1, <1>2, <1>10
<1>11. CASE UNCHANGED vars \/ \E i \in Integration : Expire(i)
  BY <1>1, <1>11 DEF vars, Expire
<1>12. ASSUME NEW s \in Session, NEW i \in Integration, NEW v \in Vendor \cup {None},
              NEW h \in Webhook \cup {None}, NEW got \in {h, None},
               ConnectFails(s, i, v, h, got)
       PROVE  Used'
  BY <1>10, <1>12 DEF ConnectFails
<1>13. ASSUME NEW s \in Session,
              \/ CallbackFails(s) \/ DisconnectFails(s)
              \/ \E h \in Webhook \cup {None} : Crash(s, h)
       PROVE  Used'
  BY <1>10, <1>13 DEF CallbackFails, DisconnectFails, Crash
<1>. QED
  BY <1>3, <1>4, <1>5, <1>6, <1>7, <1>8, <1>9, <1>11, <1>12, <1>13
     DEF Next, Connect, HandleCallback, Disconnect

(* What a commit that inserts row i deletes is what the registry replaces. *)
LEMMA ReplacesStale ==
    ASSUME Inv, Used, NEW s \in Session, NEW i \in Integration,
           Opens(s), req[s].step = "write", Fresh(i), ShopOf[i] = req[s].shop,
           NEW st,
           status' = [j \in Integration |->
              IF Deletes(s, j) THEN "deleted" ELSE IF j = i THEN st ELSE status[j]]
    PROVE  \E D \in SUBSET Integration :
              /\ D \subseteq {req[s].row}
              /\ Exists(req[s].row) /\ req[s].row \in Integration => req[s].row \in D
              /\ Registry!Replaces(i, D) /\ Registry!Insert(i, D, st)
<1> DEFINE row == req[s].row
           D == {j \in {row} : j \in Integration /\ Exists(j)}
<1>0. /\ req[s] # Idle /\ row \in Integration \cup {None} /\ None \notin Integration
      /\ req[s].shop \in Shop
  BY ConnectionAssumption DEF Opens, Idle, Inv, TypeOK, Request, RequestShape
<1>1. row # None => ShopOf[row] = ShopOf[i] /\ status[row] # "absent"
  BY <1>0 DEF Inv, RequestShape, Used
<1>2. Registry!Insert(i, D, st)
  BY <1>0, <1>1 DEF Registry!Insert, Deletes, Exists, Fresh
<1>3. ASSUME ShopOf[i] \notin contested
      PROVE  D = Registry!Open(ShopOf[i]) /\ \A j \in D : status[j] = "pending"
  <2>1. Current(s)
    BY <1>0, <1>3 DEF Inv, ReadIsCurrent, Undisturbed
  <2>2. /\ ConnectedRows(ShopOf[i]) = {} /\ PendingRows(ShopOf[i]) \subseteq {row}
        /\ row # None => status[row] = "pending"
    BY <2>1 DEF Current
  <2>3. Registry!Open(ShopOf[i]) = ConnectedRows(ShopOf[i]) \cup PendingRows(ShopOf[i])
    BY DEF Registry!Open, ConnectedRows, PendingRows, RowsOf, Exists
  <2>4. D \subseteq Registry!Open(ShopOf[i])
    BY <1>0, <1>1, <2>2 DEF Registry!Open
  <2>5. Registry!Open(ShopOf[i]) \subseteq D
    BY <2>2, <2>3 DEF PendingRows, RowsOf
  <2>. QED
    BY <1>0, <2>2, <2>4, <2>5
<1>4. Registry!Replaces(i, D)
  BY <1>0, <1>1, <1>3 DEF Registry!Replaces, Registry!Present, Exists, Fresh
<1>. QED
  BY <1>2, <1>4

LEMMA StepRefines ==
    ASSUME Inv, Inv', Used, [Next]_vars
    PROVE  [Registry!Next]_(Registry!registry)
<1> USE ConnectionAssumption DEF Registry!registry
<1>t. /\ status \in [Integration -> Status] /\ contested' \subseteq Shop
      /\ \A s \in Session : req[s].row \in Integration \cup {None}
  BY DEF Inv, TypeOK, Request
<1>1. ASSUME UNCHANGED rows, contested \subseteq contested'
      PROVE  Registry!Next
  BY <1>1, <1>t DEF Registry!Next, Registry!Overlap, rows
<1>2. ASSUME NEW s \in Session, NEW i \in Integration, CommitStart(s, i)
      PROVE  Registry!Next
  <2>1. PICK D \in SUBSET Integration :
           Registry!Replaces(i, D) /\ Registry!Insert(i, D, "pending")
    BY <1>2, ReplacesStale DEF CommitStart, Opens
  <2>2. Registry!OpenFlow(i, D)
    BY <1>2, <2>1 DEF Registry!OpenFlow, CommitStart, End
  <2>. QED
    BY <2>2 DEF Registry!Next
<1>3. ASSUME NEW s \in Session, NEW i \in Integration, NEW v \in Vendor \cup {None},
             NEW h \in Webhook \cup {None}, NEW got \in {h, None},
               CommitConnect(s, i, v, h, got)
      PROVE  Registry!Next
  <2>1. PICK D \in SUBSET Integration :
           /\ D \subseteq {req[s].row}
           /\ Exists(req[s].row) /\ req[s].row \in Integration => req[s].row \in D
           /\ Registry!Replaces(i, D) /\ Registry!Insert(i, D, "connected")
    BY <1>3, ReplacesStale DEF CommitConnect, Inserts, Opens
  <2>2. Registry!Connectable(i, D, v)
    BY <1>3, <2>1 DEF Registry!Connectable, Registry!Present, CommitConnect, VendorTaken,
       ActiveTaken, ConnectedRows, RowsOf, Exists
  <2>3. Registry!Connect(i, D, v)
    BY <1>3, <2>1, <2>2 DEF Registry!Connect, CommitConnect, End
  <2>. QED
    BY <2>3 DEF Registry!Next
<1>4. ASSUME NEW s \in Session, NEW v \in Vendor, NEW h \in Webhook \cup {None}, NEW got \in {h, None},
             CommitCallback(s, v, h, got)
      PROVE  Registry!Next \/ UNCHANGED Registry!registry
  <2> DEFINE i == req[s].row
  <2>1. CASE i \notin Integration
    BY <1>4, <2>1 DEF CommitCallback, End, Inv, TypeOK
  <2>2. CASE i \in Integration
    <3>1. Registry!Connectable(i, {}, v)
      BY <1>4, <2>2 DEF Registry!Connectable, Registry!Present, CommitCallback,
         VendorTaken, ActiveTaken, ConnectedRows, RowsOf, Exists
    <3>2. ShopOf[i] \notin contested => status[i] = "pending"
      <4>1. req[s] # Idle
        BY <1>4 DEF CommitCallback, Callback, Idle
      <4>2. ShopOf[i] = req[s].shop
        BY <2>2, <4>1 DEF Inv, RequestShape
      <4>. QED
        BY <1>4, <4>1, <4>2 DEF CommitCallback, Inv, ReadIsCurrent, Undisturbed, Current
    <3>3. Registry!Complete(i, v)
      BY <1>4, <3>1, <3>2 DEF Registry!Complete, Registry!Present, CommitCallback, Exists,
         End
    <3>. QED
      BY <2>2, <3>3 DEF Registry!Next
  <2>. QED
    BY <2>1, <2>2
<1>5. ASSUME NEW s \in Session, CommitDisconnect(s)
      PROVE  Registry!Next \/ UNCHANGED Registry!registry
  <2> DEFINE i == req[s].row
  <2>1. UNCHANGED <<vendor, contested>>
    BY <1>5 DEF CommitDisconnect, End
  <2>2. \/ status' = status
        \/ /\ i \in Integration /\ status[i] \in {"pending", "connected"}
           /\ status' = [status EXCEPT ![i] = "disconnected"]
    BY <1>5, <1>t DEF CommitDisconnect, Exists, Status
  <2>. QED
    BY <2>1, <2>2 DEF Registry!Next, Registry!Disconnect
<1>6. ASSUME NEW s \in Session,
             \/ \E sh \in Shop, op \in {"connect", "start"} : StartConnect(s, sh, op)
             \/ FindStale(s)
             \/ \E i \in Integration, v \in Vendor \cup {None}, h \in Webhook \cup {None} :
                \E got \in {h, None} : ConnectFails(s, i, v, h, got)
             \/ \E i \in Integration : StartCallback(s, i) \/ StartDisconnect(s, i)
             \/ PickPending(s) \/ CallbackFails(s) \/ DisconnectFails(s)
             \/ \E h \in Webhook \cup {None} : Crash(s, h)
      PROVE  Registry!Next
  <2>1. UNCHANGED rows /\ contested \subseteq contested'
    BY <1>6 DEF StartConnect, FindStale, ConnectFails, StartCallback, StartDisconnect,
       PickPending, CallbackFails, DisconnectFails, Crash, Begin, End, history
  <2>. QED
    BY <1>1, <2>1
<1>7. CASE UNCHANGED vars \/ \E i \in Integration : Expire(i)
  BY <1>1, <1>7 DEF vars, Expire, history
<1>. QED
  BY <1>2, <1>3, <1>4, <1>5, <1>6, <1>7 DEF Next, Connect, HandleCallback, Disconnect

(* The rows of every shop are kept as the registry promises: none comes    *)
(* back once it was disconnected, and none goes but an abandoned flow that *)
(* a new row replaces, unless two requests have served that very shop at   *)
(* once; no shop is connected twice and no vendor given away even then.    *)
THEOREM ImplementsRegistry == Spec => KeepsRegistry
<1>1. Init => Registry!Init
  BY DEF Init, Registry!Init
<1>2. Init => Used
  BY DEF Init, Used, Idle
<1>3. Inv => TypeOK
  BY DEF Inv
<1>4. Inv /\ Inv' /\ Used /\ [Next]_vars => [Registry!Next]_(Registry!registry)
  BY StepRefines
<1>. QED
  BY <1>1, <1>2, <1>3, <1>4, UsedNext, Invariance, PTL DEF Spec, KeepsRegistry, Registry!Spec
=============================================================================
