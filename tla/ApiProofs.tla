------------------------------ MODULE ApiProofs -------------------------------
(***************************************************************************)
(* What the invariants of the services mean to the users of the HTTP API,  *)
(* and what its permissions keep them from doing, whoever they are.        *)
(***************************************************************************)
EXTENDS Api, SupplySyncProofs

Refused == {401, 403, 404, 422, 500}

\* The services that the request of u gets through to, and what its role is
\* then.  Approval, receipt and dispatch are not among them.
Reaches(u) ==
  \/ \E o \in PurchaseOrder :
       /\ UNCHANGED soVars
       /\ \/ /\ RoleOf[u] \in Permitted["IsProcurementManagerOrAdmin"]
             /\ \E w \in Warehouse, product \in [Line -> Product \cup {None}],
                   qty \in [Line -> OrderedQty] :
                  CreatePurchaseOrder(o, w, u, product, qty)
          \/ SubmitPurchaseOrder(o)
          \/ CancelPurchaseOrder(o)
  \/ \E o \in SalesOrder :
       /\ UNCHANGED poVars
       /\ \/ \E w \in Warehouse, items \in [Product -> 0..MaxInteger] :
               CreateSalesOrder(o, w, items)
          \/ DeliverSalesOrder(o)
          \/ CancelSalesOrder(o)
  \/ /\ UNCHANGED <<soVars, poVars>>
     /\ RoleOf[u] \in Permitted["IsWarehouseManagerOrAdminOrStaff"]
     /\ \/ \E p \in Product, w \in Warehouse, t \in TransactionType, q \in Quantity :
             AdjustInventory(p, w, t, q)
        \/ \E p \in Product, s, d \in Warehouse, q \in Quantity :
             TransferInventory(p, s, d, q)
  \/ /\ UNCHANGED <<soVars, poVars>>
     /\ RoleOf[u] \in Permitted["IsAdminUser"]
     /\ \E w \in Warehouse : DeleteWarehouse(w)

Grants(u) == answer[u] = None /\ Reaches(u) /\ Answers(u, 200)

Refuses(u) == UNCHANGED vars /\ \E status \in Refused : Answers(u, status)

-----------------------------------------------------------------------------
\* A request runs its service or leaves the tables alone.
LEMMA HandleRuns ==
  ASSUME NEW u, NEW p, NEW ACTION Call, NEW errors, Handle(u, p, Call, errors)
  PROVE  \/ Denials(u, p) = {} /\ Call /\ answer[u] = None /\ Answers(u, 200)
         \/ Refuses(u)
<1>1. \A exc : custom_exception_handler(exc) \in Refused
  BY DEF custom_exception_handler, StatusCode, Refused
<1>2. QED
  BY <1>1 DEF Handle, Refuses

\* An entry of get_permissions that is an object cannot be called.
LEMMA ObjectsDeny ==
  ASSUME NEW u
  PROVE  /\ Denials(u, PurchaseOrderViews.approve) # {}
         /\ Denials(u, PurchaseOrderViews.receive) # {}
         /\ Denials(u, SalesOrderViews.dispatch) # {}
BY DEF Denials, PurchaseOrderViews, SalesOrderViews, ObjectOf

LEMMA ClassesAllow ==
  ASSUME NEW u
  PROVE  /\ Denials(u, PurchaseOrderViews.create) = {} =>
              RoleOf[u] \in Permitted["IsProcurementManagerOrAdmin"]
         /\ Denials(u, StockViewPermission) = {} =>
              RoleOf[u] \in Permitted["IsWarehouseManagerOrAdminOrStaff"]
         /\ Denials(u, WarehouseDeletePermission) = {} =>
              RoleOf[u] \in Permitted["IsAdminUser"]
<1>1. /\ PurchaseOrderViews.create = ClassOf("IsProcurementManagerOrAdmin")
      /\ StockViewPermission = ClassOf("IsWarehouseManagerOrAdminOrStaff")
      /\ WarehouseDeletePermission = ClassOf("IsAdminUser")
  BY DEF PurchaseOrderViews, StockViewPermission, WarehouseDeletePermission
<1>2. \A p : Denials(u, ClassOf(p)) = {} => RoleOf[u] \in Permitted[p]
  BY DEF Denials, ClassOf
<1>3. QED
  BY <1>1, <1>2

LEMMA OrderRequestReaches ==
  ASSUME NEW u \in User, NEW o \in PurchaseOrder, PurchaseOrderRequest(u, o)
  PROVE  Grants(u) \/ Refuses(u)
<1>1. ASSUME NEW w \in Warehouse, NEW product \in [Line -> Product \cup {None}],
             NEW qty \in [Line -> OrderedQty],
             Handle(u, PurchaseOrderViews.create,
                    CreatePurchaseOrder(o, w, u, product, qty) /\ UNCHANGED soVars,
                    {"DoesNotExist"})
      PROVE  Grants(u) \/ Refuses(u)
  BY <1>1, HandleRuns, ClassesAllow DEF Grants, Reaches
<1>2. CASE Handle(u, PurchaseOrderViews.submit,
                  SubmitPurchaseOrder(o) /\ UNCHANGED soVars,
                  OrderErrors(po_status[o]))
  BY <1>2, HandleRuns DEF Grants, Reaches
<1>3. CASE Approve(u, o)
  BY <1>3, HandleRuns, ObjectsDeny DEF Approve
<1>4. ASSUME NEW recv \in [Line -> 0..MaxInteger],
             Handle(u, PurchaseOrderViews.receive,
                    ReceivePurchaseOrder(o, recv) /\ UNCHANGED soVars,
                    OrderErrors(po_status[o]) \cup {"ResourceNotFoundException"})
      PROVE  Refuses(u)
  BY <1>4, HandleRuns, ObjectsDeny
<1>5. CASE Handle(u, PurchaseOrderViews.cancel,
                  CancelPurchaseOrder(o) /\ UNCHANGED soVars,
                  OrderErrors(po_status[o]))
  BY <1>5, HandleRuns DEF Grants, Reaches
<1>6. QED
  BY <1>1, <1>2, <1>3, <1>4, <1>5 DEF PurchaseOrderRequest

LEMMA SalesRequestReaches ==
  ASSUME NEW u \in User, NEW o \in SalesOrder, SalesOrderRequest(u, o)
  PROVE  Grants(u) \/ Refuses(u)
<1>1. ASSUME NEW w \in Warehouse, NEW items \in [Product -> 0..MaxInteger],
             NEW errors,
             Handle(u, SalesOrderViews.create,
                    CreateSalesOrder(o, w, items) /\ UNCHANGED poVars, errors)
      PROVE  Grants(u) \/ Refuses(u)
  BY <1>1, HandleRuns DEF Grants, Reaches
<1>2. CASE Handle(u, SalesOrderViews.dispatch,
                  DispatchSalesOrder(o) /\ UNCHANGED poVars,
                  OrderErrors(so_status[o]))
  BY <1>2, HandleRuns, ObjectsDeny
<1>3. CASE Handle(u, SalesOrderViews.deliver,
                  DeliverSalesOrder(o) /\ UNCHANGED poVars,
                  OrderErrors(so_status[o]))
  BY <1>3, HandleRuns DEF Grants, Reaches
<1>4. CASE Handle(u, SalesOrderViews.cancel,
                  CancelSalesOrder(o) /\ UNCHANGED poVars,
                  OrderErrors(so_status[o]))
  BY <1>4, HandleRuns DEF Grants, Reaches
<1>5. QED
  BY <1>1, <1>2, <1>3, <1>4 DEF SalesOrderRequest

LEMMA StockRequestReaches ==
  ASSUME NEW u \in User,
         StockRequest(u) \/ \E w \in Warehouse : WarehouseDeletion(u, w)
  PROVE  Grants(u) \/ Refuses(u)
<1>1. ASSUME NEW p \in Product, NEW w \in Warehouse, NEW t \in TransactionType,
             NEW q \in Quantity, NEW errors,
             Handle(u, StockViewPermission,
                    AdjustInventory(p, w, t, q) /\ UNCHANGED <<soVars, poVars>>,
                    errors)
      PROVE  Grants(u) \/ Refuses(u)
  BY <1>1, HandleRuns, ClassesAllow DEF Grants, Reaches
<1>2. ASSUME NEW p \in Product, NEW s \in Warehouse, NEW d \in Warehouse,
             NEW q \in Quantity, NEW errors,
             Handle(u, StockViewPermission,
                    TransferInventory(p, s, d, q) /\ UNCHANGED <<soVars, poVars>>,
                    errors)
      PROVE  Grants(u) \/ Refuses(u)
  BY <1>2, HandleRuns, ClassesAllow DEF Grants, Reaches
<1>3. ASSUME NEW w \in Warehouse, NEW errors,
             Handle(u, WarehouseDeletePermission,
                    DeleteWarehouse(w) /\ UNCHANGED <<soVars, poVars>>, errors)
      PROVE  Grants(u) \/ Refuses(u)
  BY <1>3, HandleRuns, ClassesAllow DEF Grants, Reaches
<1>4. QED
  BY <1>1, <1>2, <1>3 DEF StockRequest, WarehouseDeletion

\* Every step of the API: a user got through, was refused, or read an answer.
LEMMA ApiSteps ==
  ASSUME ApiNext
  PROVE  \E u \in User :
           \/ Grants(u)
           \/ Refuses(u)
           \/ UNCHANGED vars /\ Answers(u, None)
<1>1. PICK u \in User :
        \/ \E o \in PurchaseOrder : PurchaseOrderRequest(u, o)
        \/ \E o \in SalesOrder : SalesOrderRequest(u, o)
        \/ StockRequest(u)
        \/ \E w \in Warehouse : WarehouseDeletion(u, w)
        \/ ReadAnswer(u)
  BY DEF ApiNext
<1>2. CASE ReadAnswer(u)
  BY <1>2 DEF ReadAnswer
<1>3. CASE \E o \in PurchaseOrder : PurchaseOrderRequest(u, o)
  BY <1>3, OrderRequestReaches
<1>4. CASE \E o \in SalesOrder : SalesOrderRequest(u, o)
  BY <1>4, SalesRequestReaches
<1>5. CASE StockRequest(u) \/ \E w \in Warehouse : WarehouseDeletion(u, w)
  BY <1>5, StockRequestReaches
<1>6. QED
  BY <1>1, <1>2, <1>3, <1>4, <1>5

LEMMA ReachesNext ==
  ASSUME NEW u \in User, Reaches(u)
  PROVE  Next
<1>1. ASSUME NEW o \in PurchaseOrder, UNCHANGED soVars,
             \/ \E w \in Warehouse, product \in [Line -> Product \cup {None}],
                   qty \in [Line -> OrderedQty] :
                  CreatePurchaseOrder(o, w, u, product, qty)
             \/ SubmitPurchaseOrder(o)
             \/ CancelPurchaseOrder(o)
      PROVE  Next
  BY <1>1 DEF Next, PONext
<1>2. ASSUME NEW o \in SalesOrder, UNCHANGED poVars,
             \/ \E w \in Warehouse, items \in [Product -> 0..MaxInteger] :
                  CreateSalesOrder(o, w, items)
             \/ DeliverSalesOrder(o)
             \/ CancelSalesOrder(o)
      PROVE  Next
  BY <1>2 DEF Next, SONext
<1>3. ASSUME UNCHANGED <<soVars, poVars>>,
             \/ \E p \in Product, w \in Warehouse, t \in TransactionType,
                   q \in Quantity : AdjustInventory(p, w, t, q)
             \/ \E p \in Product, s, d \in Warehouse, q \in Quantity :
                  TransferInventory(p, s, d, q)
             \/ \E w \in Warehouse : DeleteWarehouse(w)
      PROVE  Next
  BY <1>3 DEF Next, InvNext
<1>4. QED
  BY <1>1, <1>2, <1>3 DEF Reaches

(***************************************************************************)
(* The API adds nothing to what the services do: every request is a        *)
(* service call that succeeds or leaves the tables as they were.  So what  *)
(* is proved of the services holds for the users of the API, whatever      *)
(* their roles.                                                            *)
(***************************************************************************)
THEOREM ApiRunsServices == ApiSpec => Spec
<1>1. ApiInit => Init
  BY DEF ApiInit
<1>2. [ApiNext]_apiVars => [Next]_vars
  BY ApiSteps, ReachesNext DEF Grants, Refuses, apiVars
<1>3. QED
  BY <1>1, <1>2, PTL DEF ApiSpec, Spec

-----------------------------------------------------------------------------
(***************************************************************************)
(* The permissions of approve, receive and dispatch are instances where    *)
(* the framework calls a class.  No purchase order gets beyond waiting for *)
(* approval and no sales order beyond its confirmation, for any user.      *)
(***************************************************************************)
NothingApproved ==
  /\ \A o \in PurchaseOrder :
       po_status[o] \in {"NONE", "DRAFT", "PENDING_APPROVAL", "CANCELLED"}
  /\ \A o \in SalesOrder : so_status[o] \in {"NONE", "CONFIRMED", "CANCELLED"}

(***************************************************************************)
(* What is in a row, set aside or not, was put there by hand: purchase     *)
(* orders bring nothing in and sales orders take nothing out.              *)
(***************************************************************************)
StockByHand ==
  \A k \in Key :
    quantity_available[k] + quantity_reserved[k] =
      Posted(k, "INBOUND") + Posted(k, "ADJUSTMENT") + Posted(k, "TRANSFER_IN")
      - Posted(k, "OUTBOUND") - Posted(k, "DAMAGE_REPORT")
      - Posted(k, "TRANSFER_OUT")

\* u has just been told that its request was served.
Served(u) == answer[u] = None /\ answer'[u] = 200

(***************************************************************************)
(* Nothing is recorded in the audit table, no warehouse deleted and no     *)
(* purchase order drafted but by the request of a user with the role for   *)
(* it, who is told so; an order names the user who drafted it.             *)
(***************************************************************************)
RolesRespected ==
  [][/\ ledger' # ledger =>
          \E u \in User : /\ RoleOf[u] \in {"ADMIN", "WAREHOUSE_MANAGER", "STAFF"}
                          /\ Served(u)
     /\ deleted' # deleted =>
          \E u \in User : RoleOf[u] = "ADMIN" /\ Served(u)
     /\ \A o \in PurchaseOrder : created_by'[o] # created_by[o] =>
          \E u \in User : /\ RoleOf[u] \in {"ADMIN", "PROCUREMENT_MANAGER"}
                          /\ Served(u) /\ created_by'[o] = u]_apiVars

\* A manager who asks for an approval is told of an internal error.
ApprovalsFail ==
  [][\A u \in User, o \in PurchaseOrder :
       Approve(u, o) => answer'[u] = 500]_apiVars

AnswerOK == answer \in [User -> Refused \cup {200, None}]

LEMMA AnswerInit == ApiInit => AnswerOK
BY DEF ApiInit, AnswerOK

LEMMA AnswerStep ==
  ASSUME AnswerOK, [ApiNext]_apiVars
  PROVE  AnswerOK'
<1>1. CASE ApiNext
  <2>1. PICK u \in User : \E status \in Refused \cup {200, None} : Answers(u, status)
    BY <1>1, ApiSteps DEF Grants, Refuses
  <2>2. QED
    BY <2>1 DEF AnswerOK, Answers
<1>2. CASE UNCHANGED apiVars
  BY <1>2 DEF AnswerOK, apiVars
<1>3. QED
  BY <1>1, <1>2

LEMMA ReachesKeepsOrders ==
  ASSUME SOTypeOK, POTypeOK, NothingApproved, NEW u \in User, Reaches(u)
  PROVE  NothingApproved'
<1>1. ASSUME NEW o \in PurchaseOrder, UNCHANGED soVars,
             \/ \E w \in Warehouse, product \in [Line -> Product \cup {None}],
                   qty \in [Line -> OrderedQty] :
                  CreatePurchaseOrder(o, w, u, product, qty)
             \/ SubmitPurchaseOrder(o)
             \/ CancelPurchaseOrder(o)
      PROVE  NothingApproved'
  <2>1. \E status \in {"DRAFT", "PENDING_APPROVAL", "CANCELLED"} :
          po_status' = [po_status EXCEPT ![o] = status]
    BY <1>1 DEF CreatePurchaseOrder, SubmitPurchaseOrder, CancelPurchaseOrder
  <2>2. so_status' = so_status
    BY <1>1 DEF soVars
  <2>3. QED
    BY <2>1, <2>2 DEF NothingApproved, POTypeOK
<1>2. ASSUME NEW o \in SalesOrder, UNCHANGED poVars,
             \/ \E w \in Warehouse, items \in [Product -> 0..MaxInteger] :
                  CreateSalesOrder(o, w, items)
             \/ DeliverSalesOrder(o)
             \/ CancelSalesOrder(o)
      PROVE  NothingApproved'
  <2>1. \E status \in {"CONFIRMED", "CANCELLED"} :
          so_status' = [so_status EXCEPT ![o] = status]
    <3>1. ~DeliverSalesOrder(o)
      BY DEF DeliverSalesOrder, NothingApproved
    <3>2. QED
      BY <1>2, <3>1 DEF CreateSalesOrder, SalesOrderCreated, CancelSalesOrder
  <2>2. po_status' = po_status
    BY <1>2 DEF poVars
  <2>3. QED
    BY <2>1, <2>2 DEF NothingApproved, SOTypeOK
<1>3. ASSUME UNCHANGED <<soVars, poVars>> PROVE NothingApproved'
  BY <1>3 DEF NothingApproved, soVars, poVars
<1>4. QED
  BY <1>1, <1>2, <1>3 DEF Reaches

\* Without receipts and dispatches the orders explain none of the stock.
LEMMA OrdersExplainNothing ==
  ASSUME SyncInv, StatusMatchesReceipts, NothingApproved
  PROVE  StockByHand
<1> SUFFICES ASSUME NEW k \in Key
             PROVE  Posted(k, "DISPATCH") = 0 /\ Posted(k, "RECEIPT") = 0
  <2>1. /\ LedgerBalanced
        /\ ledger \in [Key \X Posting -> Nat]
    BY DEF SyncInv, InvTypeOK
  <2>2. QED
    BY <2>1, PostedNat DEF StockByHand, LedgerBalanced, Recorded
<1>1. Posted(k, "DISPATCH") = 0
  <2> DEFINE f == [o \in SalesOrder |-> Share(o, k, Shipped)]
  <2>1. \A o \in SalesOrder : so_status[o] \notin Shipped
    BY DEF NothingApproved, Shipped
  <2>2. f \in [SalesOrder -> Nat] /\ \A o \in SalesOrder : f[o] = 0
    BY <2>1 DEF Share
  <2>3. Total(f) = 0
    <3> HIDE DEF f
    <3> QED BY <2>2, TotalZero
  <2>4. QED
    BY <2>3 DEF SyncInv, DispatchesAccounted, Ordered
<1>2. Posted(k, "RECEIPT") = 0
  <2> DEFINE f == [i \in Item |->
                     IF item_product[i] = k[1] /\ po_warehouse[i[1]] = k[2]
                     THEN quantity_received[i] ELSE 0]
  <2>1. \A o \in PurchaseOrder, l \in Line : quantity_received[<<o, l>>] = 0
    BY DEF NothingApproved, StatusMatchesReceipts
  <2>2. \A i \in Item : quantity_received[i] = 0
    BY <2>1 DEF Item
  <2>3. f \in [Item -> Nat] /\ \A i \in Item : f[i] = 0
    BY <2>2
  <2>4. Total(f) = 0
    <3> HIDE DEF f
    <3> QED BY <2>3, TotalZero
  <2>5. QED
    BY <2>4 DEF SyncInv, ReceiptsAccounted, Received
<1>3. QED
  BY <1>1, <1>2

(***************************************************************************)
(* As the permissions are written, no purchase order is ever approved and  *)
(* no order dispatched, by users of any roles, and all stock is what was   *)
(* put in by hand; each request for an approval is answered with 500.      *)
(***************************************************************************)
THEOREM ApiApprovesNothing ==
  ApiSpec => [](NothingApproved /\ StockByHand) /\ ApprovalsFail
<1> DEFINE IInv == SyncInv /\ StatusTold /\ NothingApproved /\ AnswerOK
<1>1. ApiInit => IInv
  <2>1. Init => SyncInv /\ StatusTold
    BY SyncInit DEF Init, POInit, StatusTold
  <2>2. Init => NothingApproved
    BY DEF Init, SOInit, POInit, NothingApproved
  <2>3. QED
    BY <2>1, <2>2, AnswerInit DEF ApiInit
<1>2. IInv /\ [ApiNext]_apiVars => IInv'
  <2> SUFFICES ASSUME IInv, [ApiNext]_apiVars PROVE IInv'
    OBVIOUS
  <2>1. AnswerOK'
    BY AnswerStep
  <2>2. (\E u \in User : Reaches(u)) \/ UNCHANGED vars
    BY ApiSteps DEF Grants, Refuses, apiVars
  <2>3. [Next]_vars
    BY <2>2, ReachesNext
  <2>4. SyncInv'
    BY <2>3, SyncNext, SyncStutter
  <2>5. StatusTold'
    BY <2>3, NextWrites, SyncKeepsStatusTold
  <2>6. NothingApproved'
    <3>1. UNCHANGED vars => UNCHANGED <<so_status, po_status>>
      BY DEF vars, soVars, poVars
    <3>2. UNCHANGED vars => NothingApproved'
      BY <3>1 DEF NothingApproved
    <3>3. QED
      BY <2>2, <3>2, ReachesKeepsOrders DEF SyncInv, DutyInv
  <2>7. QED
    BY <2>1, <2>4, <2>5, <2>6
<1>3. IInv => NothingApproved /\ StockByHand
  BY ToldMatches, OrdersExplainNothing DEF SyncInv
<1>4. IInv => [\A u \in User, o \in PurchaseOrder :
                 Approve(u, o) => answer'[u] = 500]_apiVars
  <2> SUFFICES ASSUME AnswerOK, NEW u \in User, NEW o \in PurchaseOrder, Approve(u, o)
               PROVE  answer'[u] = 500
    OBVIOUS
  <2>1. Denials(u, PurchaseOrderViews.approve) = {"TypeError"}
    BY DEF Denials, PurchaseOrderViews, ObjectOf
  <2>2. custom_exception_handler("TypeError") = 500
    BY DEF custom_exception_handler, StatusCode
  <2>3. Answers(u, 500)
    BY <2>1, <2>2 DEF Approve, Handle
  <2>4. QED
    BY <2>3 DEF Answers, AnswerOK
<1>5. QED
  BY <1>1, <1>2, <1>3, <1>4, PTL DEF ApiSpec, ApprovalsFail

(***************************************************************************)
(* Every entry of the audit table, every deletion of a warehouse and every *)
(* draft is the doing of a user with the role for it.                      *)
(***************************************************************************)
THEOREM ApiRolesRespected == ApiSpec => RolesRespected
<1> DEFINE Roles ==
      /\ ledger' # ledger =>
           \E u \in User : /\ RoleOf[u] \in {"ADMIN", "WAREHOUSE_MANAGER", "STAFF"}
                           /\ Served(u)
      /\ deleted' # deleted =>
           \E u \in User : RoleOf[u] = "ADMIN" /\ Served(u)
      /\ \A o \in PurchaseOrder : created_by'[o] # created_by[o] =>
           \E u \in User : /\ RoleOf[u] \in {"ADMIN", "PROCUREMENT_MANAGER"}
                           /\ Served(u) /\ created_by'[o] = u
<1>1. UNCHANGED vars => Roles
  BY DEF vars, invVars, poVars
<1>2. ASSUME NEW u \in User, Reaches(u), Served(u), POTypeOK PROVE Roles
  <2>1. ASSUME NEW o \in PurchaseOrder, UNCHANGED soVars,
               \/ /\ RoleOf[u] \in Permitted["IsProcurementManagerOrAdmin"]
                  /\ \E w \in Warehouse, product \in [Line -> Product \cup {None}],
                        qty \in [Line -> OrderedQty] :
                       CreatePurchaseOrder(o, w, u, product, qty)
               \/ SubmitPurchaseOrder(o)
               \/ CancelPurchaseOrder(o)
        PROVE  Roles
    <3>1. ledger' = ledger /\ deleted' = deleted
      BY <2>1 DEF CreatePurchaseOrder, SubmitPurchaseOrder, CancelPurchaseOrder,
                  invVars
    <3>2. \/ created_by' = created_by
          \/ /\ RoleOf[u] \in {"ADMIN", "PROCUREMENT_MANAGER"}
             /\ created_by' = [created_by EXCEPT ![o] = u]
      BY <2>1 DEF CreatePurchaseOrder, SubmitPurchaseOrder, CancelPurchaseOrder,
                  Permitted
    <3>3. \A x \in PurchaseOrder : created_by'[x] # created_by[x] =>
            RoleOf[u] \in {"ADMIN", "PROCUREMENT_MANAGER"} /\ created_by'[x] = u
      BY <1>2, <3>2 DEF POTypeOK
    <3>4. QED
      BY <1>2, <3>1, <3>3
  <2>2. ASSUME NEW o \in SalesOrder, UNCHANGED poVars,
               \/ \E w \in Warehouse, items \in [Product -> 0..MaxInteger] :
                    CreateSalesOrder(o, w, items)
               \/ DeliverSalesOrder(o)
               \/ CancelSalesOrder(o)
        PROVE  Roles
    <3>1. ledger' = ledger /\ deleted' = deleted
      BY <2>2 DEF CreateSalesOrder, SalesOrderCreated, DeliverSalesOrder,
         CancelSalesOrder, invVars
    <3>2. created_by' = created_by
      BY <2>2 DEF poVars
    <3>3. QED
      BY <3>1, <3>2
  <2>3. ASSUME UNCHANGED <<soVars, poVars>>,
               RoleOf[u] \in Permitted["IsWarehouseManagerOrAdminOrStaff"],
               \/ \E p \in Product, w \in Warehouse, t \in TransactionType,
                     q \in Quantity : AdjustInventory(p, w, t, q)
               \/ \E p \in Product, s, d \in Warehouse, q \in Quantity :
                    TransferInventory(p, s, d, q)
        PROVE  Roles
    <3>1. deleted' = deleted
      <4>1. ASSUME NEW p \in Product, NEW w \in Warehouse,
                   NEW t \in TransactionType, NEW q \in Quantity,
                   AdjustInventory(p, w, t, q)
            PROVE  deleted' = deleted
        BY <4>1 DEF AdjustInventory, StockAdjusted
      <4>2. ASSUME NEW p \in Product, NEW s \in Warehouse, NEW d \in Warehouse,
                   NEW q \in Quantity, TransferInventory(p, s, d, q)
            PROVE  deleted' = deleted
        BY <4>2 DEF TransferInventory
      <4>3. QED
        BY <2>3, <4>1, <4>2
    <3>2. created_by' = created_by
      BY <2>3 DEF poVars
    <3>3. RoleOf[u] \in {"ADMIN", "WAREHOUSE_MANAGER", "STAFF"}
      BY <2>3 DEF Permitted
    <3>4. QED
      BY <1>2, <3>1, <3>2, <3>3
  <2>4. ASSUME UNCHANGED <<soVars, poVars>>,
               RoleOf[u] \in Permitted["IsAdminUser"],
               \E w \in Warehouse : DeleteWarehouse(w)
        PROVE  Roles
    <3>1. ledger' = ledger
      BY <2>4 DEF DeleteWarehouse, WarehouseMarked
    <3>2. created_by' = created_by
      BY <2>4 DEF poVars
    <3>3. RoleOf[u] = "ADMIN"
      BY <2>4 DEF Permitted
    <3>4. QED
      BY <1>2, <3>1, <3>2, <3>3
  <2>5. QED
    BY <1>2, <2>1, <2>2, <2>3, <2>4 DEF Reaches
<1>3. ASSUME NEW u \in User, Grants(u), AnswerOK PROVE Served(u)
  BY <1>3 DEF Grants, Served, Answers, AnswerOK
<1>4. SyncInv /\ AnswerOK /\ [ApiNext]_apiVars => [Roles]_apiVars
  <2> SUFFICES ASSUME SyncInv, AnswerOK, ApiNext PROVE Roles
    OBVIOUS
  <2>1. (\E u \in User : Grants(u)) \/ UNCHANGED vars
    BY ApiSteps DEF Refuses
  <2>2. POTypeOK
    BY DEF SyncInv, DutyInv
  <2>3. \A u \in User : Grants(u) => Reaches(u)
    BY DEF Grants
  <2> HIDE DEF Roles
  <2>4. QED
    BY <1>1, <1>2, <1>3, <2>1, <2>2, <2>3
<1>5. Init => SyncInv
  BY SyncInit
<1>6. SyncInv /\ [Next]_vars => SyncInv'
  BY SyncNext, SyncStutter
<1>7. QED
  BY <1>4, <1>5, <1>6, AnswerInit, AnswerStep, ApiRunsServices, PTL
     DEF ApiSpec, Spec, RolesRespected
=============================================================================
