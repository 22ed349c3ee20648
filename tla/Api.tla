---------------------------------- MODULE Api ----------------------------------
(***************************************************************************)
(* The service layer behind the HTTP API: a view checks the permission of  *)
(* the user, runs one service, and an exception becomes the answer.        *)
(***************************************************************************)
EXTENDS SupplySync

CONSTANT RoleOf   \* [User -> UserRole \cup {None}]; None: the client sends no token

UserRole == {"ADMIN", "WAREHOUSE_MANAGER", "PROCUREMENT_MANAGER", "STAFF"}

VARIABLE answer   \* per user: the response not read yet, None if there is none

apiVars == <<vars, answer>>

Permitted ==
  [IsAuthenticated |-> UserRole,
   IsAdminUser |-> {"ADMIN"},
   IsWarehouseManagerOrAdmin |-> {"ADMIN", "WAREHOUSE_MANAGER"},
   IsProcurementManagerOrAdmin |-> {"ADMIN", "PROCUREMENT_MANAGER"},
   IsWarehouseManagerOrAdminOrStaff |-> {"ADMIN", "WAREHOUSE_MANAGER", "STAFF"}]

\* What the framework finds for a view: a class to instantiate, or an object.
ClassOf(permission) == [permission |-> permission, callable |-> TRUE]
ObjectOf(permission) == [permission |-> permission, callable |-> FALSE]

PurchaseOrderViews ==
  [create |-> ClassOf("IsProcurementManagerOrAdmin"),
   submit |-> ClassOf("IsAuthenticated"),
   approve |-> ObjectOf("IsWarehouseManagerOrAdmin"),
   receive |-> ObjectOf("IsWarehouseManagerOrAdmin"),
   cancel |-> ClassOf("IsAuthenticated")]

SalesOrderViews ==
  [create |-> ClassOf("IsAuthenticated"),
   dispatch |-> ObjectOf("IsWarehouseManagerOrAdmin"),
   deliver |-> ClassOf("IsAuthenticated"),
   cancel |-> ClassOf("IsAuthenticated")]

StockViewPermission == ClassOf("IsWarehouseManagerOrAdminOrStaff")
WarehouseDeletePermission == ClassOf("IsAdminUser")

ApiInit == Init /\ answer = [u \in User |-> None]

-----------------------------------------------------------------------------
\* Status codes of the exceptions that the framework knows.
StatusCode ==
  [NotAuthenticated |-> 401, PermissionDenied |-> 403,
   ResourceNotFoundException |-> 404, InsufficientInventoryException |-> 422,
   InsufficientStockException |-> 422, InvalidOperationException |-> 422]

custom_exception_handler(exc) ==
  IF exc \in DOMAIN StatusCode THEN StatusCode[exc] ELSE 500

\* What the check of the permission raises: get_permissions calls each entry.
Denials(u, p) ==
  IF ~p.callable THEN {"TypeError"}
  ELSE IF RoleOf[u] = None THEN {"NotAuthenticated"}
  ELSE IF RoleOf[u] \notin Permitted[p.permission] THEN {"PermissionDenied"}
  ELSE {}

Answers(u, status) == answer' = [answer EXCEPT ![u] = status]

\* The request of u to a view of permission p, which runs Call.  When it
\* cannot run, it raises one of errors and leaves the tables as they were.
Handle(u, p, Call, errors) ==
  /\ answer[u] = None
  /\ \/ Denials(u, p) = {} /\ Call /\ Answers(u, 200)
     \/ \E exc \in IF Denials(u, p) # {} THEN Denials(u, p)
                  ELSE IF ENABLED Call THEN {} ELSE errors :
          Answers(u, custom_exception_handler(exc)) /\ UNCHANGED vars

\* A number that its column cannot hold raises DataError; so does, in the
\* model, one beyond its bound MaxPosted.
OrderErrors(status) ==
  IF status = "NONE" THEN {"ResourceNotFoundException"}
  ELSE {"InvalidOperationException", "DataError"}

ApprovalErrors(u, o) ==
  IF po_status[o] # "PENDING_APPROVAL" THEN OrderErrors(po_status[o])
  ELSE {"PermissionDenied"}

Approve(u, o) ==
  Handle(u, PurchaseOrderViews.approve,
         ApprovePurchaseOrder(o, u) /\ UNCHANGED soVars, ApprovalErrors(u, o))

PurchaseOrderRequest(u, o) ==
  \/ /\ po_status[o] = "NONE"
     /\ \E w \in Warehouse, product \in [Line -> Product \cup {None}],
           qty \in [Line -> OrderedQty] :
          Handle(u, PurchaseOrderViews.create,
                 CreatePurchaseOrder(o, w, u, product, qty) /\ UNCHANGED soVars,
                 {"DoesNotExist"})
  \/ Handle(u, PurchaseOrderViews.submit,
            SubmitPurchaseOrder(o) /\ UNCHANGED soVars,
            OrderErrors(po_status[o]))
  \/ Approve(u, o)
  \/ \E recv \in [Line -> 0..MaxInteger] :
       Handle(u, PurchaseOrderViews.receive,
              ReceivePurchaseOrder(o, recv) /\ UNCHANGED soVars,
              OrderErrors(po_status[o]) \cup {"ResourceNotFoundException"})
  \/ Handle(u, PurchaseOrderViews.cancel,
            CancelPurchaseOrder(o) /\ UNCHANGED soVars,
            OrderErrors(po_status[o]))

SalesOrderRequest(u, o) ==
  \/ /\ so_status[o] = "NONE"
     /\ \E w \in Warehouse, items \in [Product -> 0..MaxInteger] :
          Handle(u, SalesOrderViews.create,
                 CreateSalesOrder(o, w, items) /\ UNCHANGED poVars,
                 IF WarehouseFound(w)
                 THEN {"InsufficientStockException", "DataError"}
                 ELSE {"ResourceNotFoundException"})
  \/ Handle(u, SalesOrderViews.dispatch,
            DispatchSalesOrder(o) /\ UNCHANGED poVars,
            OrderErrors(so_status[o]))
  \/ Handle(u, SalesOrderViews.deliver,
            DeliverSalesOrder(o) /\ UNCHANGED poVars,
            OrderErrors(so_status[o]))
  \/ Handle(u, SalesOrderViews.cancel,
            CancelSalesOrder(o) /\ UNCHANGED poVars,
            OrderErrors(so_status[o]))

StockRequest(u) ==
  \/ \E p \in Product, w \in Warehouse, t \in TransactionType, q \in Quantity :
       Handle(u, StockViewPermission,
              AdjustInventory(p, w, t, q) /\ UNCHANGED <<soVars, poVars>>,
              IF WarehouseFound(w)
              THEN {"InsufficientInventoryException", "DataError"}
              ELSE {"ResourceNotFoundException"})
  \/ \E p \in Product, s, d \in Warehouse, q \in Quantity :
       Handle(u, StockViewPermission,
              TransferInventory(p, s, d, q) /\ UNCHANGED <<soVars, poVars>>,
              IF s = d THEN {"ValueError"}
              ELSE {"InsufficientInventoryException", "DataError"})

WarehouseDeletion(u, w) ==
  Handle(u, WarehouseDeletePermission,
         DeleteWarehouse(w) /\ UNCHANGED <<soVars, poVars>>,
         IF WarehouseFound(w) THEN {"InvalidOperationException"}
         ELSE {"ResourceNotFoundException"})

ReadAnswer(u) ==
  answer[u] # None /\ Answers(u, None) /\ UNCHANGED vars

ApiNext ==
  \E u \in User :
    \/ \E o \in PurchaseOrder : PurchaseOrderRequest(u, o)
    \/ \E o \in SalesOrder : SalesOrderRequest(u, o)
    \/ StockRequest(u)
    \/ \E w \in Warehouse : WarehouseDeletion(u, w)
    \/ ReadAnswer(u)

\* Users read their answers, and some manager who did not create the order
\* keeps asking for its approval.
Approvers(o) ==
  {u \in User : /\ RoleOf[u] \in Permitted["IsWarehouseManagerOrAdmin"]
                /\ MayApprove(o, u)}

ApiFairness ==
  /\ \A u \in User : WF_apiVars(ReadAnswer(u))
  /\ \A o \in PurchaseOrder :
       SF_apiVars(\E u \in Approvers(o) : Approve(u, o))

ApiSpec == ApiInit /\ [][ApiNext]_apiVars /\ ApiFairness

-----------------------------------------------------------------------------
(***************************************************************************)
(* README.md:69 "Pending -->|Approve| Approved[Approved]".  An order that  *)
(* waits for approval does not wait for ever while a manager other than    *)
(* its author asks for it.                                                 *)
(***************************************************************************)
ApprovalComes ==
  \A o \in PurchaseOrder :
    po_status[o] = "PENDING_APPROVAL" ~> po_status[o] # "PENDING_APPROVAL"

=============================================================================
