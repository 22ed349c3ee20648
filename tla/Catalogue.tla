----------------------------- MODULE Catalogue ------------------------------
(***************************************************************************)
(* The rows of the catalogue: warehouses, suppliers, categories, products. *)
(* Each has a unique code.  The services run in autocommit: they look a    *)
(* code or a row up, without a lock, and later insert the row or save the  *)
(* copy of it in memory with all its columns.  Deleted rows stay in their  *)
(* table; the default manager does not show them.                          *)
(***************************************************************************)
EXTENDS Naturals, Nullable

CONSTANTS
  Clerk,   \* threads that serve catalogue requests
  Id,      \* rows; a bound of the model
  Code     \* codes that clients choose or the services generate

Tables == {"warehouse", "supplier", "category", "product"}

\* The tables whose services update and delete rows.
Updated == {"warehouse", "supplier"}

VARIABLES
  record,    \* the rows of all tables
  request,   \* per clerk: the request it serves
  overtaken  \* history: clerks whose copy is older than a deletion of the row

catVars == <<record, request, overtaken>>

Row == [table : Tables, code : Code, is_deleted : BOOLEAN, is_active : BOOLEAN]

ASSUME CatalogueAssumption == None \notin Code \cup BOOLEAN \cup Row

\* What a request may set, None where it is silent.  The serializer of the
\* suppliers takes every column, is_deleted included.
DataOf(table) ==
  [code : Optional(Code),
   is_deleted : IF table = "supplier" THEN Optional(BOOLEAN) ELSE {None},
   is_active : IF table = "category" THEN {None} ELSE Optional(BOOLEAN)]

Data == DataOf("supplier")

CatInit ==
  /\ record = [id \in Id |-> None]
  /\ request = [t \in Clerk |-> None]
  /\ overtaken = {}

-----------------------------------------------------------------------------
RowExists(id) == record[id] # None

\* A slip of Live, for a mutant: the manager that shows all rows.
InAllObjects(id) == RowExists(id)

\* SoftDeleteManager
Live(id) == RowExists(id) /\ ~record[id].is_deleted

\* filter(code=...).exists(), by the serializer and again by the service.
Taken(table, code) ==
  \E id \in Id : Live(id) /\ record[id].table = table /\ record[id].code = code

\* The unique constraint of the table looks at all its rows.
CodeFree(row, id) ==
  \A other \in Id \ {id} :
    RowExists(other) => \/ record[other].table # row.table
                        \/ record[other].code # row.code

Given(value, default) == IF value = None THEN default ELSE value

\* Slips of the operators below, for the mutants of the checks.
OverwrittenRow(copy, data) ==
  [copy EXCEPT !.code = data.code, !.is_active = Given(data.is_active, @)]
DeletedOnly(copy) == [copy EXCEPT !.is_deleted = TRUE]
AnyCode(copy, data) == TRUE

\* setattr for every key of the request.
UpdatedRow(copy, data) ==
  [copy EXCEPT !.code = Given(data.code, @),
               !.is_deleted = Given(data.is_deleted, @),
               !.is_active = Given(data.is_active, @)]

\* is_deleted = True, is_active = False
DeletedRow(copy) == [copy EXCEPT !.is_deleted = TRUE, !.is_active = FALSE]

\* "Warehouse code cannot be changed."
CodeAllowed(copy, data) ==
  copy.table = "warehouse" => Given(data.code, copy.code) = copy.code

Doing(t, step) == request[t] # None /\ request[t].step = step

Done(t) ==
  /\ request' = [request EXCEPT ![t] = None]
  /\ overtaken' = overtaken \ {t}

-----------------------------------------------------------------------------
\* create_*: the code is not in use, as far as the manager shows.
StartCreate(t, table, data) ==
  /\ request[t] = None
  /\ data.code # None
  /\ ~Taken(table, data.code)
  /\ request' = [request EXCEPT ![t] = [step |-> "insert",
       row |-> UpdatedRow([table |-> table, code |-> data.code,
                           is_deleted |-> FALSE, is_active |-> TRUE], data)]]
  /\ UNCHANGED <<record, overtaken>>

InsertRow(t, id) ==
  /\ Doing(t, "insert")
  /\ ~RowExists(id)
  /\ CodeFree(request[t].row, id)
  /\ record' = [record EXCEPT ![id] = request[t].row]
  /\ Done(t)

\* The serializer of an update: a code that it sets must not be in use.
\* Whether there is such a row, only the service looks.
StartUpdate(t, table, id, data) ==
  /\ request[t] = None
  /\ data.code # None => ~Taken(table, data.code)
  /\ request' = [request EXCEPT ![t] =
                   [step |-> "read", table |-> table, id |-> id, data |-> data]]
  /\ UNCHANGED <<record, overtaken>>

\* update_*: read the row and change the copy.
ReadForUpdate(t) ==
  LET id == request[t].id IN
  /\ Doing(t, "read")
  /\ Live(id)
  /\ record[id].table = request[t].table
  /\ CodeAllowed(record[id], request[t].data)
  /\ request' = [request EXCEPT ![t] =
       [step |-> "save", id |-> id,
        row |-> UpdatedRow(record[id], request[t].data)]]
  /\ UNCHANGED <<record, overtaken>>

\* delete_*: read the row and mark the copy.
ReadForDelete(t, id) ==
  /\ request[t] = None
  /\ Live(id)
  /\ record[id].table \in Updated
  /\ request' = [request EXCEPT ![t] =
       [step |-> "save", id |-> id, row |-> DeletedRow(record[id])]]
  /\ UNCHANGED <<record, overtaken>>

\* save() writes every column of the copy.
SaveRow(t) ==
  LET id == request[t].id
      readers == {u \in Clerk \ {t} : Doing(u, "save") /\ request[u].id = id}
  IN
  /\ Doing(t, "save")
  /\ CodeFree(request[t].row, id)
  /\ record' = [record EXCEPT ![id] = request[t].row]
  /\ request' = [request EXCEPT ![t] = None]
  /\ overtaken' = (IF request[t].row.is_deleted THEN overtaken \cup readers
                   ELSE overtaken) \ {t}

\* The row is not found, a code is refused, the warehouse has stock, an
\* IntegrityError, or the process dies.
DropRequest(t) ==
  /\ request[t] # None
  /\ Done(t)
  /\ UNCHANGED record

CatNext ==
  \E t \in Clerk :
    \/ \E table \in Tables : \E data \in DataOf(table) :
         StartCreate(t, table, data)
    \/ \E id \in Id : \/ InsertRow(t, id) \/ ReadForDelete(t, id)
                      \/ \E table \in Updated : \E data \in DataOf(table) :
                           StartUpdate(t, table, id, data)
    \/ ReadForUpdate(t)
    \/ SaveRow(t)
    \/ DropRequest(t)

CatSpec == CatInit /\ [][CatNext]_catVars

-----------------------------------------------------------------------------
(***************************************************************************)
(* Every variable has its type, and the codes of a table are unique.       *)
(***************************************************************************)
CatTypeOK ==
  /\ record \in [Id -> Optional(Row)]
  /\ request \in [Clerk -> Optional(
       [step : {"insert"}, row : Row] \cup
       [step : {"read"}, table : Updated, id : Id, data : Data] \cup
       [step : {"save"}, id : Id, row : Row])]
  /\ overtaken \subseteq Clerk
  /\ \A id \in Id : RowExists(id) => CodeFree(record[id], id)

(***************************************************************************)
(* A clerk that is about to save a deleted row read it before it was       *)
(* deleted.  So a deletion is undone, by a save that writes is_deleted     *)
(* back, only if a request was under way across it; no later one can.      *)
(***************************************************************************)
RevivedOnlyIfOvertaken ==
  \A t \in Clerk :
    Doing(t, "save") /\ record[request[t].id].is_deleted => t \in overtaken

(***************************************************************************)
(* A deleted warehouse is not active, whatever updates of is_active run    *)
(* across the deletion: the two columns are always written together.       *)
(***************************************************************************)
DeletedInactive ==
  \A id \in Id :
    RowExists(id) /\ record[id].table = "warehouse" /\ record[id].is_deleted
      => ~record[id].is_active

(***************************************************************************)
(* The code of a warehouse never changes: update_warehouse refuses to     *)
(* change it, and an older copy that is saved over it has the same one.    *)
(***************************************************************************)
WarehouseCodeFixed ==
  [][\A id \in Id :
       RowExists(id) /\ record[id].table = "warehouse"
         => record'[id].code = record[id].code]_catVars

=============================================================================
