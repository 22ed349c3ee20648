--------------------------------- MODULE MCApi ---------------------------------
(* A purchase order, a sales order, its author and a warehouse manager. *)
EXTENDS Api, TLC

CONSTANTS author, manager

MCRoleOf == author :> "PROCUREMENT_MANAGER" @@ manager :> "WAREHOUSE_MANAGER"

=============================================================================
