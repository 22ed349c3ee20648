---------------------------- MODULE CategoryTree ----------------------------
(***************************************************************************)
(* Categories and the tree of them.  A request looks the parent up and     *)
(* inserts the row in a second statement; ids are given at the insert.     *)
(* The tree is computed from one query over all categories.                *)
(***************************************************************************)
EXTENDS Naturals, FiniteSets, Nullable

CONSTANTS
  Editor,        \* threads that create categories
  MaxCategories  \* bound of the model

ASSUME CategoryTreeAssumption == MaxCategories \in Nat /\ None \notin Nat

VARIABLES
  parent,   \* per category: its parent, None at the top; ids from one on
  creating  \* per editor: the parent of the category it creates

treeVars == <<parent, creating>>

Categories == DOMAIN parent

TreeInit ==
  /\ parent = [c \in {} |-> None]
  /\ creating = [t \in Editor |-> None]

-----------------------------------------------------------------------------
\* Category.objects.get(id=parent_id), if the request names a parent.
FindParent(t, p) ==
  /\ creating[t] = None
  /\ p \in Optional(Categories)
  /\ creating' = [creating EXCEPT ![t] = [parent |-> p]]
  /\ UNCHANGED parent

InsertCategory(t) ==
  LET id == Cardinality(Categories) + 1 IN
  /\ creating[t] # None
  /\ id <= MaxCategories
  /\ parent' = [c \in Categories \cup {id} |->
                  IF c = id THEN creating[t].parent ELSE parent[c]]
  /\ creating' = [creating EXCEPT ![t] = None]

\* The code is in use, or the request dies.
GiveUpCategory(t) ==
  /\ creating[t] # None
  /\ creating' = [creating EXCEPT ![t] = None]
  /\ UNCHANGED parent

TreeNext ==
  \E t \in Editor :
    \/ \E p \in Optional(1..MaxCategories) : FindParent(t, p)
    \/ InsertCategory(t) \/ GiveUpCategory(t)

TreeSpec == TreeInit /\ [][TreeNext]_treeVars

-----------------------------------------------------------------------------
\* A slip of TopLevel, for a mutant: the else of the loop is lost.
Anyway(c) == TRUE

\* tree.append(cat)
TopLevel(c) == parent[c] = None

\* parent.children_list.append(cat)
Children(c) == {d \in Categories : parent[d] = c}

\* serialize_node goes down from a node to its children: what it shows is
\* in every set that has the node and the children of its members.
Below(c) ==
  {e \in Categories :
     \A shown \in SUBSET Categories :
       c \in shown /\ (\A d \in shown : Children(d) \subseteq shown)
         => e \in shown}

(***************************************************************************)
(* get_category_tree shows every category once: it is below exactly one of *)
(* the categories at the top, whatever creations run side by side.         *)
(***************************************************************************)
TreeShowsEachOnce ==
  \A c \in Categories :
    Cardinality({d \in Categories : TopLevel(d) /\ c \in Below(d)}) = 1

=============================================================================
