------------------------------ MODULE MCParts -------------------------------
(* The parts of the system that share no state with the stock services or   *)
(* with each other.  Each behaviour is one of one part; the others stay in  *)
(* their initial states.                                                    *)
EXTENDS OrderNumbers, LoginThrottle, CategoryTree, Accounts,
        Valuation, OrderSummaries, StockEvents

VARIABLE part

tableVars == <<treeVars, accountVars, valuationVars, summaryVars>>

MCInit ==
  /\ part \in {"numbers", "logins", "tree", "accounts", "valuation",
               "summaries", "events"}
  /\ ONInit /\ LTInit /\ TreeInit /\ AccInit /\ SumInit /\ SEInit
  /\ ValInit /\ (part # "valuation" => \A w \in Depot : value[w] = 0)

RedisStep ==
  \/ part = "numbers" /\ ONNext /\ UNCHANGED <<throttleVars, eventVars>>
  \/ part = "logins" /\ LTNext /\ UNCHANGED <<numberVars, eventVars>>
  \/ part = "events" /\ SENext /\ UNCHANGED <<numberVars, throttleVars>>

TableStep ==
  \/ /\ part = "tree" /\ TreeNext
     /\ UNCHANGED <<accountVars, valuationVars, summaryVars>>
  \/ /\ part = "accounts" /\ AccNext
     /\ UNCHANGED <<treeVars, valuationVars, summaryVars>>
  \/ /\ part = "valuation" /\ ValNext
     /\ UNCHANGED <<treeVars, accountVars, summaryVars>>
  \/ /\ part = "summaries" /\ SumNext
     /\ UNCHANGED <<treeVars, accountVars, valuationVars>>

MCNext ==
  /\ UNCHANGED part
  /\ \/ RedisStep /\ UNCHANGED tableVars
     \/ TableStep /\ UNCHANGED <<numberVars, throttleVars, eventVars>>

MCSpec ==
  /\ MCInit /\ [][MCNext]_<<numberVars, throttleVars, eventVars, tableVars, part>>
  /\ SEFairness

MCTypeOK ==
  /\ ONTypeOK /\ LTTypeOK /\ SETypeOK
  /\ AccTypeOK /\ ValTypeOK /\ SumTypeOK

=============================================================================
