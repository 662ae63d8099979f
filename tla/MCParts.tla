------------------------------ MODULE MCParts ------------------------------
(***************************************************************************)
(* What shares no state with the rest or with each other: the lines of a   *)
(* bag edited from two tabs, a customer's account, and the pure rules.  A  *)
(* behaviour exercises one of them, and the others stay as they begin.     *)
(***************************************************************************)
EXTENDS MCBag, MCAccount, MCRules

partVars == <<vars, accountVars, rulesVars>>

BagRests     == Init /\ rows = [v \in Variants |-> 0]
AccountRests == Links!Init /\ Book!Init /\ Fits!Init /\ Posts!Init

PartsInit ==
    \/ part = "bag" /\ Init /\ AccountRests /\ NoQuestion
    \/ AccountInit /\ BagRests /\ NoQuestion
    \/ part = "rules" /\ RulesInit /\ BagRests /\ AccountRests

PartsNext ==
    \/ part = "bag" /\ Next /\ UNCHANGED <<accountVars, rulesVars>>
    \/ AccountNext /\ UNCHANGED <<vars, rulesVars>>
    \/ part = "rules" /\ RulesNext /\ UNCHANGED <<vars, accountVars>>

PartsSpec == PartsInit /\ [][PartsNext]_partVars
=============================================================================
