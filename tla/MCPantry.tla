------------------------------- MODULE MCPantry -------------------------------
(* Three machines that share nothing, in one run: the server's stock and list *)
(* (two items, a tap down and a tap up, two ticks of one item and one of the  *)
(* other), the list on a phone, and one item on a phone.  "part" says which   *)
(* one moves; the other two rest in one of their initial states.              *)
EXTENDS Pantry, ShoppingList, PantryItem, TLC

CONSTANTS i1, i2, down, up, k1, k2, k3, code, l1, u1, u2

MCTapOf == (down :> [item |-> i1, delta |-> -1]) @@ (up :> [item |-> i1, delta |-> 1])
MCTickOf == [k \in Tick |-> IF k = k3 THEN i2 ELSE i1]
MCFirst == {[state |-> "live", code |-> code, qty |-> 0, min |-> 0],
            [state |-> "live", code |-> None, qty |-> 1, min |-> 1],
            [state |-> "none", code |-> None, qty |-> 0, min |-> 0]}
MCSym == Permutations(Req)

VARIABLE part

StockRests == PantryInit /\ \A i \in Item : items[i].state = "none"
ListRests == ShoppingInit /\ shop = [tick |-> [i \in Items |-> None], bought |-> {}, lines |-> [l \in Lines |-> None]]
MCInit ==
    \/ part = "stock" /\ PantryInit /\ ListRests /\ ItemInit
    \/ part = "list" /\ ShoppingInit /\ StockRests /\ ItemInit
    \/ part = "item" /\ ItemInit /\ StockRests /\ ListRests
MCNext ==
    \/ part = "stock" /\ PantryNext /\ UNCHANGED <<part, shopVars, itemVars>>
    \/ part = "list" /\ ShoppingNext /\ UNCHANGED <<part, pvars, itemVars>>
    \/ part = "item" /\ ItemNext /\ UNCHANGED <<part, pvars, shopVars>>
MCSpec == MCInit /\ [][MCNext]_<<part, pvars, shopVars, itemVars>>
===============================================================================
