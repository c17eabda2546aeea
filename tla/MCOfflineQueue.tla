--------------------------- MODULE MCOfflineQueue ---------------------------
(* Small instances of OfflineQueue for TLC.                                  *)
EXTENDS OfflineQueue, TLC

CONSTANTS a, b, x, y, t1, t2

\* A transaction and a tick of the shopping list, or an entry marked done; a tick
\* and its untick; a new recurring item; ...
CreateAndSet == <<"create", "set">>
CreateAndDone == <<"create", "done">>
TwoSets == <<"set", "set">>
ItemOnly == <<"item">>
CreateOnly == <<"create">>
One == <<x>>
SetDoneSet == <<"set", "done", "set">>
Apart == <<x, y>>
Same == <<x, x>>
SameXYX == <<x, y, x>>

Sym == Permutations(Account) \cup Permutations(Tab)
=============================================================================
