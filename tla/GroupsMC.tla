------------------------------- MODULE GroupsMC --------------------------------
EXTENDS Groups, TLC

NoneElse == [request \in Request |-> 0]

\* Requests that touch each other's data; all of them at once are too many.
MCLoads == {load @@ NoneElse : load \in {
    [send |-> 2, remove |-> 1, delete |-> 1],
    [send |-> 2, delete |-> 1, restart |-> 1],
    [send |-> 1, add |-> 1, delete |-> 1, restart |-> 1],
    [add |-> 2, remove |-> 2, role |-> 1],
    [add |-> 2, remove |-> 1, delete |-> 1],
    [role |-> 1, remove |-> 2, delete |-> 1],
    [add |-> 1, delete |-> 2, remove |-> 1, restart |-> 1],
    [begin |-> 1, chunk |-> 2, complete |-> 2, send |-> 1, restart |-> 1],
    [begin |-> 2, chunk |-> 3, complete |-> 2],
    [begin |-> 1, chunk |-> 3, complete |-> 2, add |-> 1, remove |-> 1],
    [begin |-> 3, complete |-> 1],
    [attach |-> 1, complete |-> 1, begin |-> 1, chunk |-> 2, delete |-> 1],
    [attach |-> 2, send |-> 1, remove |-> 1, restart |-> 1],
    [poll |-> 1, vote |-> 3, close |-> 1, restart |-> 1],
    [poll |-> 1, vote |-> 2, close |-> 1, delete |-> 1, restart |-> 1],
    [contact |-> 3, restart |-> 1],
    [contact |-> 2, delete |-> 1, restart |-> 1],
    [contact |-> 1, delete |-> 2],
    [mark |-> 2, send |-> 1],
    [mark |-> 1, send |-> 1, remove |-> 1],
    [token |-> 3, restart |-> 1],
    [token |-> 2, delete |-> 1],
    [add |-> 1, delete |-> 1, late |-> 1, restart |-> 1],
    [send |-> 1, delete |-> 1, late |-> 1, restart |-> 1],
    [contact |-> 1, delete |-> 1, late |-> 1, restart |-> 1],
    [contact |-> 2, late |-> 1, restart |-> 1],
    [poll |-> 1, vote |-> 1, close |-> 1, late |-> 1, restart |-> 1],
    [send |-> 1, attach |-> 1, late |-> 1, restart |-> 1]}}

Symmetry == Permutations(User) \cup Permutations(Handler) \cup Permutations(Token)
================================================================================
