---------------------------- MODULE MCPublishing ----------------------------
EXTENDS Publishing, TLC

CONSTANTS c1, c2
MCSymmetry == Permutations(Clients)

\* Bound: aliases, tags and comments are edited as matches are.  Two edits of
\* matches may follow each other; of the others, one begins as the first event,
\* and as the second only what takes an alias away again.
Edits == {"AddPlaceAlias", "DeletePlaceAlias", "SetPlaceTags", "SetPlaceComment"}
FewEdits ==
    \A c \in Clients : cmd[c].op \in Edits => spent.events = 1 \/ cmd[c].op = "DeletePlaceAlias"
=============================================================================
