------------------------- MODULE MCDirectoryRefresh -------------------------
(* Instances of DirectoryRefresh for TLC.                                  *)
EXTENDS DirectoryRefresh

CONSTANTS docs, home

Session(tab1, tab2, split, cache) ==
  [tab |-> [p \in Panes |-> IF p = Primary THEN tab1 ELSE tab2], split |-> split, cache |-> cache]

\* A split beside the storage view, on either side and with cached units or none, and
\* one pane; a split that opens or a pane that navigates shows one folder twice.
AllSessions == {Session(Storage, home, TRUE, Drives), Session(home, Storage, TRUE, Empty),
                Session(home, home, FALSE, Empty)}
=============================================================================
