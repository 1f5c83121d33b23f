-------------------------- MODULE MCTransferEngine --------------------------
(* Instances of TransferEngine for TLC.                                    *)
EXTENDS TransferEngine

CONSTANTS j1, j2, x, y

\* Both jobs run in BExplorer itself.
OneProcess == [j \in Jobs |-> "bexplorer"]

\* Two inputs of the same name from different folders: every job wants slot 1.
SameName == [s \in Inputs |-> "report"]

\* x is a folder or a file, y a file; only the bare name may be taken at first.
FolderAndFile == [p \in Inputs \cup Slots |->
  IF p = x THEN {"dir"} ELSE IF p = y THEN {"file"}
  ELSE IF p[2] = 1 THEN {"absent", "file", "dir"} ELSE {"absent"}]

OneEach == [j \in Jobs |-> IF j = j1 THEN {x} ELSE {y}]

\* j1 moves the folder x; j2 pastes the entry "report" into its own folder.
Own == <<"report", 1>>
OwnFolder == [j \in Jobs |-> IF j = j1 THEN {x} ELSE {Own}]
InputsWithOwn == {x, Own}
FolderAndOwn == [p \in Inputs \cup Slots |->
  IF p = x THEN {"dir", "bare"} ELSE IF p = Own THEN {"file"} ELSE {"absent"}]
MoveAndCopy == [j \in Jobs |-> IF j = j1 THEN {"Move"} ELSE {"Copy"}]
BothAndReplace == [j \in Jobs |-> IF j = j1 THEN {"KeepBoth"} ELSE {"Replace"}]

CopyAndMove == [j \in Jobs |-> IF j = j1 THEN {"Copy"} ELSE {"Move"}]
OnlyReplace == [j \in Jobs |-> {"Replace"}]
AnyKind == [j \in Jobs |-> {"Copy", "Move"}]
AnyPolicy == [j \in Jobs |-> {"Replace", "Skip", "KeepBoth"}]
=============================================================================
