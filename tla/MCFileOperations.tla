-------------------------- MODULE MCFileOperations --------------------------
(* Instances of FileOperations for TLC.                                    *)
EXTENDS FileOperations

CONSTANTS docs, home, x, y

Folder(cx, cy) == [n \in Names |-> IF n = x THEN cx ELSE IF n = y THEN cy ELSE None]
Holds(f, g) == [path \in Paths |-> IF path = docs THEN f ELSE g]

\* A folder that has been moved to the other path or copied from elsewhere, and no undo.
Moved == [disk |-> Holds(Folder(1, None), None),
          undo |-> [kind |-> "move", pairs |-> <<<<docs, home>>>>]]
Copied == [disk |-> Holds(Folder(1, 2), None), undo |-> [kind |-> "copy", targets |-> <<docs>>]]
Plain == [disk |-> Holds(Folder(1, None), [n \in Names |-> IF n = Own THEN 2 ELSE None]),
          undo |-> None]
AllStarts == {Moved, Copied, Plain}
=============================================================================
