------------------------- MODULE MCDirectoryWatcher -------------------------
(* Instances of DirectoryWatcher for TLC.                                  *)
EXTENDS DirectoryWatcher, TLC

CONSTANTS work, home, a, c, drive, p1, p2

\* One entry in each directory.
OneEach == (a :> work) @@ (c :> home)

\* What the window shows.
ShowWork  == <<{{work}}>>
LeaveWork == <<{{work, home}}, {{home}}>>
AnyTwice  == <<SUBSET {work, home}, SUBSET {work, home}>>

\* Volumes and who ejects them.
WorkBelow == drive :> {work}
EjectTwice == (p1 :> drive) @@ (p2 :> drive)
Nobody    == <<>>
=============================================================================
