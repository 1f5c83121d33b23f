--------------------------- MODULE MCCacheWriter ----------------------------
(* Instances of CacheWriter for TLC.                                       *)
EXTENDS CacheWriter, TLC

CONSTANTS process, ui, writerThread

ThreadOwners == (ui :> process) @@ (writerThread :> process)
Windows == process :> ui
Writers == process :> writerThread
=============================================================================
