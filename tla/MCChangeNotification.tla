------------------------ MODULE MCChangeNotification ------------------------
(* ChangeNotification for TLC: one watcher of each kind, on the same key. *)
EXTENDS ChangeNotification, TLC

CONSTANTS ns, nt, k1, k2

MCFilter == (ns :> Keys) @@ (nt :> {k1})
MCMask == (ns :> Edits) @@ (nt :> Edits \ {"delete"})
=============================================================================
