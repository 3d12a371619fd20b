-------------------------- MODULE MCLoggerRegistry --------------------------
(* An instance of LoggerRegistry for TLC.  The tree has a root, the        *)
(* internal channel below it and a name below the channel, so that the     *)
(* channel is created both as the requested logger and as an ancestor.     *)
EXTENDS LoggerRegistry, TLC

CONSTANTS root, internal, deep

TreeName == {root, internal, deep}
TreeParentNameOf == (root :> root) @@ (internal :> root) @@ (deep :> internal)
=============================================================================
