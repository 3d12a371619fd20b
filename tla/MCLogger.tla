------------------------------- MODULE MCLogger -------------------------------
(* Instances of Logger for TLC.  The registry holds the root, one          *)
(* application logger and the internal channel, both children of the root. *)
EXTENDS Logger, TLC

CONSTANTS root, app, internal, kid1,
          g1, g2, g3, s1, s2, s3, k1, k2, r1

Tree == {root, app, internal}
TreeParents == (root :> Nil) @@ (app :> root) @@ (internal :> root)

Option(group, d, l, v) == [group |-> group, dim |-> d, logger |-> l, value |-> v]
Setting(l, d, v) == [logger |-> l, dim |-> d, value |-> v]

(* One bootstrap that uses every group of options and disables redaction,  *)
(* with an internal logger that passes the warning about it.               *)
Bootstrap == {Option("min", "min", root, 13),
              Option("sinks", "sinks", root, <<s2, s1>>),
              Option("resource", "resource", root, r1),
              Option("levels", "min", app, 9),
              Option("levels", "min", internal, 13),
              Option("suffixes", "suffixes", root, {})}
(* A later one that only changes the level of one logger.                  *)
Bootstraps == {Bootstrap, {Option("levels", "min", app, 9)}}

(* A root level above WARN, and redaction switched off.                    *)
Silencing == {{Option("min", "min", root, 17), Option("suffixes", "suffixes", root, {})}}

(* Each setting is changed on one logger, not the same for all.            *)
OneOwner == {Setting(root, "min", 13), Setting(root, "min", 1),
             Setting(app, "suffixes", {}), Setting(app, "suffixes", Inherit),
             Setting(root, "resource", r1), Setting(root, "resource", Inherit),
             Setting(app, "sinks", <<s1, s1>>), Setting(app, "sinks", <<>>)}

Quieter == {Setting(app, "min", 13), Setting(app, "min", Inherit)}

None == {}
Console == <<s3>>
ScopeLists == {<<s1>>, <<s2, s1>>}

ConfigureRoles == (g1 :> {"configure"}) @@ (g2 :> {"emit"})
SetRoles == (g1 :> {"set"}) @@ (g2 :> {"emit", "detach"}) @@ (g3 :> {"set"})
ScopeRoles == (g1 :> {"scope", "emit"}) @@ (g2 :> {"detach", "set"})
=============================================================================
