----------------------------- MODULE ScopedSinks -----------------------------
(***************************************************************************)
(* What ScopeSinks promises to the users of the loggers: the sinks of a    *)
(* logger are those of the scope opened last among the ones open on it,    *)
(* and, when none is open, the ones it had before the first.  A scope may  *)
(* end in any order with respect to the others.                            *)
(***************************************************************************)
EXTENDS Sequences, SequencesExt

CONSTANTS Logger, List, Override

VARIABLES base,   \* the sinks of each logger outside every scope
          open,   \* the logger and the sinks of each open scope, oldest first
          shown   \* the sinks an emit through each logger finds

vars == <<base, open, shown>>

On(l) == {i \in DOMAIN open : open[i].logger = l}

Visible(l) == IF On(l) = {} THEN base[l] ELSE open[Max(On(l))].sinks

Show == shown' = [l \in Logger |-> Visible(l)']

Init == /\ base \in [Logger -> List]
        /\ open = <<>>
        /\ shown = base

(* Outside of scopes the sinks may be changed at any time.                 *)
Change == /\ base' \in [Logger -> List]
          /\ \A l \in Logger : On(l) # {} => base'[l] = base[l]
          /\ UNCHANGED open
          /\ Show

Begin(l, v) == /\ open' = Append(open, [logger |-> l, sinks |-> v])
               /\ UNCHANGED base
               /\ Show

End(i) == /\ open' = RemoveAt(open, i)
          /\ UNCHANGED base
          /\ Show

Next == \/ Change
        \/ \E l \in Logger, v \in Override : Begin(l, v)
        \/ \E i \in DOMAIN open : End(i)

Spec == Init /\ [][Next]_vars
=============================================================================
