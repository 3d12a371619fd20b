---------------------------- MODULE LoggerObserver ----------------------------
(***************************************************************************)
(* Logger with a history variable: for each goroutine that is resolving a  *)
(* setting, the values that setting has effectively had, at one instant    *)
(* for the whole chain, since the walk began.                              *)
(***************************************************************************)
EXTENDS Logger

VARIABLE seen

observed == <<vars, seen>>

(* What the setting is when the chain is read at a single instant.         *)
Effective(l, d) ==
    LET m == Source(l, d)
    IN  IF own[m][d] = Inherit THEN Default[d] ELSE own[m][d]

Observe ==
    seen' = [g \in Goroutine |->
               IF pc'[g] \notin Dimension THEN {}
               ELSE (IF pc'[g] = pc[g] THEN seen[g] ELSE {})
                      \cup {Effective(call[g].logger, pc[g])'}]

ObservedInit == Init /\ seen = [g \in Goroutine |-> {}]

ObservedNext == Next /\ Observe

ObservedSpec == ObservedInit /\ [][ObservedNext]_observed

(* The walk up the chain takes and releases one lock per logger            *)
(* (logger.go:188-201), yet what it resolves is a value the setting really *)
(* had while it walked, never a mix of two moments, as long as each        *)
(* setting is changed on one logger only.                                  *)
ResolvedWasEffective ==
    \A g \in Goroutine :
        pc[g] \in Dimension /\ WalkEnds(g) => Value(g) \in seen[g]
=============================================================================
