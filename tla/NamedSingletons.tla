--------------------------- MODULE NamedSingletons ---------------------------
(***************************************************************************)
(* What the logger registry promises to the callers of Get: a table that   *)
(* interns one instance per name, parents before children.  A call is      *)
(* answered, in one indivisible step, with the instance its name is bound  *)
(* to at that moment; a binding changes only when the whole table is       *)
(* forgotten, and an instance that was forgotten is never bound again.     *)
(***************************************************************************)
CONSTANTS Name, Root, ParentNameOf, Node, Nil, Goroutine

VARIABLES table,   \* the instance each name is bound to, or Nil
          used,    \* the instances that were ever bound
          call,    \* the name each goroutine waits for, or Nil
          answer   \* the instance on its way back to each goroutine, or Nil

vars == <<table, used, call, answer>>

Init == /\ table = [n \in Name |-> Nil]
        /\ used = {}
        /\ call = [g \in Goroutine |-> Nil]
        /\ answer = [g \in Goroutine |-> Nil]

Bind(n) ==
    /\ table[n] = Nil
    /\ n = Root \/ table[ParentNameOf[n]] # Nil
    /\ \E m \in Node \ used : /\ table' = [table EXCEPT ![n] = m]
                              /\ used' = used \cup {m}

Invoke(g, n) ==
    /\ call[g] = Nil /\ answer[g] = Nil
    /\ call' = [call EXCEPT ![g] = n]
    /\ UNCHANGED <<table, used, answer>>

Intern(n) == Bind(n) /\ UNCHANGED <<call, answer>>

Reply(g) ==
    /\ call[g] # Nil
    /\ \/ table[call[g]] # Nil /\ UNCHANGED <<table, used>>
       \/ Bind(call[g])
    /\ answer' = [answer EXCEPT ![g] = table'[call[g]]]
    /\ call' = [call EXCEPT ![g] = Nil]

Take(g) ==
    /\ answer[g] # Nil
    /\ answer' = [answer EXCEPT ![g] = Nil]
    /\ UNCHANGED <<table, used, call>>

Forget == /\ table' = [n \in Name |-> Nil]
          /\ UNCHANGED <<used, call, answer>>

Next == \/ \E g \in Goroutine : Reply(g) \/ Take(g) \/ \E n \in Name : Invoke(g, n)
        \/ \E n \in Name : Intern(n)
        \/ Forget

Spec == Init /\ [][Next]_vars
=============================================================================
