------------------------------ MODULE RefineAbs ------------------------------
(***************************************************************************)
(* What refining one tree promises, without the in-place array: the        *)
(* quadrants of the tree are taken in order, a quadrant the callback wants *)
(* to refine is replaced in its place by its children, any other quadrant  *)
(* is appended to the result.  Unless the call is recursive, a child made  *)
(* by this call is not refined again.                                      *)
(***************************************************************************)
EXTENDS Quadrants

VARIABLES call,   \* the arguments of the call
          todo,   \* what is still to be examined, oldest first
          out     \* the result so far
vars == << call, todo, out >>

\* refine_fn (p4est, which_tree, q) && q->level < allowed_level
Wanted(q) == q \in call.refine_fn /\ Level(q) < call.allowed_level

Refines(e) == (call.refine_recursive \/ ~ e.pad8) /\ Wanted(e.quad)

Entries(s, fresh) == [i \in 1 .. Len(s) |-> [quad |-> s[i], pad8 |-> fresh]]

Init == /\ todo = Entries(call.input, FALSE)
        /\ out = << >>

Split == /\ todo # << >>
         /\ Refines(Head(todo))
         /\ todo' = Entries(Children(Head(todo).quad), TRUE) \o Tail(todo)
         /\ UNCHANGED << call, out >>

Keep == /\ todo # << >>
        /\ ~ Refines(Head(todo))
        /\ out' = Append(out, Head(todo).quad)
        /\ todo' = Tail(todo)
        /\ UNCHANGED call

Next == Split \/ Keep
Spec == Init /\ [][Next]_vars
==============================================================================
