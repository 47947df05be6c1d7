--------------------------- MODULE AssertionStack ---------------------------
(***************************************************************************)
(* What the scopes of a Z3Solver or Z3Optimize promise: a stack of sets of *)
(* assertions, and hypothetical blocks (withFrame).  A block whose body    *)
(* has closed the scopes it opened, and no other, leaves no trace: at its  *)
(* end, however it ends, the stack is what it was before.  Of any other    *)
(* block it is promised that one scope goes, and no more.  The end of a    *)
(* block that closes nothing raises an exception of its own.               *)
(***************************************************************************)
EXTENDS Naturals, Sequences

CONSTANT Constraints

VARIABLES
    stack,      \* the assertions of each scope, the outermost first
    open,       \* for each open block, the stack at its beginning, or nothing
                \* once the scope of the block has been closed under it
    raised      \* the exception on its way: "none", that of a "call", or that of
                \* the "pop" at the end of a block

vars == <<stack, open, raised>>

Init == stack = << {} >> /\ open = <<>> /\ raised = "none"

\* Of the blocks opened, those that a stack of n scopes leaves with their own.
Above(opened, n) ==
    [i \in 1..Len(opened) |-> IF Len(opened[i]) < n THEN opened[i] ELSE <<>>]

Outer == SubSeq(open, 1, Len(open) - 1)

Assert(c) ==
    /\ stack' = [stack EXCEPT ![Len(stack)] = @ \cup {c}]
    /\ UNCHANGED <<open, raised>>

Push == stack' = Append(stack, {}) /\ UNCHANGED <<open, raised>>

Pop(n) ==
    /\ n < Len(stack)
    /\ stack' = SubSeq(stack, 1, Len(stack) - n)
    /\ open' = Above(open, Len(stack) - n)
    /\ UNCHANGED raised

Reset == stack' = << {} >> /\ open' = Above(open, 1) /\ UNCHANGED raised

Begin ==
    /\ open' = Append(open, stack)
    /\ stack' = Append(stack, {})
    /\ UNCHANGED raised

\* The block has its own scope, and that is the innermost.
Level == open[Len(open)] # <<>> /\ Len(stack) = Len(open[Len(open)]) + 1

End ==
    /\ open # <<>> /\ Len(stack) > 1
    /\ IF Level THEN stack' = open[Len(open)] ELSE stack' = SubSeq(stack, 1, Len(stack) - 1)
    /\ open' = Above(Outer, Len(stack) - 1)
    /\ UNCHANGED raised

\* The block ends, and nothing is closed: an exception of its own says so, or
\* there is no scope any more.
Abandon ==
    /\ open # <<>> /\ open' = Outer /\ UNCHANGED stack
    /\ \/ raised' = "pop"
       \/ Len(stack) = 1 /\ UNCHANGED raised

Raise == raised' = "call" /\ UNCHANGED <<stack, open>>
Catch == raised' = "none" /\ UNCHANGED <<stack, open>>

Next ==
    \/ \E c \in Constraints : Assert(c)
    \/ \E n \in 1..Len(stack) : Pop(n)
    \/ Push \/ Reset \/ Begin \/ End \/ Abandon \/ Raise \/ Catch

Spec == Init /\ [][Next]_vars
=============================================================================
