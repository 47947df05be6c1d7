---------------------------- MODULE LibraryLoad ----------------------------
(***************************************************************************)
(* What ensureLoaded promises the threads that call it: libz3 is loaded at *)
(* most once in the life of the process, a call returns only when it is,   *)
(* and from then on no call raises.                                        *)
(***************************************************************************)
CONSTANT Threads

VARIABLES
    loaded,     \* libz3 is loaded, for good
    call        \* "out", "in", "ready" or "raised", for each thread

vars == <<loaded, call>>

Init == loaded = FALSE /\ call = [t \in Threads |-> "out"]

Enter(t) ==
    /\ call[t] \in {"out", "raised"}
    /\ call' = [call EXCEPT ![t] = "in"]
    /\ UNCHANGED loaded

\* The thread that loads the library returns.
Load(t) ==
    /\ call[t] = "in" /\ ~loaded
    /\ loaded' = TRUE
    /\ call' = [call EXCEPT ![t] = "ready"]

Return(t) ==
    /\ call[t] = "in" /\ loaded
    /\ call' = [call EXCEPT ![t] = "ready"]
    /\ UNCHANGED loaded

Raise(t) ==
    /\ call[t] = "in" /\ ~loaded
    /\ call' = [call EXCEPT ![t] = "raised"]
    /\ UNCHANGED loaded

\* The thread is done with what the call returned.
Leave(t) ==
    /\ call[t] = "ready"
    /\ call' = [call EXCEPT ![t] = "out"]
    /\ UNCHANGED loaded

\* The end of the process.
Shutdown ==
    /\ \A t \in Threads : call[t] # "in"
    /\ call' = [t \in Threads |-> "out"]
    /\ UNCHANGED loaded

Next ==
    \/ \E t \in Threads : Enter(t) \/ Load(t) \/ Return(t) \/ Raise(t) \/ Leave(t)
    \/ Shutdown

Spec == Init /\ [][Next]_vars
=============================================================================
