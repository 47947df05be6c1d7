----------------------------- MODULE Translation -----------------------------
(***************************************************************************)
(* Moving objects between contexts (translate in z3/translate, tactic,     *)
(* astvector, model and solver; compatibleWith) and the error codes that   *)
(* tell whether it worked (checkErr in z3/error).                          *)
(*                                                                         *)
(* Z3 keeps one error code for each context, that of the last API call     *)
(* made on it, and a call is made on its first argument: a translation     *)
(* runs, and fails, on the source.  Which context's code the wrapper then  *)
(* looks at depends on the object.                                         *)
(*                                                                         *)
(* Between translations the program makes other calls, and goes on after   *)
(* one that failed: it catches the exception, or the call was one that     *)
(* reads the code and answers none (toRealOpt).                            *)
(***************************************************************************)
EXTENDS Naturals

CONSTANT Contexts

VARIABLES
    failed, \* for each context, whether its error code is that of a failure
    held,   \* references that compatibleWith holds on its ASTs of each context
    call    \* the translate or compatibleWith in progress, or the last one

vars == <<failed, held, call>>

\* What is translated.  A term, sort or func_decl goes by Z3_translate as an AST.
Objects == {"term", "sort", "func_decl", "vector", "goal", "model", "solver"}
Ops == Objects \cup {"compatibleWith"}

\* at     where the call stands
\* error  one of its own C calls has failed
\* nil    the translated handle is nil
Call(op, s, t) == [op |-> op, source |-> s, target |-> t,
                   at |-> IF op \in {"sort", "func_decl"} THEN "upcast"
                          ELSE IF op = "compatibleWith" THEN "mkTrue" ELSE "translate",
                   error |-> FALSE, nil |-> TRUE]

\* returned and raised are the ways out of translate, yes and no the answers of
\* compatibleWith.
Ended == call.at \in {"returned", "raised", "yes", "no"}

Init ==
    /\ failed = [c \in Contexts |-> FALSE]
    /\ held = [c \in Contexts |-> 0]
    /\ \E s, t \in Contexts : call = [Call("term", s, t) EXCEPT !.at = "returned"]

\* An API call on c, which fails or not.
Api(c, f) == failed' = [failed EXCEPT ![c] = f]
At(p) == call' = [call EXCEPT !.at = p]

\* The context whose code is looked at once the translation has run.
Checked == IF call.op \in {"model", "solver"} THEN call.source ELSE call.target

\* wrap and Z3Sort take a nil handle, the others raise.
TakesNil == call.op \in {"term", "sort"}

-----------------------------------------------------------------------------
\* Any other call of the program.
OtherCall(c, f) == Ended /\ Api(c, f) /\ UNCHANGED <<held, call>>

Begin(op, s, t) ==
    /\ Ended /\ s # t
    /\ call' = Call(op, s, t)
    /\ UNCHANGED <<failed, held>>

\* Z3_sort_to_ast, Z3_func_decl_to_ast: casts, which cannot fail.
Upcast ==
    /\ call.at = "upcast"
    /\ Api(call.source, FALSE) /\ At("translate")
    /\ UNCHANGED held

\* Z3_translate, Z3_goal_translate and the others.
Translate(f) ==
    /\ call.at = "translate"
    /\ Api(call.source, f)
    /\ call' = [call EXCEPT !.at = "check", !.error = f, !.nil = f]
    /\ UNCHANGED held

\* checkErr; compatibleWith asks for the code of ctxB, returns false, and its
\* defer gives the AST of ctxA back.
Check ==
    /\ call.at = "check"
    /\ \/ /\ failed[Checked] /\ call.op # "compatibleWith"
          /\ At("raised") /\ UNCHANGED <<failed, held>>
       \/ /\ failed[Checked] /\ call.op = "compatibleWith"
          /\ At("defer") /\ UNCHANGED <<failed, held>>
       \/ /\ ~failed[Checked]
          /\ At(IF call.op = "func_decl" THEN "downcast" ELSE "wrap")
          /\ UNCHANGED <<failed, held>>

\* Z3_to_func_decl: a cast.
Downcast ==
    /\ call.at = "downcast"
    /\ Api(call.target, FALSE) /\ At("wrap")
    /\ UNCHANGED held

\* The handle is counted in the target, by wrap, wrapFuncDecl, wrapAstVector and
\* the like, and returned.  A Z3Sort counts nothing, and a nil term neither.
Wrap ==
    /\ call.at = "wrap" /\ call.op # "compatibleWith"
    /\ ~call.nil \/ TakesNil
    /\ IF call.nil \/ call.op = "sort" THEN UNCHANGED failed ELSE Api(call.target, FALSE)
    /\ At("returned")
    /\ UNCHANGED held

WrapNil ==
    /\ call.at = "wrap" /\ call.op # "compatibleWith"
    /\ call.nil /\ ~TakesNil
    /\ At("raised")
    /\ UNCHANGED <<failed, held>>

-----------------------------------------------------------------------------
(* compatibleWith.                                                         *)

\* Z3_mk_true and its code; the AST is counted.
MkTrue(f) ==
    /\ call.op = "compatibleWith" /\ call.at = "mkTrue"
    /\ Api(call.source, f)
    /\ \/ f /\ call' = [call EXCEPT !.at = "no", !.error = TRUE] /\ UNCHANGED held
       \/ ~f /\ At("translate") /\ held' = [held EXCEPT ![call.source] = @ + 1]

\* The translated AST is counted and given back, or is nil; then the defer.
Probe ==
    /\ call.op = "compatibleWith" /\ call.at = "wrap"
    /\ At("defer")
    /\ IF call.nil THEN UNCHANGED failed ELSE Api(call.target, FALSE)
    /\ UNCHANGED held

\* Z3_dec_ref of the defer, on the way out with either answer.
Defer ==
    /\ call.at = "defer"
    /\ held' = [held EXCEPT ![call.source] = @ - 1]
    /\ Api(call.source, FALSE)
    /\ At(IF call.nil \/ failed[call.target] THEN "no" ELSE "yes")

Next ==
    \/ \E c \in Contexts, f \in BOOLEAN : OtherCall(c, f)
    \/ \E op \in Ops, s, t \in Contexts : Begin(op, s, t)
    \/ \E f \in BOOLEAN : Translate(f) \/ MkTrue(f)
    \/ Upcast \/ Check \/ Downcast \/ Wrap \/ WrapNil \/ Probe \/ Defer

Spec == Init /\ [][Next]_vars

-----------------------------------------------------------------------------
TypeOK ==
    /\ failed \in [Contexts -> BOOLEAN]
    /\ held \in [Contexts -> 0..1]
    /\ call \in [op : Ops, source : Contexts, target : Contexts,
                 at : {"mkTrue", "upcast", "translate", "check", "downcast", "wrap",
                       "defer", "returned", "raised", "yes", "no"},
                 error : BOOLEAN, nil : BOOLEAN]

\* translate "raises Z3Error if targetCtx can't accept the AST": a call none of
\* whose own C calls failed does not raise, whatever earlier calls of the program,
\* on either context, have left behind (checkErr after Z3_translate).
RaisesForItself == call.at = "raised" => call.error

\* The same of the objects whose translate looks at the source, where the call
\* was made (model and solver).
SourceRaisesForItself == call.op \in {"model", "solver"} => RaisesForItself

\* What translate returns is not nil, for the objects whose wrapper looks: a
\* failure that was recorded on the context nobody asked is still noticed.
NilNoticed == call.at = "returned" /\ ~TakesNil => ~call.nil

\* compatibleWith "conservative": it says yes only if its translation worked.
YesIsTrue == call.at = "yes" => ~call.error

\* The trivial AST of compatibleWith is given back on every way out.
ProbeReleased == Ended => \A c \in Contexts : held[c] = 0
=============================================================================
