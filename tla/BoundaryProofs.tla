--------------------------- MODULE BoundaryProofs ---------------------------
(***************************************************************************)
(* Theorems about what crosses a boundary and must arrive as it was: AST   *)
(* objects and their errors between any set of contexts (Translation), and *)
(* integers of Nim between machine words and bit vectors of any width      *)
(* (Conversions).                                                          *)
(***************************************************************************)
EXTENDS Translation, Conversions, TLAPS

-----------------------------------------------------------------------------
(* Between contexts.                                                       *)

(***************************************************************************)
(* Where a call stands determines what it has done: no C call of its own   *)
(* has failed before the translation, a failure of the translation leaves  *)
(* a nil handle and stays recorded on the source until the source is used  *)
(* again, and the probe is held from mkTrue to the defer.                  *)
(***************************************************************************)
Holding == call.op = "compatibleWith" /\ call.at \in {"translate", "check", "wrap", "defer"}

CallInv ==
    /\ ~Ended => call.source # call.target
    /\ call.at \in {"upcast", "mkTrue", "translate"} => ~call.error
    /\ call.at \in {"check", "downcast", "wrap", "defer"} => (call.error <=> call.nil)
    /\ call.at = "check" => (failed[call.source] <=> call.error)
    /\ call.at \in {"mkTrue", "yes", "no", "defer"} => call.op = "compatibleWith"
    /\ call.at = "upcast" => call.op \in {"sort", "func_decl"}
    /\ call.at = "downcast" => call.op = "func_decl"
    /\ call.at \in {"returned", "raised"} => call.op # "compatibleWith"
    /\ call.op \in {"model", "solver"} /\ call.at \in {"wrap", "returned"} => ~call.nil

HeldInv == \A c \in Contexts : held[c] = IF Holding /\ c = call.source THEN 1 ELSE 0

IInv == TypeOK /\ CallInv /\ HeldInv /\ SourceRaisesForItself /\ NilNoticed /\ YesIsTrue

LEMMA InitIInv == Init => IInv
<1> SUFFICES ASSUME Init PROVE IInv
    OBVIOUS
<1>1. PICK s \in Contexts, t \in Contexts :
         call = [op |-> "term", source |-> s, target |-> t, at |-> "returned",
                 error |-> FALSE, nil |-> TRUE]
    BY DEF Init, Call
<1>2. failed = [c \in Contexts |-> FALSE] /\ held = [c \in Contexts |-> 0]
    BY DEF Init
<1>3. QED
    BY <1>1, <1>2 DEF IInv, TypeOK, CallInv, HeldInv, Holding, SourceRaisesForItself,
       RaisesForItself, NilNoticed, YesIsTrue, Ended, Ops, Objects, TakesNil

LEMMA StepIInv == IInv /\ [Next]_vars => IInv'
<1> SUFFICES ASSUME IInv, [Next]_vars PROVE IInv'
    OBVIOUS
<1> USE DEF IInv, TypeOK, CallInv, HeldInv, Holding, SourceRaisesForItself, RaisesForItself,
            NilNoticed, YesIsTrue, Ended, Ops, Objects, TakesNil, Api, At
<1>1. ASSUME NEW c \in Contexts, NEW f \in BOOLEAN, OtherCall(c, f) PROVE IInv'
    BY <1>1 DEF OtherCall
<1>2. ASSUME NEW op \in Ops, NEW s \in Contexts, NEW t \in Contexts, Begin(op, s, t)
      PROVE  IInv'
    BY <1>2 DEF Begin, Call
<1>3. ASSUME NEW f \in BOOLEAN, Translate(f) PROVE IInv'
    BY <1>3 DEF Translate
<1>4. ASSUME NEW f \in BOOLEAN, MkTrue(f) PROVE IInv'
    <2>1. call.op = "compatibleWith" /\ call.at = "mkTrue" /\ Api(call.source, f)
        BY <1>4 DEF MkTrue
    <2>2. ASSUME call' = [call EXCEPT !.at = "no", !.error = TRUE], UNCHANGED held
          PROVE  IInv'
        BY <2>1, <2>2
    <2>3. ASSUME At("translate"), held' = [held EXCEPT ![call.source] = @ + 1]
          PROVE  IInv'
        BY <2>1, <2>3
    <2>4. QED BY <1>4, <2>2, <2>3 DEF MkTrue
<1>5. CASE Upcast BY <1>5 DEF Upcast
<1>6. CASE Check BY <1>6 DEF Check, Checked
<1>7. CASE Downcast BY <1>7 DEF Downcast
<1>8. CASE Wrap BY <1>8 DEF Wrap
<1>9. CASE WrapNil BY <1>9 DEF WrapNil
<1>10. CASE Probe BY <1>10 DEF Probe
<1>11. CASE Defer BY <1>11 DEF Defer
<1>12. CASE UNCHANGED vars BY <1>12 DEF vars
<1>13. QED BY <1>1, <1>2, <1>3, <1>4, <1>5, <1>6, <1>7, <1>8, <1>9, <1>10, <1>11, <1>12 DEF Next

THEOREM Safety == Spec => []IInv
BY InitIInv, StepIInv, PTL DEF Spec

(***************************************************************************)
(* Every variable keeps its type; in particular no reference of            *)
(* compatibleWith is taken twice or given back twice.                      *)
(***************************************************************************)
THEOREM TypeCorrect == Spec => []TypeOK
<1>1. IInv => TypeOK BY DEF IInv
<1>2. QED BY Safety, <1>1, PTL

(***************************************************************************)
(* translate of a model or a solver (z3/model, z3/solver), which looks at  *)
(* the context that the call was made on, raises only for a failure of its *)
(* own.  This is what the other translates lack.                           *)
(***************************************************************************)
THEOREM SourceIsRight == Spec => []SourceRaisesForItself
<1>1. IInv => SourceRaisesForItself BY DEF IInv
<1>2. QED BY Safety, <1>1, PTL

(***************************************************************************)
(* A failure that checkErr looked for on the wrong context is noticed all  *)
(* the same where the wrapper of the handle tests for nil.                 *)
(***************************************************************************)
THEOREM NilIsNoticed == Spec => []NilNoticed
<1>1. IInv => NilNoticed BY DEF IInv
<1>2. QED BY Safety, <1>1, PTL

(***************************************************************************)
(* compatibleWith never says yes when its translation failed.              *)
(***************************************************************************)
THEOREM YesIsSound == Spec => []YesIsTrue
<1>1. IInv => YesIsTrue BY DEF IInv
<1>2. QED BY Safety, <1>1, PTL

(***************************************************************************)
(* compatibleWith gives its probe back on every way out.                   *)
(***************************************************************************)
THEOREM ProbeIsReleased == Spec => []ProbeReleased
<1>1. IInv => ProbeReleased BY DEF IInv, HeldInv, Holding, ProbeReleased, Ended
<1>2. QED BY Safety, <1>1, PTL

-----------------------------------------------------------------------------
(***************************************************************************)
(* Between machine words and bit vectors.                                  *)
(*                                                                         *)
(* Powers of two enter by what the conversions need of them only: half is  *)
(* 2^(w-1), and a word of at least w bits is a multiple of 2^w.            *)
(***************************************************************************)

LEMMA ModShift ==
    ASSUME NEW m \in Nat \ {0}, NEW n \in 0..(m - 1), NEW k \in Int
    PROVE  (n + k * m) % m = n
BY Z3T(30)

LEMMA ModSplit ==
    ASSUME NEW m \in Nat \ {0}, NEW x \in Int
    PROVE  x % m \in 0..(m - 1) /\ \E k \in Int : x = (x % m) + k * m
<1>1. x = m * (x \div m) + (x % m) /\ x % m \in 0..(m - 1) /\ x \div m \in Int
    BY Z3T(30)
<1>2. x = (x % m) + (x \div m) * m
    BY <1>1, Z3T(30)
<1>3. QED BY <1>1, <1>2

LEMMA ModAdd ==
    ASSUME NEW m \in Nat \ {0}, NEW x \in Int, NEW k \in Int
    PROVE  (x + k * m) % m = x % m
<1>1. PICK j \in Int : x = (x % m) + j * m
    BY ModSplit
<1>2. x + k * m = (x % m) + (j + k) * m
    BY <1>1, ModSplit, Z3T(30)
<1>3. j + k \in Int /\ x % m \in 0..(m - 1)
    BY ModSplit
<1>4. ((x % m) + (j + k) * m) % m = x % m
    BY <1>3, ModShift
<1>5. QED BY <1>2, <1>4

(***************************************************************************)
(* For a width that divides the word, mkBitVec makes the literal that its  *)
(* doc promises, the integer modulo 2^w, of negative integers too.         *)
(***************************************************************************)
THEOREM NarrowLiteral ==
    ASSUME NEW half \in Nat \ {0}, NEW k \in Nat, NEW word \in Nat, word = k * (half + half),
           NEW v \in Int
    PROVE  MkBitVec(word, half, v) = v % (half + half)
<1>1. half + half \in Nat \ {0} /\ k \in Int
    OBVIOUS
<1>2. (v + k * (half + half)) % (half + half) = v % (half + half)
    BY <1>1, ModAdd
<1>3. QED BY <1>2 DEF MkBitVec, Numeral, ToWord

(***************************************************************************)
(* For a wider vector no negative integer becomes the literal that the doc *)
(* promises: the word is extended with zeros.                              *)
(***************************************************************************)
THEOREM WideLiteralWrong ==
    ASSUME NEW half \in Nat \ {0}, NEW word \in Nat, word < half + half,
           NEW v \in Int, v < 0, -word <= v
    PROVE  MkBitVec(word, half, v) = v + word /\ v % (half + half) = v + (half + half)
<1> DEFINE m == half + half
<1>1. m \in Nat \ {0}
    OBVIOUS
<1>2. v + word \in 0..(m - 1) /\ v + m \in 0..(m - 1)
    OBVIOUS
<1>3. (v + word) % m = v + word
    BY <1>1, <1>2, Z3T(30)
<1>4. v % m = v + m
    <2>1. ((v + m) + (-1) * m) % m = v + m
        BY <1>1, <1>2, ModShift
    <2>2. (v + m) + (-1) * m = v
        BY <1>1
    <2>3. QED BY <2>1, <2>2
<1>5. QED BY <1>3, <1>4 DEF MkBitVec, Numeral, ToWord

(***************************************************************************)
(* toInt, toInt64Opt and toIntOpt: of every vector no wider than a word    *)
(* the two's-complement value, although the subtraction of 2^w is done in  *)
(* the unsigned domain and may wrap.                                       *)
(***************************************************************************)
THEOREM TwosComplement ==
    ASSUME NEW half \in Nat \ {0}, NEW word \in Nat,
           half + half = word \/ 4 * half <= word,
           NEW n \in 0..(half + half - 1)
    PROVE  ToInt(word, half, n) = IF n < half THEN n ELSE n - (half + half)
BY DEF ToInt, AsSigned, Minus

(***************************************************************************)
(* An integer that w bits can hold is read back as it was, through both    *)
(* conversions.                                                            *)
(***************************************************************************)
THEOREM RoundTrip ==
    ASSUME NEW half \in Nat \ {0}, NEW k \in Nat, NEW word \in Nat, word = k * (half + half),
           half + half = word \/ 4 * half <= word,
           NEW v \in -half..(half - 1)
    PROVE  ToInt(word, half, MkBitVec(word, half, v)) = v
<1> DEFINE m == half + half
<1>1. m \in Nat \ {0} /\ v \in Int
    OBVIOUS
<1>2. MkBitVec(word, half, v) = v % m
    BY NarrowLiteral, <1>1
<1>3. CASE v >= 0
    <2>1. v % m = v
        BY <1>3, <1>1, Z3T(30)
    <2>2. v \in 0..(half + half - 1) /\ v < half
        BY <1>3
    <2>3. ToInt(word, half, v) = v
        BY <2>2, TwosComplement
    <2>4. QED BY <1>2, <2>1, <2>3
<1>4. CASE v < 0
    <2>1. v + m \in 0..(m - 1)
        BY <1>4
    <2>2. ((v + m) + (-1) * m) % m = v + m
        BY <1>1, <2>1, ModShift
    <2>3. (v + m) + (-1) * m = v
        BY <1>1
    <2>4. v % m = v + m
        BY <2>2, <2>3
    <2>5. ToInt(word, half, v + m) = v
        <3>1. v + m \in 0..(half + half - 1) /\ ~(v + m < half)
            BY <1>4
        <3>2. ToInt(word, half, v + m) = (v + m) - (half + half)
            BY <3>1, TwosComplement
        <3>3. QED BY <3>2, <1>1
    <2>6. QED BY <1>2, <2>4, <2>5
<1>5. QED BY <1>3, <1>4, <1>1
=============================================================================
