---------------------------- MODULE Declarations ----------------------------
(***************************************************************************)
(* ASTBuilder walks over a source file, with CurrentScope at its place in  *)
(* the tree of scopes.  References are bound to variables then; what a     *)
(* constant among them is worth is worked out later, as often as wanted.   *)
(*                                                                         *)
(* The source file may be any program of the language made of the          *)
(* declarations and references of a unit.  What it means is carried along  *)
(* in the variables of Environment, which no action of the compiler reads. *)
(***************************************************************************)
EXTENDS InitList, Scopes

CONSTANT MaxRefs     \* bound

VARIABLES
  definitions,   \* what a variable is besides its name
  refs,          \* the references of statements, bound
  frames, count, meanings, answers

vars == <<scopeVars, definitions, refs, frames, count, meanings, answers>>

Language == INSTANCE Environment

\* The references of an expression to variables (visitVarRef, visitIndexedRef).
RECURSIVE Bind(_)
Bind(e) ==
    CASE e.kind = "num"    -> e
      [] e.kind = "var"    -> VarRef(GetVariable(current, e.var))
      [] e.kind = "elem"   -> IndexedRef(GetVariable(current, e.var),
                                         [i \in DOMAIN e.indexes |-> Bind(e.indexes[i])])
      [] e.kind = "unary"  -> Unary(e.op, Bind(e.operand))
      [] e.kind = "binary" -> Binary(e.op, Bind(e.left), Bind(e.right))
      [] e.kind = "list"   -> Nested([i \in DOMAIN e.elements |-> Bind(e.elements[i])])

Definition(d) ==
    [type |-> d.type, const |-> d.const,
     dims |-> [i \in DOMAIN d.dims |-> EvalInt(definitions, Bind(d.dims[i])) \div One],
     init |-> [i \in DOMAIN d.init |-> Bind(d.init[i])]]

Param == [type |-> "int", const |-> FALSE, dims |-> <<>>, init |-> <<>>]

-----------------------------------------------------------------------------
(* What the state means, in terms of the language *)

AllValues(total, elements) == [place \in 0 .. total - 1 |-> ValueAt(elements, place)]

\* The value of a constant, as IRBuilder would have it now.
Values(v) ==
    IF ~v.const THEN <<>>
    ELSE IF v.dims = <<>> THEN (0 :> Cast(v.type, Eval(definitions, v.init[1])))
    ELSE AllValues(TotalSize(v.dims), Elements(definitions, v))

Meaning(v) == [const |-> v.const, type |-> v.type, dims |-> v.dims, values |-> Values(v)]

\* visit(VarRef), visit(IndexedRef), visit(UnaryExpression), visit(BinaryExpression).
Answer(e) ==
    IF IsConst(definitions, e)
    THEN <<"value", IF IsIntExpr(definitions, e) THEN "int" ELSE "float", Eval(definitions, e)>>
    ELSE <<"variable", e.var>>

-----------------------------------------------------------------------------

\* How deep lists are nested.
RECURSIVE Depth(_)
Depth(e) ==
    IF e.kind # "list" THEN 0
    ELSE 1 + FoldLeft(LAMBDA deepest, f : IF Depth(f) > deepest THEN Depth(f) ELSE deepest, 0, e.elements)

\* With more braces around a value than this, getArrayElement reads past
\* the end of elementSize.
Evaluable(v) == v.init # <<>> => Depth(v.init[1]) <= Len(v.dims) + 1

Init == ScopeInit /\ definitions = <<>> /\ refs = <<>> /\ Language!Init

VisitFunction ==
    /\ OpenFunction
    /\ definitions' = definitions \o [i \in DOMAIN unit.params |-> Param]
    /\ UNCHANGED refs

\* The dimensions and the initializer are bound before the name is there.
VisitVarDef(d) ==
    /\ d.const => Evaluable(d)
    /\ definitions' = Append(definitions, Definition(d))
    /\ DeclareVariable(d.name)
    /\ UNCHANGED refs

VisitRef(e) ==
    /\ Len(refs) < MaxRefs
    /\ refs' = Append(refs, Bind(e))
    /\ UNCHANGED <<scopeVars, definitions>>

\* The compiler reads what the program says.
Next ==
    \/ Language!DeclareFunction /\ VisitFunction
    \/ /\ (Language!OpenBlock /\ OpenBlock) \/ (Language!Close /\ Close)
       /\ UNCHANGED <<definitions, refs, meanings, answers>>
    \/ \E d \in unit.decls : Language!DeclareVariable(d) /\ VisitVarDef(d)
    \/ \E e \in unit.refs : Language!Refer(e) /\ VisitRef(e)

Spec == Init /\ [][Next]_vars

-----------------------------------------------------------------------------
(* Properties *)

SameWords(total, elements, runs) ==
    /\ DOMAIN elements \subseteq 0 .. total - 1
    /\ GlobalWords(runs) = AllValues(total, elements)
    /\ LocalWords(total, runs) = AllValues(total, elements)

\* Three pieces of code interpret one list, each with counters of its own:
\* the constant evaluator, the data section and the stores of a local
\* array.  They agree on every element, whatever the braces, and what is
\* emitted is as long as the array.
ElementsAgree ==
    \A v \in {w \in ToSet(definitions) : w.dims # <<>> /\ w.init # <<>> /\ Evaluable(w)} :
        SameWords(TotalSize(v.dims), Elements(definitions, v), ArrayValue(definitions, v))

\* At every moment, every constant, worked out anew, has the value it had
\* when it was declared, whatever the names in its initializer have come to
\* refer to; and so have the references made so far.
MeansTheSame ==
    /\ frames = Frames /\ count = Len(variables)
    /\ meanings = [i \in DOMAIN definitions |-> Meaning(definitions[i])]
    /\ answers = [k \in DOMAIN refs |-> Answer(refs[k])]
=============================================================================
