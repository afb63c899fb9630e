----------------------------- MODULE ConstEval -----------------------------
(***************************************************************************)
(* The constant evaluator: ExpressionHandle and getArrayElement.           *)
(*                                                                         *)
(* The value of a constant is nowhere kept.  Whenever one is wanted, the   *)
(* initializer of its variable is evaluated again, through the variables   *)
(* vs that the references in it were bound to when it was parsed.  (What   *)
(* getArrayElement found once it keeps in a cache.  An initializer never   *)
(* changes after its variable has come into scope, so that the cache only  *)
(* saves time, and is left out.)                                           *)
(***************************************************************************)
EXTENDS ConstExpr, ArrayType, SequencesExt

RECURSIVE IsConst(_, _), IsIntExpr(_, _), EvalInt(_, _), EvalFloat(_, _), ProcessNest(_, _, _, _, _)

IsConst(vs, e) ==
    CASE e.kind = "num"  -> TRUE
      [] e.kind = "var"  -> vs[e.var].const
      [] e.kind = "elem" ->
            /\ vs[e.var].const
            /\ Len(e.indexes) = Len(vs[e.var].dims)
            /\ \A i \in DOMAIN e.indexes : IsConst(vs, e.indexes[i])
      [] e.kind = "unary"  -> IsConst(vs, e.operand)
      [] e.kind = "binary" -> IsConst(vs, e.left) /\ IsConst(vs, e.right)
      [] e.kind = "list"   -> \A i \in DOMAIN e.elements : IsConst(vs, e.elements[i])

IsIntExpr(vs, e) ==
    CASE e.kind = "num" -> e.type = "int"
      [] e.kind \in {"var", "elem"} -> vs[e.var].type = "int"
      [] e.kind = "unary"  -> e.op = "NOT" \/ IsIntExpr(vs, e.operand)
      [] e.kind = "binary" -> e.op \in Logicals \/ (IsIntExpr(vs, e.left) /\ IsIntExpr(vs, e.right))

\* Every caller asks isIntExpr first.
Eval(vs, e) == IF IsIntExpr(vs, e) THEN EvalInt(vs, e) ELSE EvalFloat(vs, e)

\* getArrayElement: the elements of var by their places, those not named
\* left out.  deep and index are the captured counters of the lambda.
ProcessNest(vs, type, dims, st, elements) ==
    LET maxSize == IF st.deep > 0 THEN ElementSize(dims)[st.deep] ELSE TotalSize(dims)
        oneOnly == st.index % maxSize # 0 \/ st.deep + 1 > Len(dims)
        Put(s, e) ==
            IF s.index = st.index + maxSize THEN s
            ELSE IF e.kind = "list" THEN ProcessNest(vs, type, dims, s, e.elements)
            ELSE [s EXCEPT !.at = (s.index :> Cast(type, Eval(vs, e))) @@ @, !.index = @ + 1]
        put == FoldLeft(Put, [st EXCEPT !.deep = @ + 1],
                        IF oneOnly /\ elements # <<>> THEN <<elements[1]>> ELSE elements)
    IN [put EXCEPT !.index = IF oneOnly THEN @ ELSE st.index + maxSize, !.deep = @ - 1]

Elements(vs, v) ==
    ProcessNest(vs, v.type, v.dims, [deep |-> 0, index |-> 0, at |-> <<>>], v.init[1].elements).at

ValueAt(elements, place) == IF place \in DOMAIN elements THEN elements[place] ELSE 0

GetArrayElement(vs, e) ==
    LET v     == vs[e.var]
        place == FoldLeftDomain(
                     LAMBDA sum, i : sum + (EvalInt(vs, e.indexes[i]) \div One) * ElementSize(v.dims)[i],
                     0, e.indexes)
    IN IF v.init = <<>> THEN 0 ELSE ValueAt(Elements(vs, v), place)

\* Mutant: a constant is worth its initializer, whatever its own type is.
EvalIntUncast(vs, e) ==
    CASE e.kind = "num"  -> e.v
      [] e.kind = "var"  -> Eval(vs, vs[e.var].init[1])
      [] e.kind = "elem" -> GetArrayElement(vs, e)
      [] e.kind = "unary" /\ e.op = "NOT"   -> Truth(Eval(vs, e.operand) = 0)
      [] e.kind = "unary" /\ e.op = "MINUS" -> -EvalInt(vs, e.operand)
      [] e.kind = "unary" /\ e.op = "PLUS"  -> EvalInt(vs, e.operand)
      [] e.kind = "binary" ->
            IF e.op \in Logicals THEN Truth(Holds(e.op, Eval(vs, e.left), Eval(vs, e.right)))
            ELSE Arith(e.op, EvalInt(vs, e.left), EvalInt(vs, e.right))

EvalInt(vs, e) ==
    CASE e.kind = "num"  -> e.v
      [] e.kind = "var"  -> Cast("int", Eval(vs, vs[e.var].init[1]))
      [] e.kind = "elem" -> GetArrayElement(vs, e)
      [] e.kind = "unary" /\ e.op = "NOT"   -> Truth(Eval(vs, e.operand) = 0)
      [] e.kind = "unary" /\ e.op = "MINUS" -> -EvalInt(vs, e.operand)
      [] e.kind = "unary" /\ e.op = "PLUS"  -> EvalInt(vs, e.operand)
      [] e.kind = "binary" ->
            IF e.op \in Logicals THEN Truth(Holds(e.op, Eval(vs, e.left), Eval(vs, e.right)))
            ELSE Arith(e.op, EvalInt(vs, e.left), EvalInt(vs, e.right))

EvalFloat(vs, e) ==
    CASE e.kind = "num"  -> e.v
      [] e.kind = "var"  -> Eval(vs, vs[e.var].init[1])
      [] e.kind = "elem" -> GetArrayElement(vs, e)
      [] e.kind = "unary"  -> IF e.op = "MINUS" THEN -EvalFloat(vs, e.operand) ELSE EvalFloat(vs, e.operand)
      [] e.kind = "binary" -> Arith(e.op, Eval(vs, e.left), Eval(vs, e.right))
=============================================================================
