---------------------------- MODULE Environment ----------------------------
(***************************************************************************)
(* What declarations and references mean, written from the language and    *)
(* not from the compiler.  NameStack says which declaration a name refers  *)
(* to; a declaration has a meaning, which is worked out from its           *)
(* initializer before it binds its name, and does not change.              *)
(*                                                                         *)
(* An environment is a stack of frames with the meanings of all            *)
(* declarations so far.                                                    *)
(***************************************************************************)
EXTENDS ConstExpr, NameStack

VARIABLES meanings,  \* of the declarations, by their numbers
          answers    \* what the references so far referred to

\* Of a name.
Meaning(en, x) == en.meanings[Lookup(en.frames, x)]

RECURSIVE Value(_, _), Constant(_, _), WellFormed(_, _), FirstValue(_, _, _), Fill(_, _, _, _, _, _)

\* A value with its type.  The usual conversions: two ints give an int.
Value(en, e) ==
    CASE e.kind = "num"  -> [type |-> e.type, v |-> e.v]
      [] e.kind = "var"  -> [type |-> Meaning(en, e.var).type, v |-> Meaning(en, e.var).values[0]]
      [] e.kind = "elem" ->
            LET a == Meaning(en, e.var)
                place[i \in 0 .. Len(e.indexes)] ==
                    IF i = 0 THEN 0 ELSE place[i - 1] * a.dims[i] + Value(en, e.indexes[i]).v \div One
            IN [type |-> a.type, v |-> a.values[place[Len(e.indexes)]]]
      [] e.kind = "unary" ->
            LET w == Value(en, e.operand)
            IN IF e.op = "NOT" THEN [type |-> "int", v |-> Truth(w.v = 0)]
               ELSE IF e.op = "MINUS" THEN [w EXCEPT !.v = -@] ELSE w
      [] e.kind = "binary" ->
            LET l == Value(en, e.left)  r == Value(en, e.right)
            IN IF e.op \in Logicals THEN [type |-> "int", v |-> Truth(Holds(e.op, l.v, r.v))]
               ELSE [type |-> IF l.type = "int" THEN r.type ELSE "float", v |-> Arith(e.op, l.v, r.v)]

Constant(en, e) ==
    CASE e.kind = "num"    -> TRUE
      [] e.kind = "var"    -> Meaning(en, e.var).const
      [] e.kind = "elem"   -> Meaning(en, e.var).const /\ \A i \in DOMAIN e.indexes : Constant(en, e.indexes[i])
      [] e.kind = "unary"  -> Constant(en, e.operand)
      [] e.kind = "binary" -> Constant(en, e.left) /\ Constant(en, e.right)
      [] e.kind = "list"   -> \A i \in DOMAIN e.elements : Constant(en, e.elements[i])

-----------------------------------------------------------------------------
(* Initializers.  An object of dimensions dims is filled from its start;   *)
(* values go to the next element; a list goes to the largest row, smaller  *)
(* than the object, that starts at the next element, or to that element.   *)

RowSize(dims, k) == FoldLeft(LAMBDA p, d : p * d, 1, SubSeq(dims, k, Len(dims)))

\* What a list gives to an element.
FirstValue(en, type, e) ==
    IF e.kind # "list" THEN Cast(type, Value(en, e).v)
    ELSE IF e.elements = <<>> THEN 0 ELSE FirstValue(en, type, e.elements[1])

\* regular: each list was for a row of the object or, not empty, for one
\* element.
Fill(en, type, dims, start, at, elements) ==
    LET Put(s, e) ==
            LET rest == {k \in 2 .. Len(dims) : (s.next - start) % RowSize(dims, k) = 0}
                row  == CHOOSE k \in rest : \A j \in rest : k <= j
                sub  == Fill(en, type, SubSeq(dims, row, Len(dims)), s.next, s.at, e.elements)
            IN IF s.next = start + RowSize(dims, 1) THEN s
               ELSE IF e.kind = "list" /\ rest # {}
               THEN [next |-> s.next + RowSize(dims, row), at |-> sub.at,
                     regular |-> s.regular /\ sub.regular /\ row = 2]
               ELSE [next |-> s.next + 1, at |-> [s.at EXCEPT ![s.next] = FirstValue(en, type, e)],
                     regular |-> s.regular /\ (e.kind = "list" => e.elements # <<>>)]
    IN FoldLeft(Put, [next |-> start, at |-> at, regular |-> TRUE], elements)

Filled(en, d, dims) ==
    Fill(en, d.type, dims, 0, [place \in 0 .. RowSize(dims, 1) - 1 |-> 0], d.init[1].elements)

-----------------------------------------------------------------------------

Dims(en, d) == [i \in DOMAIN d.dims |-> Value(en, d.dims[i]).v \div One]

\* Only constants have values here.
Values(en, d) ==
    IF ~d.const THEN <<>>
    ELSE IF d.dims = <<>> THEN (0 :> Cast(d.type, Value(en, d.init[1]).v))
    ELSE Filled(en, d, Dims(en, d)).at

Declared(const, type, dims, values) == [const |-> const, type |-> type, dims |-> dims, values |-> values]

\* The value of a constant; which variable, if it is none.
Answer(en, e) ==
    IF Constant(en, e) THEN <<"value", Value(en, e).type, Value(en, e).v>>
                       ELSE <<"variable", Lookup(en.frames, e.var)>>

-----------------------------------------------------------------------------
(* Programs of the language *)

IsConstInt(en, e) == Constant(en, e) /\ Value(en, e).type = "int"

\* An array is named with all its indexes: arrays and rows passed to functions
\* are left out.
WellFormed(en, e) ==
    CASE e.kind = "num"  -> TRUE
      [] e.kind = "var"  -> InScope(en.frames, e.var) /\ Meaning(en, e.var).dims = <<>>
      [] e.kind = "elem" ->
            /\ InScope(en.frames, e.var)
            /\ Len(e.indexes) = Len(Meaning(en, e.var).dims)
            /\ \A i \in DOMAIN e.indexes :
                  /\ WellFormed(en, e.indexes[i])
                  /\ IsConstInt(en, e.indexes[i]) =>
                        Value(en, e.indexes[i]).v \div One \in 0 .. Meaning(en, e.var).dims[i] - 1
      [] e.kind = "unary"  -> WellFormed(en, e.operand)
      [] e.kind = "binary" ->
            /\ WellFormed(en, e.left) /\ WellFormed(en, e.right)
            /\ e.op \in {"MUL", "DIV", "MOD"} => IsConstInt(en, e.left) /\ IsConstInt(en, e.right)
            /\ e.op \in {"DIV", "MOD"} => Value(en, e.right).v # 0
      [] e.kind = "list" -> \A i \in DOMAIN e.elements : WellFormed(en, e.elements[i])

\* A list has only constants here, and that of a constant is regular.
LegalInit(en, d, e) ==
    /\ WellFormed(en, e)
    /\ (d.dims # <<>>) <=> e.kind = "list"
    /\ (d.const \/ Len(en.frames) = 1 \/ e.kind = "list") => Constant(en, e)
    /\ (d.const /\ e.kind = "list") => Filled(en, d, Dims(en, d)).regular

Legal(en, d) ==
    /\ d.name \notin DOMAIN en.frames[Len(en.frames)]
    /\ \A i \in DOMAIN d.dims :
          WellFormed(en, d.dims[i]) /\ IsConstInt(en, d.dims[i]) /\ Value(en, d.dims[i]).v > 0
    /\ d.const => d.init # <<>>
    /\ \A i \in DOMAIN d.init : LegalInit(en, d, d.init[i])

-----------------------------------------------------------------------------

Now == [frames |-> frames, meanings |-> meanings]

Init == StackInit /\ meanings = <<>> /\ answers = <<>>

DeclareFunction ==
    /\ OpenFunction
    /\ meanings' = meanings \o [i \in DOMAIN unit.params |-> Declared(FALSE, "int", <<>>, <<>>)]
    /\ UNCHANGED answers

DeclareVariable(d) ==
    /\ Legal(Now, d)
    /\ Declare(d.name)
    /\ meanings' = Append(meanings, Declared(d.const, d.type, Dims(Now, d), Values(Now, d)))
    /\ UNCHANGED answers

\* Operators on what is not constant are left out.
Refer(e) ==
    /\ WellFormed(Now, e)
    /\ e.kind \in {"var", "elem"} \/ Constant(Now, e)
    /\ answers' = Append(answers, Answer(Now, e))
    /\ UNCHANGED <<unit, frames, count, meanings>>
=============================================================================
