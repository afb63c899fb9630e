-------------------------- MODULE MC_Declarations --------------------------
(***************************************************************************)
(* Two units of scalars that shadow one another, one of constant arrays    *)
(* that are named in dimensions, indexes and initializers, and many of a   *)
(* single array with one list each.                                        *)
(***************************************************************************)
EXTENDS Declarations

Whole(n) == Num("int", One * n)
Halves(n) == Num("float", n)

Decl(name, const, type, dims, init) ==
    [name |-> name, const |-> const, type |-> type, dims |-> dims, init |-> init]

X == VarRef("x")
Y == VarRef("y")

Unit(ds, rs, ps, n) == [decls |-> ds, refs |-> rs, params |-> ps, scopes |-> n]

Scalars(params) ==
    Unit({Decl("x", TRUE, "int", <<>>, <<Whole(3)>>),
          Decl("x", TRUE, "int", <<>>, <<Halves(-5)>>),
          Decl("x", FALSE, "int", <<>>, <<>>),
          Decl("x", TRUE, "float", <<>>, <<Binary("MINUS", X, Halves(1))>>),
          Decl("x", TRUE, "int", <<>>, <<Binary("PLUS", X, Y)>>),
          Decl("y", TRUE, "float", <<>>, <<X>>),
          Decl("y", TRUE, "int", <<>>, <<Binary("DIV", X, Whole(2))>>),
          Decl("y", TRUE, "int", <<>>, <<Unary("NOT", X)>>),
          Decl("y", FALSE, "float", <<>>, <<X>>)},
         {X, Y, Binary("LT", Y, X), Unary("MINUS", Unary("PLUS", Binary("PLUS", Y, X)))},
         params, 5)

A(index) == IndexedRef("a", index)

Arrays2 ==
    Unit({Decl("x", TRUE, "int", <<>>, <<Whole(2)>>),
          Decl("x", TRUE, "int", <<>>, <<A(<<Whole(0)>>)>>),
          Decl("x", TRUE, "int", <<>>, <<Binary("MUL", A(<<Whole(0), X>>), Binary("MOD", X, Whole(2)))>>),
          Decl("x", FALSE, "int", <<>>, <<>>),
          Decl("a", TRUE, "int", <<X>>, <<Nested(<<X, Halves(5)>>)>>),
          Decl("a", TRUE, "float", <<Whole(2), X>>,
               <<Nested(<<Nested(<<Halves(1)>>), X, Unary("MINUS", Halves(3))>>)>>),
          Decl("a", FALSE, "int", <<Binary("PLUS", X, Whole(1))>>, <<Nested(<<Whole(7)>>)>>)},
         {X, A(<<Whole(1)>>), A(<<X>>), A(<<X, Whole(0)>>), A(<<Whole(1), A(<<Whole(0), Whole(0)>>)>>)},
         <<>>, 5)

-----------------------------------------------------------------------------
(* Lists: each element of the outermost is a value, a list of values or a  *)
(* list with a list.  No two values are the same.                          *)

Items(k) ==
    LET n(i) == Whole(10 * k + i)
    IN {n(1), Nested(<<>>), Nested(<<n(1)>>), Nested(<<n(1), n(2)>>), Nested(<<n(1), n(2), n(3)>>),
        Nested(<<Nested(<<n(1)>>)>>), Nested(<<Nested(<<n(1)>>), n(2)>>),
        Nested(<<n(1), Nested(<<n(2), n(3)>>)>>), Nested(<<n(1), n(2), Nested(<<n(3), n(4)>>)>>)}

Lists(n) == {Nested(l) : l \in UNION {{<<>>} \union {<<i>> : i \in Items(1)},
                                     {<<i, j>> : i \in Items(1), j \in Items(2)},
                                     IF n = 3 THEN {<<i, j, k>> : i \in Items(1), j \in Items(2), k \in Items(3)}
                                              ELSE {}}}

ListUnits(dims, n) ==
    {Unit({Decl("a", const, "int", dims, <<l>>)}, {A([i \in DOMAIN dims |-> Whole(1)])}, <<>>, 1) :
        const \in BOOLEAN, l \in Lists(n)}

MCUnits ==
    {Scalars(<<"x">>), Scalars(<<"y", "x">>), Arrays2}
    \union ListUnits(<<Whole(4)>>, 2) \union ListUnits(<<Whole(2), Whole(2)>>, 3)
    \union ListUnits(<<Whole(2), Whole(2), Whole(2)>>, 3)
=============================================================================
