--------------------------- MODULE MC_ControlFlow ---------------------------
(* Conditions of every shape in statements of every shape.  Each turn of a loop
   reads an input, so that a run ends. *)
EXTENDS ControlFlow

R(i) == Read(i)

Conditions == <<
    R(1), Not(R(1)), Num(1), Num(0), Binary("LT", Num(0), Num(1)),
    Binary("ADD", R(1), R(2)), Binary("MUL", Var("x"), R(1)), Var("x"), Elem(R(1)),
    Binary("LT", R(1), R(2)), Binary("GT", R(1), R(2)), Binary("LE", R(1), R(2)),
    Binary("GE", R(1), R(2)), Binary("EQ", Var("x"), R(1)), Binary("NE", R(1), Num(0)),
    And(R(1), R(2)), Or(R(1), R(2)),
    And(Or(R(1), R(2)), R(3)), Or(And(R(1), R(2)), R(3)), And(R(1), Or(R(2), R(3))),
    Or(Binary("LT", R(1), R(2)), R(3)), And(R(1), Binary("NE", R(2), Var("x"))),
    Not(And(R(1), R(2))), Or(Not(Or(R(1), R(2))), R(3)), And(R(1), Not(And(R(2), R(3)))),
    And(Num(1), R(1)), And(Num(0), R(1)), Or(Num(1), R(1)), Or(R(1), Num(1)), And(R(1), Num(0)),
    Binary("EQ", And(R(1), R(2)), R(3)), Binary("EQ", R(1), Or(R(2), Var("x"))),
    Binary("LE", Binary("LT", R(1), R(2)), Var("x")), Elem(And(R(1), R(2))) >>

Contexts(c) == <<
    <<If(c, Use(Num(1)))>>,
    <<IfElse(c, Use(Num(1)), Use(Num(0)))>>,
    <<IfElse(c, Return(Num(1)), Use(Var("x")))>>,
    <<While(c, Block(<<Use(Num(1)), If(R(9), Break)>>)), Use(Var("x"))>>,
    <<While(Num(1), Block(<<Use(R(9)), IfElse(c, Break, Continue), Use(Num(1))>>))>>,
    <<While(R(9), If(c, Continue))>>,
    <<While(R(9), Block(<<Use(Var("x")), IfElse(c, Break, Assign(Var("x"), Num(1)))>>)),
      Use(Var("x"))>>,
    <<While(R(8), While(R(9), Block(<<If(c, Break), Assign(Var("x"), R(7))>>))), Return(Var("x"))>>,
    <<Declare("y", c), Use(Var("y")), Assign(Var("x"), Num(1))>>,
    <<Assign(Var("g"), c), Use(Binary("ADD", Var("g"), Var("x")))>>,
    <<Assign(Elem(c), R(9)), Use(Elem(Num(0)))>>,
    <<Assign(Elem(Num(1)), c), If(Elem(Num(1)), Use(Num(1)))>>,
    <<Assign(Var("x"), c), If(R(9), Assign(Var("x"), Num(0))), Return(Var("x"))>>,
    <<If(R(9), IfElse(c, Return(Num(1)), Return(Num(0)))), Use(Num(1))>>,
    <<IfElse(R(9), Block(<<Return(c), Use(Num(1))>>), If(c, Use(Num(0))))>>,
    <<Return(c)>> >>

\* The variables have values before the statement under test.
Prelude(c, k) ==
    IF c.kind = "elem" \/ k \in {11, 12}
    THEN <<Declare("x", R(0)), DeclareArray,
           Assign(Elem(Num(0)), Num(0)), Assign(Elem(Num(1)), Num(1))>>
    ELSE <<Declare("x", R(0))>>

NumContexts == Len(Contexts(Num(0)))

AllPrograms ==
    [i \in 1..(Len(Conditions) * NumContexts) |->
        LET c == Conditions[((i - 1) \div NumContexts) + 1]
            k == ((i - 1) % NumContexts) + 1
        IN Block(Prelude(c, k) \o Contexts(c)[k])]

\* All but the one whose index can be 2: the array has two elements.
ThePrograms == RemoveAt(AllPrograms, 5 * NumContexts + 11)

\* Code that no run comes to, which reads a variable.
UnreachablePrograms == <<
    Block(<<Declare("x", R(0)), While(Num(1), If(R(1), Return(Num(0)))), Return(Var("x"))>>),
    Block(<<Declare("x", R(0)), IfElse(Num(1), Return(Num(1)), Use(Var("x")))>>) >>

TheInputs == [1..4 -> 0..1]
=============================================================================
