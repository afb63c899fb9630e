------------------------------- MODULE Source -------------------------------
(***************************************************************************)
(* What a function means, written from the language and not from the       *)
(* compiler: the calls it makes, in order, and the value it returns, for a *)
(* sequence of inputs.  A run also ends when it asks for an input and none *)
(* is left.  The language does not fix which operand of a binary operator  *)
(* is evaluated first, so a function has a set of behaviours.              *)
(***************************************************************************)
EXTENDS Ast, SequencesExt

CONSTANTS Programs,  \* the functions: a sequence of blocks
          Inputs     \* the sequences of inputs

VARIABLES prog,      \* the number of the function
          inputs,    \* what it will read
          out,       \* the calls made so far, and what was returned
          status     \* "idle", "running" or "done"

vars == <<prog, inputs, out, status>>

Undefined == -1

Start(ins) ==
    [vars |-> [x \in {"g", "x", "y"} |-> IF x = "g" THEN 0 ELSE Undefined],
     array |-> [i \in 0..1 |-> Undefined],
     ins |-> ins, events |-> <<>>, value |-> 0, signal |-> "next"]

Event(s, kind, n) == [s EXCEPT !.events = Append(@, <<kind, n>>)]

RECURSIVE Eval(_, _), Exec(_, _), Loop(_, _)

\* Evaluate e and then, if it gave a value, go on with F.
Then(results, F(_)) ==
    UNION {IF r.signal = "next" THEN F(r) ELSE {r} : r \in results}

Yield(s, n) == {[s EXCEPT !.value = n]}

\* Both operands, e first, and the result as a function of the two values.
Operands(s, e, f, G(_, _)) ==
    Then(Eval(e, s), LAMBDA r1 :
        Then(Eval(f, r1), LAMBDA r2 : Yield(r2, G(r1.value, r2.value))))

\* The results of an expression.
Eval(e, s) ==
    CASE e.kind = "num"  -> Yield(s, e.n)
      [] e.kind = "var"  -> Yield(s, s.vars[e.name])
      [] e.kind = "read" ->
            IF s.ins = <<>> THEN {[s EXCEPT !.signal = "starved"]}
            ELSE Yield([Event(s, "read", e.n) EXCEPT !.ins = Tail(@)], Head(s.ins))
      [] e.kind = "elem" ->
            Then(Eval(e.index, s), LAMBDA r : Yield(r, r.array[r.value]))
      [] e.kind = "not"  ->
            Then(Eval(e.operand, s), LAMBDA r : Yield(r, Truth(r.value = 0)))
      [] e.kind = "binary" /\ e.op \in {"AND", "OR"} ->
            Then(Eval(e.left, s), LAMBDA r :
                IF (r.value = 0) = (e.op = "AND")
                THEN Yield(r, Truth(e.op = "OR"))
                ELSE Then(Eval(e.right, r), LAMBDA q : Yield(q, Truth(q.value # 0))))
      [] OTHER ->
            Operands(s, e.left, e.right, LAMBDA x, y : Apply(e.op, x, y))
              \cup Operands(s, e.right, e.left, LAMBDA y, x : Apply(e.op, x, y))

\* The results of an assignment to an element: the index may be evaluated
\* before or after the value.
StoreElem(s, i, v) == [s EXCEPT !.array[i] = v]

AssignElem(index, e, s) ==
    Then(Eval(index, s), LAMBDA r1 :
            Then(Eval(e, r1), LAMBDA r2 : {StoreElem(r2, r1.value, r2.value)}))
      \cup
    Then(Eval(e, s), LAMBDA r1 :
            Then(Eval(index, r1), LAMBDA r2 : {StoreElem(r2, r2.value, r1.value)}))

\* The results of a statement.
Exec(t, s) ==
    CASE t.kind = "block"    ->
            FoldLeft(LAMBDA rs, u : Then(rs, LAMBDA r : Exec(u, r)), {s}, t.elements)
      [] t.kind = "declare"  ->
            Then(Eval(t.init, s), LAMBDA r : {[r EXCEPT !.vars[t.name] = r.value]})
      [] t.kind = "array"    -> {[s EXCEPT !.array = [i \in 0..1 |-> Undefined]]}
      [] t.kind = "assign"   ->
            IF t.lval.kind = "elem" THEN AssignElem(t.lval.index, t.rval, s)
            ELSE Then(Eval(t.rval, s), LAMBDA r : {[r EXCEPT !.vars[t.lval.name] = r.value]})
      [] t.kind = "use"      ->
            Then(Eval(t.param, s), LAMBDA r : {Event(r, "use", r.value)})
      [] t.kind = "return"   ->
            Then(Eval(t.expr, s), LAMBDA r :
                    {[Event(r, "return", r.value) EXCEPT !.signal = "return"]})
      [] t.kind \in {"break", "continue"} -> {[s EXCEPT !.signal = t.kind]}
      [] t.kind = "if"       ->
            Then(Eval(t.cond, s), LAMBDA r :
                IF r.value # 0 THEN Exec(t.stmt, r)
                ELSE IF t.else = <<>> THEN {r} ELSE Exec(t.else[1], r))
      [] t.kind = "while"    -> Loop(t, s)

Loop(t, s) ==
    Then(Eval(t.cond, s), LAMBDA r :
        IF r.value = 0 THEN {r}
        ELSE UNION {CASE q.signal \in {"next", "continue"} -> Loop(t, [q EXCEPT !.signal = "next"])
                      [] q.signal = "break" -> {[q EXCEPT !.signal = "next"]}
                      [] OTHER -> {q} : q \in Exec(t.stmt, r)})

\* The complete sequences of events; falling off the end returns 0.
Behaviours(p, ins) ==
    {(IF r.signal = "next" THEN Event(r, "return", 0) ELSE r).events :
        r \in Exec(Programs[p], Start(ins))}

-----------------------------------------------------------------------------
Init ==
    /\ prog \in DOMAIN Programs
    /\ inputs = <<>>
    /\ out = <<>>
    /\ status = "idle"

Begin ==
    /\ status = "idle"
    /\ inputs' \in Inputs
    /\ status' = "running"
    /\ UNCHANGED <<prog, out>>

\* The next call, or the return.
Observe ==
    /\ status = "running"
    /\ \E b \in Behaviours(prog, inputs) :
          /\ IsStrictPrefix(out, b)
          /\ out' = Append(out, b[Len(out) + 1])
    /\ UNCHANGED <<prog, inputs, status>>

End ==
    /\ status = "running"
    /\ out \in Behaviours(prog, inputs)
    /\ status' = "done"
    /\ UNCHANGED <<prog, inputs, out>>

Next == Begin \/ Observe \/ End

Spec == Init /\ [][Next]_vars
=============================================================================
