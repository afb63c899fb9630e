------------------------------ MODULE InitList ------------------------------
(***************************************************************************)
(* What IRBuilder makes of the initializer of a variable: a list becomes   *)
(* an ArrayValue, which is a sequence of runs, each of zeros or of values. *)
(* A global variable is emitted run by run into the data section; a local  *)
(* array is cleared and the values of the runs are stored.                 *)
(***************************************************************************)
EXTENDS ConstEval

Zeros(n)       == [count |-> n, values |-> <<>>]
RunOf(values)  == [count |-> Len(values), values |-> values]

\* The statics of visit(NestedExpression) when its outermost call starts.
NoValue == [deep |-> 0, index |-> 0, element |-> <<>>, zeroNum |-> 0, runs |-> <<>>]

\* The elements after deep indexes.
MaxSize(dims, deep) == TotalSize(SubSeq(dims, deep + 1, Len(dims)))

WithZeros(st) ==
    IF st.zeroNum = 0 THEN st
    ELSE [st EXCEPT !.runs = Append(@, Zeros(st.zeroNum)), !.zeroNum = 0]

\* Mutant: the zeros before the values are counted but not put.
AddRunWithoutZeros(st) ==
    IF st.element = <<>> THEN st
    ELSE [st EXCEPT !.runs = Append(@, RunOf(st.element)), !.element = <<>>]

\* At the end of a list: the values not yet in a run, after the zeros that
\* come before them.
AddRun(st) ==
    IF st.element = <<>> THEN st
    ELSE LET z == WithZeros(st)
         IN [z EXCEPT !.runs = Append(@, RunOf(st.element)), !.element = <<>>]

\* A list is left: what it does not name of its row is zero.
LeaveList(st, oneOnly, target) ==
    LET row == IF oneOnly THEN st
               ELSE [AddRun(st) EXCEPT !.zeroNum = @ + (target - st.index), !.index = target]
    IN [row EXCEPT !.deep = @ - 1]

RECURSIVE VisitNested(_, _, _, _, _)

\* visit(NestedExpression).  A list at an element that is not the first of
\* a row, or deeper than there are dimensions, gives one value; else it
\* fills the row.
VisitNested(vs, type, dims, st, elements) ==
    LET maxSize == MaxSize(dims, st.deep)
        oneOnly == st.index % maxSize # 0 \/ st.deep + 1 > Len(dims)
        Visit(s, e) ==
            IF s.index = st.index + maxSize THEN s
            ELSE IF e.kind = "list" THEN VisitNested(vs, type, dims, s, e.elements)
            ELSE [s EXCEPT !.element = Append(@, Cast(type, Eval(vs, e))), !.index = @ + 1]
    IN LeaveList(FoldLeft(Visit, [st EXCEPT !.deep = @ + 1],
                          IF oneOnly /\ elements # <<>> THEN <<elements[1]>> ELSE elements),
                 oneOnly, st.index + maxSize)

ArrayValue(vs, v) ==
    WithZeros(VisitNested(vs, v.type, v.dims, NoValue, v.init[1].elements)).runs

-----------------------------------------------------------------------------
(* Memory: the words of a variable, by their places                        *)

\* emitGlobalVariable: .zero and .word, one after the other.
GlobalWords(runs) ==
    LET words == FoldLeft(LAMBDA ws, r :
                              ws \o (IF r.values = <<>> THEN [i \in 1 .. r.count |-> 0] ELSE r.values),
                          <<>>, runs)
    IN [place \in 0 .. Len(words) - 1 |-> words[place + 1]]

\* visit(Variable): memset, then a store for each value.
LocalWords(total, runs) ==
    LET Store(s, value) == [i |-> s.i + 1, words |-> (s.i :> value) @@ s.words]
        StoreRun(s, r) ==
            IF r.values = <<>> THEN [s EXCEPT !.i = @ + r.count]
            ELSE FoldLeft(Store, s, r.values)
        memset == [i |-> 0, words |-> [place \in 0 .. total - 1 |-> 0]]
    IN FoldLeft(StoreRun, memset, runs).words
=============================================================================
