---------------------------- MODULE MC_Lowering ----------------------------
(***************************************************************************)
(* Words of six bits: an immediate has three, a lui has the other three.   *)
(* Every int is a constant operand; what registers hold is taken from both *)
(* ends and the middle of the ints.                                        *)
(***************************************************************************)
EXTENDS Lowering

MCInputs == {n \in Ints : Abs(n) <= 3 \/ n <= IntMin + 5 \/ n >= IntMax - 5}

MCFloats == {-1, 0, 1, NaN}

OnFloats(kind, op, l, r, given) == [kind |-> kind, op |-> op, l |-> l, r |-> r, given |-> given]

MCFloatJobs ==
    LET condOps == Relations \union Equalities
        ops(kind) == IF kind = "cond" THEN condOps ELSE condOps \union {"ADD", "SUB", "MUL"}
        jobs(kind) ==
            {OnFloats(kind, op, Reg(1), Reg(2), <<x, y>>) : op \in ops(kind), x \in MCFloats, y \in MCFloats}
            \union {OnFloats(kind, op, Reg(1), Const(c), <<x>>) : op \in ops(kind), x \in MCFloats, c \in {0, 1}}
            \union {OnFloats(kind, op, Const(c), Reg(1), <<x>>) : op \in ops(kind), x \in MCFloats, c \in {0, 1}}
    IN jobs("float") \union jobs("cond")

-----------------------------------------------------------------------------
FrameTop == 100

Var(where, dims, home) == [where |-> where, dims |-> dims, home |-> home]

Homes == {-4, -5, -8, -20, 3, 4, 12}

\* Index k of the job is a constant or a register, counted from 2.
Indexed(var, values, consts) ==
    [kind |-> "element", var |-> var, given |-> <<FrameTop>> \o values,
     indexes |-> [k \in DOMAIN values |-> IF k \in consts THEN Const(values[k]) ELSE Reg(k + 1)]]

Within(dims, n) == {ix \in [1 .. n -> 0 .. 2] : \A k \in 1 .. n : ix[k] < dims[k]}

ArrayJobs(where, dims, homes) ==
    UNION {{Indexed(Var(where, dims, home), ix, consts) :
                home \in homes, ix \in Within(dims, n), consts \in SUBSET (1 .. n)} :
           n \in 1 .. Len(dims)}

\* A pointer may be stepped backwards.
ParamJobs(dims) ==
    UNION {{Indexed(Var("param", dims, home), <<s>> \o ix, consts) :
                home \in {-8, 12}, s \in {-1, 0, 1}, ix \in Within(dims, n), consts \in SUBSET (1 .. n + 1)} :
           n \in 0 .. Len(dims)}

MCMemoryJobs ==
    {[kind |-> k, var |-> Var("local", <<>>, home), given |-> <<FrameTop>>] :
        k \in {"load", "store", "cast"}, home \in Homes}
    \union UNION {ArrayJobs("local", dims, Homes) : dims \in {<<3>>, <<2, 3>>, <<2, 2, 2>>}}
    \union UNION {ArrayJobs("global", dims, {64}) : dims \in {<<3>>, <<2, 3>>, <<2, 2, 2>>}}
    \union UNION {ParamJobs(dims) : dims \in {<<>>, <<2>>, <<3>>, <<2, 2>>}}
=============================================================================
