----------------------------- MODULE ControlFlow -----------------------------
(***************************************************************************)
(* A function body on its way through the compiler, and then run: the      *)
(* basic blocks are built, and BlockCode takes them to assembly and runs   *)
(* it.  What the run does must be a behaviour of the source.               *)
(***************************************************************************)
EXTENDS CfgBuilder, BlockRun

CONSTANT Programs    \* the functions: a sequence of blocks of statements

VARIABLE prog        \* the number of the function

vars == <<codeVars, prog>>

Init ==
    /\ prog \in DOMAIN Programs
    /\ phase = "build"
    /\ MaskInit(<<>>)
    /\ NothingRun

Build ==
    /\ phase = "build"
    /\ phase' = "mask"
    /\ bbs' = BuildFunction(Programs[prog]).bbs
    /\ alives' = [b \in DOMAIN bbs' |-> {}]
    /\ dead' = [b \in DOMAIN bbs' |-> {}]
    /\ UNCHANGED <<prog, asm, allocVar, at, pos, need, stage, update, machine>>

Next == Build \/ (CodeNext /\ UNCHANGED prog)

\* The compiler and the machine do not wait.
Spec == Init /\ [][Next]_vars /\ WF_vars(Mask /\ UNCHANGED prog) /\ WF_vars(Run /\ UNCHANGED prog)

-----------------------------------------------------------------------------
(* Properties *)

\* Each block that IRBuilder makes ends in a jump, and no block goes on after
\* one, whatever is nested in what; the edges on which maskDeadInst relies
\* (getSuccessors, getPredecessors) are those of the jumps (createJump, createCondJump and createRet, 687-734).
BlocksClosed ==
    phase = "mask" /\ stage = "masked" =>
        /\ Closed(bbs) /\ Runnable(bbs)
        /\ \A b, p \in Blocks : b \in Elems(bbs[p].succ) <=> p \in Elems(bbs[b].pred)

\* The values that every path from the entry to block b defines.
DefinedOnAllPaths ==
    LET around == [d \in Blocks |-> ReachedAvoiding({d})]
    IN [b \in Blocks |->
           UNION {ResultsUpTo(bbs, d, Len(bbs[d].code)) : d \in {d \in Blocks : b \notin around[d]}}]

\* Whatever path a run takes to the use of a value, it passes the definition:
\* no visit leaves in _value what only one of two branches computes.
DefinitionsFirst ==
    phase = "mask" /\ stage = "masked" => DefinedFirst(bbs, DefinedOnAllPaths)

\* The compiled function does what the source says: the same calls in an order
\* the language allows, with the same values, and the same result; it ends only
\* where the source does.
SourceSpec == INSTANCE Source WITH
    status <- CASE phase \in {"build", "mask"} -> "idle"
                [] phase \in {"run", "returned"} -> "running"
                [] phase = "done" -> "done"

ImplementsSource == SourceSpec!Spec

\* The loop of maskDeadInst (857-992) reaches its fixpoint, and the run of a function
\* each of whose loops reads an input at every turn comes to its end: no jump
\* was lost or sent back.
Finishes ==
    /\ phase = "mask" ~> stage = "masked"
    /\ phase = "run" ~> phase = "done"
=============================================================================
