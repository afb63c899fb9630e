----------------------------- MODULE NameStack ------------------------------
(***************************************************************************)
(* Which declaration a name refers to, written from the language: there is *)
(* a stack of frames; a declaration, and they are numbered as they come,   *)
(* gives a name a meaning in the innermost frame; a name has the meaning   *)
(* that the innermost frame gives it that has it at all.                   *)
(***************************************************************************)
EXTENDS Integers, SequencesExt

VARIABLES unit,      \* the source file: its declarations and parameters
          frames,    \* from names to the numbers of declarations, the outermost first
          count      \* of the declarations so far

stackVars == <<unit, frames, count>>

InScope(fs, x) == \E k \in DOMAIN fs : x \in DOMAIN fs[k]

Lookup(fs, x) ==
    LET having == {k \in DOMAIN fs : x \in DOMAIN fs[k]}
    IN fs[CHOOSE k \in having : \A j \in having : j <= k][x]

-----------------------------------------------------------------------------

StackInit == frames = << <<>> >> /\ count = 0

\* A function gives its parameters a frame of their own.
OpenFunction ==
    /\ Len(frames) = 1
    /\ frames' = frames \o
          <<[x \in Range(unit.params) |-> count + CHOOSE i \in DOMAIN unit.params : unit.params[i] = x],
            <<>> >>
    /\ count' = count + Len(unit.params)
    /\ UNCHANGED unit

OpenBlock ==
    /\ Len(frames) > 1
    /\ frames' = Append(frames, <<>>)
    /\ UNCHANGED <<unit, count>>

\* The body of a function takes the frame of the parameters with it.
Close ==
    /\ Len(frames) > 1
    /\ frames' = SubSeq(frames, 1, IF Len(frames) = 3 THEN 1 ELSE Len(frames) - 1)
    /\ UNCHANGED <<unit, count>>

\* No name is declared twice in a frame.
Declare(x) ==
    /\ x \notin DOMAIN frames[Len(frames)]
    /\ frames' = [frames EXCEPT ![Len(frames)] =
                      [y \in DOMAIN @ \union {x} |-> IF y = x THEN count + 1 ELSE @[y]]]
    /\ count' = count + 1
    /\ UNCHANGED unit

StackNext ==
    OpenFunction \/ OpenBlock \/ Close \/ \E d \in unit.decls : Declare(d.name)

StackSpec == StackInit /\ [][StackNext]_stackVars
=============================================================================
