------------------------------- MODULE Scopes -------------------------------
(***************************************************************************)
(* The tree of scopes, and CurrentScope on its way through it while        *)
(* ASTBuilder walks over a source file.  Of a variable there is here only  *)
(* what scopes have to do with; the rest is in Declarations.               *)
(***************************************************************************)
EXTENDS Integers, SequencesExt

CONSTANTS
  Units,            \* source files: declarations, parameters, a bound on scopes
  MaxVariables      \* bound

\* A function has no two parameters of one name.
ASSUME UnitsOK ==
  \A u \in Units :
    /\ u.params \in Seq(STRING)
    /\ \A i, j \in DOMAIN u.params : u.params[i] = u.params[j] => i = j

VARIABLES
  unit,
  scopes,      \* the tree: of each its parent, 0 for none, and _varMap
  current,     \* CurrentScope
  variables    \* in the order they were made

scopeVars == <<unit, scopes, current, variables>>

Scope(parent) == [parent |-> parent, varMap |-> <<>>]

\* Mutant: the outermost variable of the name is found.
GetVariableParentFirst(s, x) ==
    LET find[t \in 0 .. s] ==
            IF t = 0 THEN 0
            ELSE IF find[scopes[t].parent] # 0 THEN find[scopes[t].parent]
            ELSE IF x \in DOMAIN scopes[t].varMap THEN scopes[t].varMap[x] ELSE 0
    IN find[s]

\* Scope::getVariable, from scope s upwards.
GetVariable(s, x) ==
    LET find[t \in 0 .. s] ==
            IF t = 0 THEN 0
            ELSE IF x \in DOMAIN scopes[t].varMap THEN scopes[t].varMap[x]
            ELSE find[scopes[t].parent]
    IN find[s]

\* Scope::insertVariable keeps what is there.
InsertVariable(scope, x, i) ==
    IF x \in DOMAIN scope.varMap THEN scope
    ELSE [scope EXCEPT !.varMap = [y \in DOMAIN scope.varMap \union {x} |->
                                      IF y = x THEN i ELSE scope.varMap[y]]]

IsGlobal(s) == scopes[s].parent = 0

Variable(x, global) == [name |-> x, global |-> global]

\* The scope of a function, after its parameters.
ParamScope ==
    LET scope[i \in 0 .. Len(unit.params)] ==
            IF i = 0 THEN Scope(current)
            ELSE InsertVariable(scope[i - 1], unit.params[i], Len(variables) + i)
    IN scope[Len(unit.params)]

-----------------------------------------------------------------------------

ScopeInit ==
    /\ unit \in Units
    /\ scopes = <<Scope(0)>> /\ current = 1
    /\ variables = <<>>

\* A scope for the parameters, and one for the body as for any block.
OpenFunction ==
    /\ current = 1
    /\ Len(scopes) + 2 <= unit.scopes /\ Len(variables) + Len(unit.params) <= MaxVariables
    /\ scopes' = scopes \o <<ParamScope, Scope(Len(scopes) + 1)>>
    /\ current' = Len(scopes) + 2
    /\ variables' = variables \o [i \in DOMAIN unit.params |-> Variable(unit.params[i], FALSE)]
    /\ UNCHANGED unit

\* Mutant: setParent is forgotten.
OpenBlockOrphan ==
    /\ current # 1
    /\ Len(scopes) < unit.scopes
    /\ scopes' = Append(scopes, Scope(0))
    /\ current' = Len(scopes) + 1
    /\ UNCHANGED <<unit, variables>>

OpenBlock ==
    /\ current # 1
    /\ Len(scopes) < unit.scopes
    /\ scopes' = Append(scopes, Scope(current))
    /\ current' = Len(scopes) + 1
    /\ UNCHANGED <<unit, variables>>

\* Mutant: after its body, the scope of a function is not left.
CloseBodyOnly ==
    /\ current # 1
    /\ current' = scopes[current].parent
    /\ UNCHANGED <<unit, scopes, variables>>

\* visitBlock, and visitFunctionDeclOrDef after the body.
Close ==
    /\ current # 1
    /\ LET parent == scopes[current].parent
       IN current' = IF scopes[parent].parent = 1 THEN 1 ELSE parent
    /\ UNCHANGED <<unit, scopes, variables>>

\* A name comes into scope, in visitVarDef.
DeclareVariable(x) ==
    /\ Len(variables) < MaxVariables
    /\ variables' = Append(variables, Variable(x, IsGlobal(current)))
    /\ scopes' = [scopes EXCEPT ![current] = InsertVariable(@, x, Len(variables) + 1)]
    /\ UNCHANGED <<unit, current>>

\* In a program of the language, no name is declared twice in a scope.
ScopeNext ==
    \/ OpenFunction
    \/ OpenBlock
    \/ Close
    \/ \E d \in unit.decls : d.name \notin DOMAIN scopes[current].varMap /\ DeclareVariable(d.name)

ScopeSpec == ScopeInit /\ [][ScopeNext]_scopeVars

-----------------------------------------------------------------------------
(* Properties *)

Names == {d.name : d \in unit.decls} \union Range(unit.params)

\* CurrentScope is in a tree whose root is the scope of the file; every name
\* in it is that of a variable, and the variables of the root are the global
\* ones.
TypeOK ==
    /\ current \in DOMAIN scopes
    /\ \A s \in DOMAIN scopes :
          /\ scopes[s].parent \in 0 .. s - 1 /\ (scopes[s].parent = 0 <=> s = 1)
          /\ \A x \in DOMAIN scopes[s].varMap :
                /\ x \in Names
                /\ scopes[s].varMap[x] \in DOMAIN variables
                /\ variables[scopes[s].varMap[x]].name = x
    /\ \A i \in DOMAIN variables :
          variables[i].global <=> \E x \in DOMAIN scopes[1].varMap : scopes[1].varMap[x] = i

\* From the root of a tree to each of its scopes.
Paths(tree) ==
    LET path[s \in 0 .. Len(tree)] == IF s = 0 THEN <<>> ELSE Append(path[tree[s].parent], s)
    IN path

\* The names, as seen from scope s of a tree.
FramesOf(tree, s) == [k \in DOMAIN Paths(tree)[s] |-> tree[Paths(tree)[s][k]].varMap]

Frames == FramesOf(scopes, current)

Stack == INSTANCE NameStack WITH frames <- Frames, count <- Len(variables)

\* The tree, seen from CurrentScope, is the stack of the language: the scopes
\* it is left through are those it was entered through, whatever lies between,
\* and what was declared in a scope that is closed is gone.
ImplementsNameStack == Stack!StackSpec

\* A search upwards from CurrentScope finds the declaration that the name
\* refers to, and nothing where there is none.
FindsInnermost ==
    \A x \in Names :
        GetVariable(current, x) =
            IF Stack!InScope(Frames, x) THEN Stack!Lookup(Frames, x) ELSE 0
=============================================================================
