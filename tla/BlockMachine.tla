---------------------------- MODULE BlockMachine ----------------------------
(***************************************************************************)
(* What the basic blocks of a function mean, whatever machine code is made *)
(* of them: the calls they make, in order, and the value they return, for  *)
(* a sequence of inputs.                                                   *)
(*                                                                         *)
(* The machine may pass over instructions that compute a value or write a  *)
(* variable; it then knows neither any more.  It may forget any other      *)
(* value or cell of memory as well.  But it never uses what it does not    *)
(* know, so what it does is what the blocks do when every instruction is   *)
(* executed.                                                               *)
(***************************************************************************)
EXTENDS Ast, IR

VARIABLES status,   \* "idle", "running" or "done"
          graph,    \* the blocks
          inputs,   \* what the function will read
          place,    \* the block, and the instruction of it, that come next
          values,   \* the results that are known
          cells,    \* the memory that is known, as a function of the address
          next,     \* the number of inputs read
          out       \* the calls made, and the value returned

vars == <<status, graph, inputs, place, values, cells, next, out>>

\* A variable or an array of two elements begins where its number says.
CellOf(v) == 2 * v.n

\* new is what is left of old, when some of it is forgotten (n, so that TLC
\* evaluates new once).
PartOf(new, old) ==
    \E n \in {new} : DOMAIN n \subseteq DOMAIN old /\ \A x \in DOMAIN n : n[x] = old[x]

Without(f, S) == [x \in DOMAIN f \ S |-> f[x]]

With(f, x, y) == [z \in DOMAIN f \cup {x} |-> IF z = x THEN y ELSE f[z]]

StoresVariable(inst) == inst.op = "store" /\ inst.args[2].by = "alloc"

\* Can the instruction be passed over?
Skippable(inst) == inst.op \in {"alloc", "load", "gep", "binary"} \/ StoresVariable(inst)

Nowhere == place = <<>> /\ values = <<>> /\ cells = <<>>

Init == status = "idle" /\ graph = <<>> /\ inputs = <<>> /\ Nowhere /\ next = 0 /\ out = <<>>

\* A function is run: registers and memory hold anything, the global is 0.
Start ==
    /\ status = "idle" /\ status' = "running"
    /\ place' = <<1, 1>>
    /\ {0, 1} \subseteq DOMAIN cells' /\ cells'[0] = 0 /\ cells'[1] = 0
    /\ UNCHANGED <<next, out>>

-----------------------------------------------------------------------------
(* The instruction inst that is executed is number j of the block: those    *)
(* before it are passed over, and known and mem are what is known then.     *)

Code == graph[place[1]].code

Passed(j) == {Code[i] : i \in place[2]..(j - 1)}

ValuesAt(passed) == Without(values, {inst.dst : inst \in passed})

CellsAt(passed) == Without(cells, {CellOf(inst.args[2]) : inst \in {i \in passed : StoresVariable(i)}})

ValueOf(v, known) ==
    CASE v.kind = "const"  -> v.n
      [] v.kind = "global" -> 0
      [] OTHER -> known[v]

Arg(inst, k, known) == ValueOf(inst.args[k], known)

OperandsKnown(inst, known) ==
    \A k \in DOMAIN inst.args : inst.args[k].kind = "result" => inst.args[k] \in DOMAIN known

\* Computed from values; an allocation is an address, and what is there may
\* be anything.
Computed(inst, known, mem) ==
    CASE inst.op = "alloc"  -> CellOf(inst.dst)
      [] inst.op = "gep"    -> Arg(inst, 1, known) + Arg(inst, 2, known)
      [] inst.op = "load"   -> mem[Arg(inst, 1, known)]
      [] inst.op = "binary" -> Apply(inst.tag, Arg(inst, 1, known), Arg(inst, 2, known))

Fresh(inst) == IF inst.op = "alloc" THEN {CellOf(inst.dst)} ELSE {}

Compute(inst, known, mem) ==
    /\ inst.op \in {"alloc", "load", "gep", "binary"}
    /\ inst.op = "load" => Arg(inst, 1, known) \in DOMAIN mem
    /\ PartOf(values', With(known, inst.dst, Computed(inst, known, mem)))
    /\ PartOf(Without(cells', Fresh(inst)), mem)
    /\ UNCHANGED <<next, out>>

StoreWord(inst, known, mem) ==
    /\ inst.op = "store"
    /\ PartOf(values', known)
    /\ PartOf(cells', With(mem, Arg(inst, 2, known), Arg(inst, 1, known)))
    /\ UNCHANGED <<next, out>>

\* A call uses a value, or reads an input.
Call(inst, known, mem) ==
    /\ inst.op = "call"
    /\ IF inst.dst = None
       THEN /\ out' = Append(out, <<"use", Arg(inst, 1, known)>>)
            /\ PartOf(values', known)
            /\ UNCHANGED next
       ELSE /\ next < Len(inputs)
            /\ next' = next + 1
            /\ PartOf(values', With(known, inst.dst, inputs[next + 1]))
            /\ out' = Append(out, <<"read", inst.tag>>)
    /\ PartOf(cells', mem)

\* The block that comes next.
Target(inst, known) ==
    IF inst.op = "jump" \/ Apply(inst.tag, Arg(inst, 1, known), Arg(inst, 2, known)) = 1
    THEN inst.to[1] ELSE inst.to[2]

Jump(inst, known, mem) ==
    /\ inst.op \in {"jump", "cond"}
    /\ PartOf(values', known) /\ PartOf(cells', mem)
    /\ UNCHANGED <<next, out>>

\* The run ends with the function, or when the inputs are used up.
End(inst, known) ==
    /\ \/ inst.op = "ret" /\ out' = Append(out, <<"return", Arg(inst, 1, known)>>)
       \/ inst.op = "call" /\ inst.dst # None /\ next = Len(inputs) /\ UNCHANGED out
    /\ Nowhere' /\ UNCHANGED next

Execute(j, inst, known, mem) ==
    /\ OperandsKnown(inst, known)
    /\ \/ /\ Compute(inst, known, mem) \/ StoreWord(inst, known, mem) \/ Call(inst, known, mem)
          /\ status' = status /\ place' = <<place[1], j + 1>>
       \/ /\ Jump(inst, known, mem)
          /\ status' = status /\ place' = <<Target(inst, known), 1>>
       \/ End(inst, known) /\ status' = "done"

Step ==
    /\ status = "running"
    /\ \E j \in place[2]..Len(Code) :
          /\ \A inst \in Passed(j) : Skippable(inst)
          /\ Execute(j, Code[j], ValuesAt(Passed(j)), CellsAt(Passed(j)))
    /\ UNCHANGED <<graph, inputs>>

Next == Start \/ Step

Spec == Init /\ [][Next]_vars
=============================================================================
