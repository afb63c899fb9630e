# A verification of AtomCompiler

AtomCompiler translates a C subset (SysY) to RISC-V assembly. This directory holds TLA+ models of
its declarations and constants, of the control flow of its IR and of its back end, the TLC configurations that check
them on small instances, and theorems about them that the TLA+ proof system checks for every value of the constants. All definitions are translated
from the C++ sources; file names below are relative to the repository.

## 1. The system

`src/main.cpp` compiles each source file of the command line in turn, in one process, with no
threads, and then runs `gcc` and, on request, `qemu` as child processes. One compilation is a
pipeline:

| component | source | state it keeps | operations |
|---|---|---|---|
| parser, AST builder | `ATC.g4`, `frontend/AST/ASTBuilder.cpp` | the current scope; `_forValue` of each binary expression | one visit per grammar rule |
| scopes | `frontend/AST/Scope.cpp` | a tree of name tables | insert, look up towards the root |
| constant evaluation | `frontend/AST/Expression.cpp` | static caches of array element sizes | evaluate a constant int or float, fetch an element of a constant array |
| semantic checker, AST dumper | `frontend/AST/SemanticChecker.cpp`, `ASTDumper.cpp` | - | the checker is not called by `main` |
| IR builder | `frontend/IR/IRBuilder.cpp` | the current block; `_trueBB`, `_falseBB` of the condition being built; `_condBB`, `_afterBB` of the innermost loop; `_value` | one visit per AST node; `maskDeadInst` per function |
| IR data structures | `frontend/IR/*.cpp` | blocks, instructions, values | constructors, printing |
| code generator | `backend/riscv/CodeGenerator.cpp` | the frame offset, the homes of values, the room for outgoing parameters, the current block | one `emit` per instruction; `emitFunction` with its rounds of emission |
| register allocator | `backend/riscv/RegAllocator.cpp` | live sets of blocks, interference graph, names of registers, the register to spill | `run`: `buildInterference`, `coloring`, `spill`, `reset` |
| assembly data structures | `backend/riscv/{Register,BasicBlock,Function,Instruction}.cpp` | instruction lists, successors, the sets `_needAllocRegs` and `_needPushRegs` | constructors, printing |
| driver | `src/main.cpp`, `CmdOption.cpp` | options, object file names | compile, assemble, link, run |

How they interact: visitors call down and leave their result in a member (`_value`, `_currentBasicBlock`),
which the caller reads after the call; the code generator and the register allocator share
`_offset` by reference and the function's register sets. There is no concurrency, no persistence and
no network, so what is hard is of another kind:

* *ordering and long sequences of legal calls*: a value is defined, then other code is emitted, then the
  value is used; in between the current block changes, another call overwrites the outgoing
  parameters, a register is spilled, or the function is emitted again;
* *fixpoints and retry loops* that must end: the liveness passes, colour-and-spill, the rounds of emission;
* *two computations that must agree*: caller and callee about parameters, prologue and epilogue about
  the saved registers, the frame laid out and the frame used;
* *numeric edges*: the 12-bit immediate, rounding of a negative offset, ends of the int range;
* *address order*: `std::set<Register*>` makes colouring depend on where the heap puts objects.

What makes each component correct:

* allocator: the code reads the same values as before allocation, on every path; it ends;
* frame: the areas are disjoint, `sp` is aligned at calls, the caller gets its registers back;
* calls: every argument is where the callee looks for it;
* IR builder: the control-flow graph performs the evaluations and statements of the program in the
  order C gives them, also with short circuits, nested loops and code after jumps;
* dead instruction removal: what is masked is never observed, and the rounds end;
* jump clean-up: a jump that goes and a label that goes leave the same control flow;
* instruction selection: the instructions exist, whatever constant is folded into them, and compute what the operator computes;
* names: a reference denotes the innermost earlier declaration, and a constant keeps the value it has where it is declared,
  however much later it is worked out;
* initializers: the three pieces of code that interpret a list agree on every element, and with the language.

`PROJECT.json` lists every component with its state, and under `hazards` each of these at its line.

## 2. The modules

### RegAlloc, RegAllocExec, VirtualMachine

`RegAlloc` is `RegAllocator::run` inside the do-while loop of `CodeGenerator::emitFunction`. Its
phases are the calls: `EmitRound` (a round of emission), `ScanInst` and `EndBlock` (`buildInterference`,
one instruction at a time, repeated until no live set changes), `ColorReg` and `FailReg` (`coloring`),
`Spill` (`reset` and `spill`, one action since nothing can come between them), `Colored` (the end of
`run` and the test of the do-while). A `Register` object is a pair of the template it is created from
and the round that creates it, since the second round makes new objects while `_needAllocRegs` still
holds the old ones. The variable `layout` is the order of the objects' addresses: the order in which
`coloring` visits them. Instructions keep what the allocator sees (`dest`, `src1`, `src2`, the
registers a call uses, jump targets); opcodes are left out.

`VirtualMachine` is the abstract specification: the code as instruction selection leaves it, run on a
machine with a register for every object. Its observable is `seen`, what the last instruction read, and
at return the result and the callee-saved registers. `RegAllocExec` runs the allocated code on physical
registers and spill slots. `ImplementsVirtual` is refinement: `VirtualMachine` instantiated with the
program counter mapped back over the inserted loads and stores. A branch goes either way, so all paths
are covered; the values are tokens, so two different values never compare equal by accident.

### CallConv

`Operand` and `Nested` are `IRBuilder::visit(FunctionCall)` visiting arguments (a plain expression, a
float `!=`, a constant, one that ends in another basic block, a call). A float `x != y` wanted as an int is the one expression whose register is
defined twice in a block (`feq r`, then `seqz r, r`, `CodeGenerator.cpp:922-935`); `Equal` is what the first definition leaves, and `first` in
an argument records it. `BeginPass`, `PassParam` and `EndPass` are
`CodeGenerator::emitFunctionCallInst`; `SaveAfterDef` is its search of the current block for the
definition of a stack argument, which stops at the first. `Home` is the callee's side: the counters of the `AllocInst` constructor
and the offsets of `emitAllocInst`. `Run` executes the code; a callee may overwrite the caller-saved
registers and its own stack parameters.

### Frame

The phase `lay` is the do-while loop as far as the frame is concerned: `Alloc`, `SpillSlot`, `PassParams`
in any order, and `NextRound`. `Close` is the rest of `emitFunction`: it adds the outgoing parameters, rounds
to 16 and builds prologue and epilogue in the short or the long form. `Enter`, `Body` and `Leave` run them, in a
body that overwrites all it may. Addresses are relative to `sp` at entry, what `s0` holds in the body.

### Ast, IR, CfgBuilder, DeadMask, Emission, BlockCode, ControlFlow, Source, BlockMachine, BlockRun

`ControlFlow` follows an int function without parameters through the compiler and then runs it: `Build`
(`IRBuilder::visit(FunctionDef)`), and then `BlockCode`: `Mask` (`maskDeadInst`), `Emit` (the blocks of `emitFunction` and its last loop)
and `Run`, one instruction of the machine at a time. Values have a register each, as before register allocation, so this
composition ends where `RegAlloc`'s begins.

`BlockCode` is a module of its own because what it does can be proved for every graph of blocks, while `CfgBuilder` recurs over syntax
trees. `Closed` and `DefinedFirst` say which graphs: blocks end in their only jump, a value has one definition, allocations stand in the first
block, and values are defined on every path to their use. `Runnable` adds what a run relies on: an instruction has its operands, each a constant, the global or a result; each result
has a number of its own; an address is the global, an allocation or an element, and what is indexed is not also stored to as a variable. `ControlFlow` checks that the builder makes such graphs (`BlocksClosed`,
`DefinitionsFirst`; `DefinedOnAllPaths` is the witness).

* `Ast` is the syntax tree as the AST builder leaves it. Each constructor is what `ASTBuilder` does at that node:
  operands of `&&`, `||` and conditions are marked as wanted for a jump (`forValue`), constants are evaluated.
* `IR` has values and instructions; a value knows the kind of instruction that defined it (`getDefined`), by which
  `maskDeadInst` tells an element of an array from a variable.
* `CfgBuilder` is the visitor. It is sequential and has no step that another part could see, so a visit is an operator from
  the builder's members before to the members after. `trueBB` and `falseBB` are saved and restored exactly
  where the code does it.
* `DeadMask` is a machine of its own with one action per piece of the loop: `EnterBlock`, `MaskInst`, `LeaveBlock`, `EndRound`.
  What is needed between two instructions is in `need`, the local set `alives` of the code.
* `Emission` has the branches of `emitCondJumpInst`, the assembly blocks, and `Cleanup`, the loop that removes jumps to the
  next block and labels. Other instructions pass through as they are.
* `Source` is the abstract specification, written from the language: the calls a function makes, in order, and what it
  returns, as a set of behaviours, since C leaves the order of operands open. The only observable is `out`.
  `ImplementsSource` is refinement, with `status` computed from the phase.
* `BlockMachine` is a second abstract specification, between the two: what basic blocks mean, whatever is made of them. It executes the
  blocks from instruction to instruction and keeps the values that are known and the memory that is known. It may pass over what computes a value
  or writes a variable, and forget anything at any time, but it never uses what it does not know; so the calls it makes, and the value it returns, are those of
  a run that executes every instruction.
* `BlockRun` maps the run of the printed code to it (`RunsTheBlocks`): the place in the text to the instruction of the IR (`Place`), registers to the results
  that are kept (`Values`), and memory to what the solved liveness needs at that place (`Cells`). Dead instructions are those passed over; `EmitCondJump`'s branch and
  jump are one step, and what moves the result to `a0` one with the `ret`.

In all of them the functions call two others: one returns the next input, the other is given a value to use. A run ends at `return` or when the
input is used up. Of these modules only `CfgBuilder` and `Source` have `RECURSIVE` operators.

### RiscV, ArrayType, Selection, Addressing, Lowering

`Lowering` takes one expression at a time (a *job*), selects its instructions (`Select`) and runs them (`Step`) from the values
the job gives to its registers.

* `RiscV` is the machine: what each selected instruction leaves in its register, and which instructions there are (`Assembles`).
  The width of an immediate and of the part that `lui` fills are constants; 12 and 20 bits on a real machine. Floats are whole
  numbers and a `NaN`, which is outside every order.
* `Selection` has `emitIntBinaryInst`, `emitFloatBinaryInst`, the float branches of `emitCondJumpInst`, `processIfImmOutOfRange`, and
  the loading of constants. `Plan` is the first half of `emitIntBinaryInst`: where each operand goes, which constant
  becomes its neighbour (`<=` as `<`) or its negation (a subtraction or a comparison as an addition), and whether the result is
  reverted. `EmitPlan` is the second half.
* `Addressing` has `IRBuilder::getIndexedRefAddress`, which sums constant and computed indexes apart, and the code of
  `emitGEPInst`, loads, stores and bit casts. `ArrayType` is `fixupArrayType`.

What the source asks for (`IntValue`, `FloatValue`, `AddressOf`) is in the last part of `Lowering`, written from the language,
not from the code: C's operators on words that wrap, IEEE's relations, and places counted by rows.

### Scopes, NameStack

`Scopes` is the tree of scopes and `CurrentScope`, as `ASTBuilder` goes through a source file: `OpenFunction`
(`visitFunctionDeclOrDef`: a scope for the parameters, one for the body), `OpenBlock`, `Close`, `DeclareVariable` (`visitVarDef`). Scopes are never
removed; `Close` goes back to the parent, and after the body of a function to the scope of the file. A function that is only declared leaves
a scope of parameters that nothing looks at; it is a function with an empty body here. `GetVariable` is the search of `Scope::getVariable`.

`NameStack` is the abstract specification, written from the language: a stack of frames, in which opening pushes, closing pops and a
declaration binds its number in the innermost frame. `ImplementsNameStack` is refinement: `Frames`, the tables on the path from the root to
`CurrentScope`, is the stack. What the tree keeps besides, the scopes that have been left, may never come back.

### ConstExpr, ConstEval, InitList, Declarations, Environment

`Declarations` extends `Scopes` by what the variables are: `VisitFunction`, `VisitVarDef` and `VisitRef` are the actions of `Scopes` with the
bound initializers, and every step is one of `ScopeSpec` or leaves the scopes alone. A state stands for what has been built
so far; `ConstEval` and `InitList` say what the IR builder reads out of it.

* `ConstExpr` has the expression tree and the arithmetic. Numbers are counted in halves: an int is an even count, so that
  what a conversion drops can be seen.
* `ConstEval` is `ExpressionHandle` and `getArrayElement`: the value of a constant is nowhere kept but worked out from the
  initializers at each use. The cache of `getArrayElement` is left out, because an initializer never changes once its variable is
  in scope.
* `InitList` is `visit(NestedExpression)` with its static counters, and the two readers of the runs it leaves:
  `emitGlobalVariable` and the stores of a local array.
* `Environment` extends `NameStack` by meanings: a declaration gives its name a value worked out once and at once, by C's rule for
  lists, written by rows rather than with counters.

`Declarations` runs in lockstep with `Environment` (`Language`): every action is one of both. `MeansTheSame` is the simulation
relation: the abstract stack is what the tree means from `CurrentScope` to the root, each constant, worked out
anew, is worth what it was when it was declared, and the answers to references are the same. Since every step of the compiler is a step of the language and the relation
is an invariant, `Declarations` implements `Environment`; the relation is stated as an invariant and not as a refinement of one
specification by another because TLC would work out all values anew on both sides of every step. Of the names alone it is
a refinement (`ImplementsNameStack`).

### SelectedCode

What the allocator relies on in the code it is given, `Selected`, in terms of what is live in it: `buildInterference` records what is live together only
where a register is read, so the refinement holds of the code that the `emit` methods make and not of any code. Blocks end in their
only jump (`Controlled`); an instruction writes a temporary, an argument or a result, and only calls use argument registers (`Operands`); temporaries are written before they are read and
are live on both sides of a branch or on none (`Temporaries`); arguments and results are read in the block that writes them (`Locally`); what is written is read, but for the result
of a call that is a statement (`Useful`); the result is the last to be written before the jump to the end (`Returned`). TLC evaluates it of each function of `MC_RegAlloc`, in every round.
`Allocatable` is the part of it that is also true of code with stores and reloads of `spill()` in it. `SpillFits` is what `spill()` itself relies on: the register it is called
for has not been spilled before, has one definition, and is used in the block of the definition or in later ones (`Homed`). The functions of findings 1, 2 and 3 are those that break it.

### SeqFacts, RegAllocProofs, RegAllocExecProofs, CallConvProofs, FrameProofs, BlockCodeProofs, LoweringProofs, ScopesProofs

The proofs, and the facts about sequences, induction and recursive functions they share.

### MC modules

`MC_RegAlloc` holds register files scaled down (five integer and three float colours, with every
class: argument, temporary, callee-saved) and the functions compiled, each written as instruction selection emits it
for the C text above it. `MC_Lowering` lists the jobs and `MC_Declarations` the source files. `MC_CallConv` and `MC_Frame` hold parameter lists and sizes. `MC_ControlFlow` combines conditions and the places they
can stand in.

## 3. The runs

| run | checks | shows | size |
|---|---|---|---|
| `regalloc` | `TypeOK`, `NoClash`, `CalleeSavedPushed`, `SpillFits`, `Compiles`, `ImplementsVirtual` | for 7 functions and 5 address orders: the allocated code implements the code before allocation, whatever path it takes, with spills and second rounds; `spill()` finds what it relies on; compilation ends | 5,823 states |
| `regalloc_convert` | `ReadsIntended` (violated) | see finding 1 | |
| `regalloc_notequal` | `ReadsIntended` (violated) | see finding 2 | |
| `regalloc_pressure` | `NoRespill` (violated) | see finding 3 | |
| `callconv` | `TypeOK`, `HomesAgree`, `OutgoingFits`, `SettledDelivered`, `NotEqualReversed` | ten parameter lists, calls nested two deep, every mixture of arguments: what arrives, and that a float `!=` on the stack arrives as `==` | 2,191,223 states |
| `callconv_nested` | `ArgsDelivered` (violated) | see finding 4 | |
| `frame` | `TypeOK`, `AreasApart`, `StackAligned`, `SavesInFrame`, `Restored`, `OthersEncodable` | frames of up to three areas on both sides of the immediate's limit, with every remainder modulo 16 | 191,215 states |
| `frame_2048` | `Encodable` (violated) | see finding 5 | |
| `controlflow` | `TypeOK`, `BlocksClosed`, `DefinitionsFirst`, `NothingNeededIsDead`, `LabelsKept`, `OperandsDefined`, `IndicesInBounds`, `NeedsOnlyGrow`, `ImplementsSource`, `RunsTheBlocks`, `Finishes` | 543 functions, each on every sequence of four inputs: the code does what the source says, and what its basic blocks do, though dead instructions, jumps and labels have gone and branches have been swapped; blocks are closed and values defined on every path to a use, the rounds of masking end, nothing that runs needs what was masked | 252,173 states |
| `controlflow_unreachable` | `OperandsHaveRegisters` (violated) | see finding 6 | |
| `lowering` | `TypeOK`, `AllAssemble`, `IntsRight`, `FloatsRight`, `AddressesRight` | every int operator with every int as a constant on either side; float operators, division excepted, and conditions with a NaN; addresses of elements of global, local and pointed-to arrays, with every mixture of constant and computed indexes, and at homes on both sides of the immediate's limit | 146,297 states |
| `declarations` | `TypeOK`, `FindsInnermost`, `ElementsAgree`, `MeansTheSame`, `ImplementsNameStack` | every source file made of a few declarations of names that shadow one another, with functions of one and two parameters, and of 1,731 arrays, constant or not, with a list each | 264,594 states |

Bounds. `MaxRound` and `MaxSpills` bound emission rounds and spills: `Compiles` shows that no function of the
passing run reaches them, since a run that met a bound would stop before `done`. Two rounds and one spill per
register are the interesting cases: they are where objects of a discarded round are coloured again and where
reloads shift the code. One argument register of each kind is enough for `CallConv`: two parameters
of a kind then put one on the stack, and the counters are symmetric in the number; `CallConvProofs` has the
result for any number. Two callee-saved registers and three areas in `Frame` suffice to have an area between two
others; `FrameProofs` has any number. The sizes of locals in `MC_Frame` include those that make the frame just below, just
above and exactly 2048 bytes. `MC_ControlFlow` has 34 conditions (calls, relations, constants, `&&`, `||` and `!` nested three
deep, a short circuit as an operand and as an index) in each of 16 contexts (if, else, while, nested loops, break and continue
in them, code after a return, a declaration, an assignment to a local, a global or an element). Every condition has at most three
calls and an input is 0 or 1, so four inputs take every path of a condition and go around a loop; each loop reads an input
at every turn, which ends the run. Of the 544 functions one is left out: its index can be 2, and the array has two elements.

In `MC_Lowering` words have six bits and immediates three, so that all 64 constants fit in a run and every border of the real
widths (an immediate, its negation, the carry out of the low part, both ends of int) is one of them; `LoweringProofs` has any width.
Arrays have up to three dimensions: with two variable indexes the sum of computed ones is extended, and with three a constant may
stand before, between and after them. `MaxReg` is more than the longest code needs (`TypeOK`). In `MC_Declarations` a source file has
at most four variables and one reference, and a unit bounds its scopes: with five scopes a name can be declared in the file, as a
parameter, in a body and in a block, and a function can follow another, with blocks left between; `ScopesProofs` has any number; four variables make a chain of constants that is read after one of its names has been shadowed. The
lists are all of up to three items, each a value or one of eight nested lists, for arrays of one to three dimensions: they have a
list at every place, for a row, within a row, at an element and empty, and excess values.

Fairness. `Compiles` needs weak fairness of `Compile`, the compiler's own step; `Finishes` that of `Mask`, the steps of
`maskDeadInst`, and of `Run`, a machine that does not stop between two instructions. The compiler is a sequential
program that never waits, so a step that is possible is taken. Nothing else is assumed of the compiled code. `lowering` and `declarations` state safety only: selection and the visits are finite operators.

`CHECK_DEADLOCK FALSE` is set where a run ends: a function compiled and returned, a frame left, an expression run, or a bound met (a source file may end after any declaration).

## 4. What the models found

1. `src/backend/riscv/CodeGenerator.cpp:602` converts a float comparison to 0.0 or 1.0 in two blocks that define the same register;
   `spill` (`RegAllocator.cpp:167`) gives each definition a slot of its own and every reload the last one.
2. `!=` on floats (`CodeGenerator.cpp:926`) defines its register twice, `seqz r, r`; spilled, only the second definition is stored and
   the reload before it reads a slot never written.
3. When the register on which colouring fails is one that has been spilled already, `RegAllocator::run` never ends. A spill leaves a register live only from a
   definition to its store and from a reload to its use; spilling it again makes no range shorter, so colouring fails on it again. A spill alone does not
   lead there: functions of the run `regalloc` spill, and their compilation ends.
4. A stack argument is stored at its definition and only if that is in the current block: it is lost when it was defined in an earlier
   block and overwritten when a later argument is a call with stack arguments.
5. A frame of exactly 2048 bytes needs `addi s0, sp, 2048`, which does not exist.
6. Code after `while (1)`, or in the else of `if (1)`, is emitted although no run comes to it. A variable that only such
   code reads is masked (`IRBuilder.cpp:886`), so it gets no register, and printing the load dereferences a null pointer.
   `NothingNeededIsDead` shows, and `NothingNeededIsLost` proves, that code a run can come to is not affected.

Four more disagreements are stated exactly in the properties of passing runs rather than in runs of their own:

* `NotEqualReversed` (`CallConv`): a float `x != y` passed as an int on the stack arrives as `x == y`. The loop at `CodeGenerator.cpp:408` stops at
  the first instruction that writes the argument's register, the `feq`, and puts the store there, before the `seqz` (`CodeGenerator.cpp:930-934`) that completes the value. In an argument
  register it arrives right, since the move comes after both. `SettledDelivered` is about the other arguments.
* `PastTheEnd` (`Lowering`): a comparison with a constant whose neighbour is no int (`x <= 2147483647` becomes `x < -2147483648`) and an equality
  whose negated constant is not reached by `lui` and `addi`. `IntsRight` says that the code is wrong there and right
  everywhere else.
* `regular` (`Environment`): a list at an element that starts an inner row but no row of the next dimension, as in
  `int a[2][2][2] = {1, 2, {3, 4}}`, fills the row in C; all three interpreters take one value of it (`IRBuilder.cpp:279`,
  `Expression.cpp:38`). `ElementsAgree` includes such lists, `MeansTheSame` leaves them out for constants.
* `Evaluable` (`Declarations`): more braces around a value than dimensions and one read `elementSize` past its end (`Expression.cpp:34`);
  such a constant is not declared in the model.

## 5. What is proved

For any functions, register files, address orders, numbers of rounds and spills (`RegAllocProofs`): `TypeOK`, `NoClash`,
`CalleeSavedPushed`. The inductive invariant is `AllocInv`. `NoClash` alone is not inductive: a colour given to one
register must be avoided by the next, so the graph must be symmetric (`GraphOK`), and registers whose colour
is out of date must not be looked at (`Painted`). `CalleeSavedPushed` needs that each register of the code is
entered in `_needAllocRegs` (`Scanned`, `LiveNeeded`), although the set holds stale registers as well, and that a
callee-saved colour enters the push set when it is given (`PaintedPushed`); the loop of `emitFunction` then ends
only if the set is the one the frame was laid out for (`AllPainted`).

For any functions as instruction selection makes them, register files, address orders and paths (`RegAllocExecProofs`): the refinement
`ImplementsVirtual`, with any number of spills and second rounds: `ExecSpec /\ []SpillFits => ImplementsVirtual`. The hypothesis cannot be dropped:
the functions of findings 1 to 3 are `Selected` and break it. TLC checks it on the run `regalloc`, where it holds with spills. The argument:

* The code is the selected code with stores and reloads between: each store behind what writes its register, each reload before what reads it, one slot for each register
  (`Laid`). `SpillKeepsLaid` is that `spill()` keeps it so, by `SpillFits`; `LaidAllocatable` that such code is again code that the allocator can be given.
* A pass of `buildInterference` that changes nothing
  has found what is live (`Solved`) and recorded an interference for every read (`Recorded`): the invariant says so for the part of the
  pass done, on the condition that nothing has changed yet. Two registers live together therefore have an edge (`BlockEdge`, `LiveEdge`).
* `NoClash` keeps their colours apart, so an instruction or a call overwrites nothing that is still read (`NotOverwritten`, `CallApart`).
* The run then keeps that each live object's colour holds its value (`StepKeeps`, `JumpKeeps`) and that each slot holds the value of the register
  spilled to it wherever that is still to be reloaded (`SlotsStep`, `SlotsJump`, `StoreKeeps`, `ReloadKeeps`). So every step is one of `VirtualMachine`, or a stutter when it stores or
  reloads (`ExecImplements`). That the caller gets its registers back comes from `CalleeSavedPushed`.

For any number of argument registers, parameter lists and depth of nesting (`CallConvProofs`): `TypeOK`,
`HomesAgree` (the loop's counters equal the callee's counts at every step), `OutgoingFits`, and
`SettledDelivered` and `NotEqualReversed`. The invariant of the last is `Delivery`: values have numbers of their own (`Numbered`), the first and the last definition of an argument's register leave
`first` and the value, whatever `emitFunctionCallInst` has inserted (`Leaves`, part of `Emitted`), each instruction of a finished call is where it was put, though shifted by later insertions (`Emitted`), between such a store and its
call nothing writes the same place (`Undisturbed`), and the machine has left behind `pc` what they say (`Ran`). What the callee finds
(`Arrival`) is `Arriving`: after a move the last definition, after a store the first. The two are the same, except for a float `!=`.

For any frame (`FrameProofs`): `TypeOK`, `AreasApart`, `StackAligned`, `SavesInFrame`, `Restored`, `OthersEncodable`. The inductive
invariant is `FrameInv`: `LayInv` relates the offset, the areas and the saved registers, and `RunInv` gives for each
instruction of prologue and epilogue the value of `sp` and `s0`, which registers are in memory, and which are back.

For any graph of blocks (`BlockCodeProofs`):

* `NeedsOnlyGrow`. The invariant, `GrowInv`, says that what is kept for a block is justified by a chain of sets, one for each place between two
  instructions, that ends below what the successors need now; `Before` is monotone, so the chain stays below the next round's (`AboveLast`).
* `MaskedIsSolution`: at the end the kept sets solve the liveness equations of the whole graph, and an instruction is dead only if that
  solution does not need it. The invariant, `SolveInv`, says that while a round has changed nothing the blocks behind it are solved exactly.
* `NothingNeededIsDead`, for closed graphs whose values are defined before they are used. The solution alone does not give it: `maskDeadInst` also ends the need for
  an allocation at a store to it, and restores the allocation at the end of the round. `StoreInv` says that the round has seen every live store behind it, so that
  an allocation stored to is kept (`AllocsKept`); `DefInv` that what is needed somewhere has been defined there. A dead value that is used on some path would be needed back
  to the start of each block (`NeededAtStart`) and, by induction over the path, of every block from which it can be reached (`NotNeededAtStart`): at the start of the function, where nothing has been defined.
* `LabelsKept` and `TypeOK`, for closed graphs, with `CodeInv`. A jump at the end of a block is never dead (`JumpsKept`), so no emitted block is empty
  (`EmittedBlock`), and a block that falls into the next has a jump of its own to it: the label that goes with this jump has a second predecessor if
  any other jump is left (`LabelStays`). Jumps stay in the printed code because the targets are blocks of the function.

* `RunsTheBlocks`, for closed and runnable graphs whose values are defined before they are used, and any inputs (`CodeRunsItsBlocks`): `CodeSpec(g) /\ []IndicesInBounds => RunsTheBlocks`. The
  hypothesis is about the source program, an index of an array, and C has it as well; TLC checks it on the run `controlflow`. The invariant is `RunInv`, with these parts:
    * The text of a block is, piece by piece, what its instructions that are not dead become (`EmittedText`, `PiecesAt`), less a jump to the next block (`CleanedText`). So the place in the text
      says which instruction comes next and which were dead before it (`Located`, `WhereInBlock`), and a jump to a label is one to the start of a block (`ToBlock`).
    * No instruction that stays has a dead operand, so each operand is in its register (`OperandsKept`, from `NothingNeededIsDead`), and has been computed on the way
      (`DefinedBefore`); an address that has been computed is right (`AddressesAsBefore`, `AddressesWithResult`), so a load or store goes to the cell it should.
    * `CellsAfter` is the memory that matters: what matters after an instruction mattered before it or the instruction wrote it (`CellsOfStretch`, `CellsOfLive`, `CellsOfNext`),
      since the kept sets solve the liveness equations. So a load finds a known cell (`LoadedCell`), and a dead store writes a cell that does not matter (`DeadWrites`).
    * Each instruction executed is then one step of `BlockMachine`, over the dead ones before it, or a step it does not see (`StepCompute`, `StepStore`, `StepCall`, `StepJump`, `StepBranch`, `StepSecond`, `StepReturn`).

The hypotheses on the graph are those that `BlocksClosed` and `DefinitionsFirst` check of the builder's graphs, the latter with the set of values
defined on all paths; the theorems are stated of `BlockCode` from any such graph, since the prover does not take the builder's recursion.

For immediates and words of any width, any constants, arrays of any number of dimensions and any indexes (`LoweringProofs`): all
five properties of `Lowering`. `CodeAssembles` follows the emission: what `ProcessImm` leaves is an immediate, and `SplitFits` shows that the carry out of the
low part never makes the immediate of `lui` too large. The code of a job is `Linear`: each instruction writes a new register and reads earlier ones. So there is one
assignment that satisfies the equations of all instructions (`Completion`, `Holds`), a run is a prefix of it (`RunInv`), and at the end the equations
are solved along the emission: `SplitReaches` for the two parts of a constant, `Neighbours` and `EqualByAdding` for
constants turned into others, with `PastTheEnd` as the exact condition. For addresses, the sum of weighted indexes is the place by rows (`RowMajor`);
`getIndexedRefAddress` keeps the constant and the computed part apart (`Summed`, `Flattened`), and neither leaves the ints because both are bounded by the place
of an element. `Known` then says of every emission what its register holds.

For any source file (`ScopesProofs`): `TypeOK` of `Scopes`, the refinement `ImplementsNameStack`, and `FindsInnermost`. The inductive invariant, `ScopeInv`, says that
a scope is younger than its parent (`Rooted`) and which variables the names of a tree are (`Named`). From the first follows that along a path the numbers of the scopes
grow (`PathShape`), so that a declaration in `CurrentScope` changes the last frame of its path and no other (`FramesChange`), and a new scope changes no path (`FramesStay`). Opening adds frames at the end (`ScopeAdded`),
closing takes away the last, or the last two (`FramesAppend`). The search goes up the path that `Frames` lists; by the recursion over parents
it finds what the language finds, frame by frame (`FoundAbove`, `LookupAppend`). The theorems are of `ScopeSpec`, which every step of `Declarations` follows, and for any number of scopes and variables.

Assumptions: those named in the modules; TLC evaluates each on a run. `Widths` says that an immediate and the part of `lui` have at least two bits, `Room` that there
are registers enough for one expression on ints, `OtherJobs` what the jobs on floats and memory are: operands that are registers of the job, floats that are exact, arrays whose
elements and offsets are ints, indexes within the array, offsets in the frame that are not at the very end of the ints. `Registers` says that `ra`, `s0` and the callee-saved registers are
different and that there are at most 23 of the latter (RISC-V: `s1`-`s11` and `fs0`-`fs11`); `Names`, `Apart`,
`ProgramsOK` and `LayoutsOK` say that the register files, functions and addresses are well-formed; `SelectedOK` that the functions are code that instruction
selection makes (`Selected`); `JunkOK` that what a callee leaves behind is no place; `InputsOK` that inputs are ints; `UnitsOK` that no two parameters of a function have one name, as the language has it.

Only model-checked:

* `ElementsAgree` and `MeansTheSame`: lists and constants are trees of any depth, on recursive operators, which the prover does not take.
* `BlocksClosed`, `DefinitionsFirst` and `ImplementsSource`: they are about what the recursive visitor builds. From the blocks on, `RunsTheBlocks` is proved for every graph, so that what is left to TLC
  is the way from the source to the blocks. `IndicesInBounds` is a property of the source program. `OperandsDefined` is about the
  contents of memory as well, which depend on the source giving a variable a value before it is read.
* `SpillFits`: whether a register gets one definition depends on what the `emit` methods select for a value, and which register fails on the functions compiled; the findings
  show functions for which it is false.
* `Compiles` and `Finishes`: liveness under fairness is outside the proof system's reach.

## 6. What is not modelled, and the plan

1. Pointer parameters and more dimensions in `CfgBuilder`, with the bit casts of `DeadMask`: their addresses are in `Addressing`, the
   liveness of the stores through them is not modelled.
2. `FTOI`, float division and the moves of arguments in `Selection`.
3. The rules of `Environment` for lists as recursive functions, to prove about them.

In the modelled components: products and quotients of floats in constants (numbers are counted in halves); the table of functions
in a scope, which is looked up as variables are; parameters that are pointers in `Declarations`; whole arrays, and rows of them, as arguments, also constant ones (`WellFormed` in `Environment` asks for
all indexes of an array); `-0.0` and how a float
constant gets its label (`CodeGenerator.cpp:946`).

Left out for good: the grammar and the AST builder beyond conditions and constants (a structural translation), printing, the semantic checker
(not called), the driver (file and process I/O), the empty ARM back end, the run-time library (external).
