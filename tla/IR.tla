--------------------------------- MODULE IR ---------------------------------
(***************************************************************************)
(* Values and instructions of the intermediate representation.  A value    *)
(* remembers the kind of instruction that defined it (getDefined): for an  *)
(* address that is what tells a local variable from an array element.      *)
(***************************************************************************)
EXTENDS Integers, Sequences

Const(n)      == [kind |-> "const", n |-> n, by |-> ""]
GlobalAddr    == [kind |-> "global", n |-> 0, by |-> ""]
Result(n, op) == [kind |-> "result", n |-> n, by |-> op]
None          == [kind |-> "none", n |-> 0, by |-> ""]

\* dst is None where getResult is nullptr; to are the targets of a jump.
Inst(op, tag, dst, args, to) ==
    [op |-> op, tag |-> tag, dst |-> dst, args |-> args, to |-> to]

Store(v, addr) == Inst("store", "", None, <<v, addr>>, <<>>)

EmptyBB == [code |-> <<>>, succ |-> <<>>, pred |-> <<>>, hasBr |-> FALSE]
=============================================================================
