----------------------------- MODULE ArrayType -----------------------------
(***************************************************************************)
(* What fixupArrayType computes of the dimensions of an array.             *)
(***************************************************************************)
EXTENDS Integers, Sequences

\* elementSize: how many elements one step of each index passes over.
ElementSize(dims) ==
    LET size[i \in 1 .. Len(dims)] ==
            IF i = Len(dims) THEN 1 ELSE dims[i + 1] * size[i + 1]
    IN size

TotalSize(dims) == IF dims = <<>> THEN 1 ELSE dims[1] * ElementSize(dims)[1]
=============================================================================
