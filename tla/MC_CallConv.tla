---------------------------- MODULE MC_CallConv ----------------------------
(***************************************************************************)
(* Calls with one argument register of each kind, so that two parameters   *)
(* of a kind put one on the stack, and nesting two calls deep.             *)
(***************************************************************************)
EXTENDS CallConv

MCSignatures ==
  {<< >>, <<"int">>, <<"float", "int">>, <<"int", "int">>, <<"float", "float">>,
   <<"int", "float", "int">>, <<"float", "int", "float">>, <<"int", "int", "int">>,
   <<"int", "float", "float", "int">>, <<"float", "float", "int", "int">>}
=============================================================================
