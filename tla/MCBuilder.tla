----------------------------- MODULE MCBuilder -----------------------------
(***************************************************************************)
(* Small modules: at most two functions, without arguments or with one,    *)
(* which have at most three blocks and two instructions together; one      *)
(* array of call arguments, of at most one element.                        *)
(***************************************************************************)
EXTENDS CowBuilder

MCNames     == {"f"}
MCArgLists  == {<<>>, <<"ptr">>}
MCConstants == {<<"CONST_I64", "f64", 1>>}
=============================================================================
