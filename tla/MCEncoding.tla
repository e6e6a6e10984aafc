----------------------------- MODULE MCEncoding -----------------------------
(***************************************************************************)
(* Any call of a write_* function with all registers, then any of another  *)
(* with one of them.                                                       *)
(***************************************************************************)
EXTENDS CowX86Meaning

MCSpan == [i8 |-> 4, i16 |-> 8, i32 |-> 16, i64 |-> 32]
MCJunk == {0}
MCCodeAddr == <<>>
MCExtern == {}
MCOperands == <<0 .. 15, {9}>>
=============================================================================
