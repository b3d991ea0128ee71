---------------------------- MODULE MCMsgIndex ----------------------------
(* Model-checking instance of MsgIndex: names of up to three characters  *)
(* over a two-letter alphabet (14 names, among them prefixes of each     *)
(* other), tables of up to three entries.                                *)
EXTENDS MsgIndex

MCAlphabet == {1, 2}
MCOrders   == {"strcmp", "extfirst"}
=============================================================================
