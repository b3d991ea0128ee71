---------------------------- MODULE MCErrFormat ----------------------------
(* Model-checking instance of ErrFormat: templates of up to two directives *)
(* with literals of up to two characters and a trailing literal of up to  *)
(* two; directive texts of length 0 to 3; a 5-character line.              *)
EXTENDS ErrFormat

Piece == [lit: 0..2, dir: {"known", "unknown"}]
MCTemplates ==
    [pieces: UNION {[1..n -> Piece] : n \in 0..2}, tail: 0..2]
=============================================================================
