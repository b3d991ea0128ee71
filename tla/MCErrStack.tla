------------------------------ MODULE MCErrStack ------------------------------
(* Stacks of one to three entries with locations of 1 or 2 characters and  *)
(* messages of 0 to 5; the fallback line is absent or 2 characters.       *)
EXTENDS ErrStack

Entry == [loc: {1, 2}, msg: 0..5]
MCStacks == {<<e>> : e \in Entry} \cup {<<e, f>> : e, f \in Entry}
MCTails == {0, 2}

\* Three-entry stacks with short messages, for the buffer-overrun run.
MCLongStacks == {<<e, f, g>> : e, f, g \in [loc: {1, 2}, msg: 0..2]}

=============================================================================
