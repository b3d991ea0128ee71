----------------------------- MODULE MCErrDispatch -----------------------------
(* Model values and small inputs for ErrDispatch: one user communicator,   *)
(* one window, one session, a group of that session and a group without   *)
(* one; class 1 is a valid class and LastClass + 1 an invalid one.        *)
EXTENDS ErrDispatch, TLC

\* The session g1 belongs to; g0 has none.
MCGroupSession == [g \in Groups |-> IF g = "g1" THEN "s1" ELSE NoObj]

\* A plain code, one whose entry carries a **user value, a fatal one, a
\* fatal dynamic one (never fatal) and one with an invalid class.
MCCodeInputs ==
    { [cls |-> 1, fatal |-> FALSE, dyn |-> FALSE, user |-> NoUser],
      [cls |-> 1, fatal |-> FALSE, dyn |-> FALSE, user |-> CHOOSE v \in UserVals : TRUE],
      [cls |-> 1, fatal |-> TRUE, dyn |-> FALSE, user |-> NoUser],
      [cls |-> 1, fatal |-> TRUE, dyn |-> TRUE, user |-> NoUser],
      [cls |-> LastClass + 1, fatal |-> FALSE, dyn |-> FALSE, user |-> NoUser] }

\* For the liveness run: a code with a **user value, a fatal one and one
\* with an invalid class (termination does not depend on the others).
MCLiveCodeInputs ==
    { [cls |-> 1, fatal |-> FALSE, dyn |-> FALSE, user |-> CHOOSE v \in UserVals : TRUE],
      [cls |-> 1, fatal |-> TRUE, dyn |-> FALSE, user |-> NoUser],
      [cls |-> LastClass + 1, fatal |-> FALSE, dyn |-> FALSE, user |-> NoUser] }

ThreadSymmetry == Permutations(Threads)

=============================================================================
