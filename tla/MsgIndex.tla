---------------------------- MODULE MsgIndex ----------------------------
(***************************************************************************)
(* The lookup of a short message name ("**msg") in the static message     *)
(* tables: FindGenericMsgIndex and FindSpecificMsgIndex of errutil.c,     *)
(* which are the same loop over two different tables.  The loop is the    *)
(* recursive operator FindMsgIndex; it is checked against Expected, the    *)
(* declarative lookup, over every table of a few short names sorted by     *)
(* the order the table generator may have used.                           *)
(*                                                                         *)
(* A short name is a sequence of character codes (Alphabet), compared by   *)
(* strcmp.  An entry whose sentinels were overwritten is ok[i] = FALSE.    *)
(***************************************************************************)
EXTENDS Integers, Sequences, SequencesExt, FiniteSets

CONSTANTS
    Alphabet,   \* character codes, ordered as unsigned char
    MaxName,    \* longest short name
    MaxTable,   \* most entries in a table
    Orders      \* orders the table may be sorted by: "strcmp", "extfirst"

Names == UNION {[1..n -> Alphabet] : n \in 1..MaxName}

\* strcmp as the C library defines it: sign of the first differing
\* character, a proper prefix comparing smaller.
RECURSIVE Strcmp(_, _)
Strcmp(a, b) ==
    CASE a = <<>> /\ b = <<>> -> 0
      [] a = <<>>             -> -1
      [] b = <<>>             -> 1
      [] Head(a) < Head(b)    -> -1
      [] Head(a) > Head(b)    -> 1
      [] OTHER                -> Strcmp(Tail(a), Tail(b))

StrcmpLess(a, b) == Strcmp(a, b) < 0

\* The order the comment at the partial-match test allows for: strcmp,
\* except that a name sorts before the names it is a proper prefix of.
ExtFirstLess(a, b) ==
    IF IsPrefix(a, b) \/ IsPrefix(b, a) THEN Len(a) > Len(b)
    ELSE Strcmp(a, b) < 0

SortedTable(S, o) ==
    IF o = "strcmp" THEN SetToSortSeq(S, StrcmpLess)
                    ELSE SetToSortSeq(S, ExtFirstLess)

\* Mutant: the c > 0 branch without the partial-match test.
RECURSIVE FindMsgIndexNoPartial(_, _, _, _)
FindMsgIndexNoPartial(t, ok, msg, i) ==
    IF i >= Len(t) \/ ~ok[i + 1] THEN -1
    ELSE LET c == Strcmp(t[i + 1], msg) IN
         IF c = 0 THEN i
         ELSE IF c > 0 THEN -1
         ELSE FindMsgIndexNoPartial(t, ok, msg, i + 1)

\* Mutant: the match is reported 1-based, as an index into a table with
\* a leading sentinel entry would be.
RECURSIVE FindMsgIndexOneBased(_, _, _, _)
FindMsgIndexOneBased(t, ok, msg, i) ==
    IF i >= Len(t) \/ ~ok[i + 1] THEN -1
    ELSE LET c == Strcmp(t[i + 1], msg) IN
         IF c = 0 THEN i + 1
         ELSE IF c > 0 /\ ~IsPrefix(msg, t[i + 1]) THEN -1
         ELSE FindMsgIndexOneBased(t, ok, msg, i + 1)

\* The loop of FindGenericMsgIndex from index i (0-based): stop at a bad
\* sentinel, return i on an exact match, give up on the first greater
\* name unless msg is a prefix of it (strncmp over strlen(msg)), and
\* return -1 when the table is exhausted.
RECURSIVE FindMsgIndex(_, _, _, _)
FindMsgIndex(t, ok, msg, i) ==
    IF i >= Len(t) \/ ~ok[i + 1] THEN -1
    ELSE LET c == Strcmp(t[i + 1], msg) IN
         IF c = 0 THEN i
         ELSE IF c > 0 /\ ~IsPrefix(msg, t[i + 1]) THEN -1
         ELSE FindMsgIndex(t, ok, msg, i + 1)

NotCalled == -2

VARIABLES order, table, ok, msg, result
vars == <<order, table, ok, msg, result>>

\* A table generated from a set of distinct names, its sentinels intact or
\* corrupted entry by entry, and any name to look up.
Init ==
    /\ order \in Orders
    /\ \E S \in {S \in SUBSET Names : Cardinality(S) <= MaxTable} :
          table = SortedTable(S, order)
    /\ ok \in [1..Len(table) -> BOOLEAN]
    /\ msg \in Names
    /\ result = NotCalled

\* One call of FindGenericMsgIndex (or FindSpecificMsgIndex).
Lookup ==
    /\ result = NotCalled
    /\ result' = FindMsgIndex(table, ok, msg, 0)
    /\ UNCHANGED <<order, table, ok, msg>>

Next == Lookup

Spec == Init /\ [][Next]_vars

TypeOK ==
    /\ order \in Orders
    /\ table \in Seq(Names) /\ Len(table) <= MaxTable
    /\ ok \in [1..Len(table) -> BOOLEAN]
    /\ msg \in Names
    /\ result \in {NotCalled} \cup (-1..MaxTable - 1)

\* The 0-based position of msg among the entries before the first bad
\* sentinel, or -1 when it is not among them.
Expected ==
    LET reach == {j \in 1..Len(table) : \A p \in 1..j : ok[p]}
        hits  == {j \in reach : table[j] = msg}
    IN  IF hits = {} THEN -1 ELSE Min(hits) - 1

(***************************************************************************)
(* The lookup returns the index of msg whenever msg is in the table ahead  *)
(* of any corrupted entry, and -1 otherwise, for tables sorted by strcmp   *)
(* and for tables that put a name before its own prefixes, the case the    *)
(* comment in FindGenericMsgIndex says the partial-match test tolerates.   *)
(* create_code encodes this index into the error code's generic field.    *)
(***************************************************************************)
LookupCorrect == result /= NotCalled => result = Expected

=============================================================================
