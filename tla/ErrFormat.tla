---------------------------- MODULE ErrFormat ----------------------------
(***************************************************************************)
(* vsnprintf_mpi (errutil.c 1520-1758), the renderer of instance-specific *)
(* messages, in the one context that calls it: MPIR_Err_create_code_valist *)
(* zeroes the ring slot, renders into ring_msg (char[MaxLine + 1]) with    *)
(* the bound MaxLine, and then sets ring_msg[MaxLine] = '\0'.              *)
(*                                                                         *)
(* A template is a sequence of pieces, each a literal of some length       *)
(* followed by a '%' directive, and a trailing literal.  A directive is    *)
(* "known" (one of the cases of the switch, which renders its argument as  *)
(* text of length arglen[k]) or "unknown" (the default case, also taken    *)
(* for a '%' that ends the template).  Characters are symbols: <<"f",k,j>> *)
(* is character j of the literal before piece k (k = Len + 1: the trailing *)
(* literal) and <<"a",k,j>> character j of the text of directive k.       *)
(***************************************************************************)
EXTENDS Integers, Sequences, SequencesExt, FiniteSetsExt

CONSTANTS
    MaxLine,    \* MPIR_MAX_ERROR_LINE, the bound passed to vsnprintf_mpi
    Templates,  \* [pieces: Seq([lit: Nat, dir: {"known", "unknown"}]), tail: Nat]
    ArgLens     \* lengths of the text a known directive renders

NUL == <<"nul", 0, 0>>
JUNK == <<"junk", 0, 0>>   \* a byte of a slot that was not cleared
Lit(k, n) == [j \in 1..n |-> <<"f", k, j>>]
Arg(k, n) == [j \in 1..n |-> <<"a", k, j>>]

VARIABLES
    tmpl,     \* the template (specific_fmt)
    arglen,   \* the length of each known directive's text
    buf,      \* ring_msg: 0..MaxLine -> byte
    str,      \* the write position
    maxlen,   \* the remaining bound (size_t: a negative value is a huge one)
    k,        \* the piece being processed (begin / end of the code)
    pc,
    dupok     \* MPL_strdup of the template succeeded

vars == <<tmpl, arglen, buf, str, maxlen, k, pc, dupok>>

Pieces == tmpl.pieces

\* MPL_strncpy(str, text, size) and snprintf(str, size, "%...", ...): at
\* most size - 1 characters and a NUL; nothing for size 0; everything for a
\* huge (wrapped) size.
Bounded(p, size, text) ==
    LET n == IF size < 0 THEN Len(text) ELSE Min({Len(text), size - 1}) IN
    IF size = 0 THEN <<>>
    ELSE [x \in p..p + n |-> IF x < p + n THEN text[x - p + 1] ELSE NUL]

InBuf(w) == DOMAIN w \subseteq 0..MaxLine
Apply(w) == [x \in 0..MaxLine |-> IF x \in DOMAIN w THEN w[x] ELSE buf[x]]

\* strlen(str) on buffer b: -1 when no NUL lies between str and the end of
\* the array, i.e. strlen reads past ring_msg.
Strlen(b, p) ==
    LET nul == {x \in p..MaxLine : b[x] = NUL} IN
    IF nul = {} THEN -1 ELSE Min(nul) - p

Fault == pc' = "ub" /\ UNCHANGED <<tmpl, arglen, buf, str, maxlen, k, dupok>>

-----------------------------------------------------------------------------

\* Mutation: ring_msg is rendered with sizeof(ring_msg) as the bound.
InitFullBound ==
    /\ tmpl \in Templates
    /\ arglen \in [1..Len(tmpl.pieces) -> ArgLens]
    /\ buf = [x \in 0..MaxLine |-> NUL]
    /\ str = 0 /\ maxlen = MaxLine + 1 /\ k = 1 /\ pc = "dup" /\ dupok = TRUE

\* Mutation: the ring slot is not cleared before rendering.
InitNoMemset ==
    /\ tmpl \in Templates
    /\ arglen \in [1..Len(tmpl.pieces) -> ArgLens]
    /\ buf = [x \in 0..MaxLine |-> JUNK]
    /\ str = 0 /\ maxlen = MaxLine /\ k = 1 /\ pc = "dup" /\ dupok = TRUE

\* The slot was zeroed by memset (984-990); vsnprintf_mpi(ring_msg,
\* MPIR_MAX_ERROR_LINE, specific_fmt, Argp) is called (1002).
Init ==
    /\ tmpl \in Templates
    /\ arglen \in [1..Len(tmpl.pieces) -> ArgLens]
    /\ buf = [x \in 0..MaxLine |-> NUL]
    /\ str = 0 /\ maxlen = MaxLine /\ k = 1 /\ pc = "dup" /\ dupok = TRUE

\* fmt = MPL_strdup(fmt_orig): on failure the output is the empty string.
Dup ==
    /\ pc = "dup"
    /\ \/ /\ dupok' = FALSE /\ pc' = "ret"
          /\ buf' = IF maxlen > 0 THEN [buf EXCEPT ![str] = NUL] ELSE buf
       \/ /\ dupok' = TRUE /\ buf' = buf
          /\ pc' = IF Pieces = <<>> THEN "tail" ELSE "lit"
    /\ UNCHANGED <<tmpl, arglen, str, maxlen, k>>

\* Mutation: maxlen is not reduced by the literal copied.
LiteralKeepMaxlen ==
    LET n == IF maxlen < 0 THEN Pieces[k].lit ELSE Min({maxlen, Pieces[k].lit})
        w == [x \in str..str + n - 1 |-> Lit(k, n)[x - str + 1]]
    IN
    /\ pc = "lit"
    /\ IF ~InBuf(w) THEN Fault
       ELSE /\ buf' = Apply(w) /\ str' = str + n /\ maxlen' = maxlen
            /\ pc' = "dir"
            /\ UNCHANGED <<tmpl, arglen, k, dupok>>

\* len = min(maxlen, end - begin); memcpy of the literal before the '%',
\* without a terminator; str += len; maxlen -= len.
Literal ==
    LET n == IF maxlen < 0 THEN Pieces[k].lit ELSE Min({maxlen, Pieces[k].lit})
        w == [x \in str..str + n - 1 |-> Lit(k, n)[x - str + 1]]
    IN
    /\ pc = "lit"
    /\ IF ~InBuf(w) THEN Fault
       ELSE /\ buf' = Apply(w) /\ str' = str + n /\ maxlen' = maxlen - n
            /\ pc' = "dir"
            /\ UNCHANGED <<tmpl, arglen, k, dupok>>

\* Mutation: the directive's text is bounded by maxlen - 1.
DirectiveReserve ==
    LET w   == Bounded(str, maxlen - 1, Arg(k, arglen[k]))
        len == Strlen(Apply(w), str)
    IN
    /\ pc = "dir"
    /\ IF Pieces[k].dir = "unknown"
       THEN pc' = "ret" /\ UNCHANGED <<tmpl, arglen, buf, str, maxlen, k, dupok>>
       ELSE IF ~InBuf(w) \/ len < 0 THEN Fault
       ELSE /\ buf' = Apply(w) /\ str' = str + len /\ maxlen' = maxlen - len
            /\ k' = k + 1
            /\ pc' = IF k < Len(Pieces) THEN "lit" ELSE "tail"
            /\ UNCHANGED <<tmpl, arglen, dupok>>

\* One directive (1559-1747): the default case frees fmt and returns 0;
\* every other case writes its text with snprintf or MPL_strncpy bounded
\* by maxlen, then len = strlen(str); maxlen -= len; str += len.
Directive ==
    LET w   == Bounded(str, maxlen, Arg(k, arglen[k]))
        len == Strlen(Apply(w), str)
    IN
    /\ pc = "dir"
    /\ IF Pieces[k].dir = "unknown"
       THEN pc' = "ret" /\ UNCHANGED <<tmpl, arglen, buf, str, maxlen, k, dupok>>
       ELSE IF ~InBuf(w) \/ len < 0 THEN Fault
       ELSE /\ buf' = Apply(w) /\ str' = str + len /\ maxlen' = maxlen - len
            /\ k' = k + 1
            /\ pc' = IF k < Len(Pieces) THEN "lit" ELSE "tail"
            /\ UNCHANGED <<tmpl, arglen, dupok>>

\* if (*begin != '\0') MPL_strncpy(str, begin, maxlen): the literal after
\* the last directive.
TailLiteral ==
    LET w == Bounded(str, maxlen, Lit(Len(Pieces) + 1, tmpl.tail)) IN
    /\ pc = "tail"
    /\ IF tmpl.tail > 0 /\ ~InBuf(w) THEN Fault
       ELSE /\ buf' = IF tmpl.tail > 0 THEN Apply(w) ELSE buf
            /\ pc' = "ret"
            /\ UNCHANGED <<tmpl, arglen, str, maxlen, k, dupok>>

\* Back in MPIR_Err_create_code_valist: ring_msg[MPIR_MAX_ERROR_LINE] = '\0'.
Return ==
    /\ pc = "ret"
    /\ buf' = [buf EXCEPT ![MaxLine] = NUL] /\ pc' = "done"
    /\ UNCHANGED <<tmpl, arglen, str, maxlen, k, dupok>>

Next == Dup \/ Literal \/ Directive \/ TailLiteral \/ Return

Spec == Init /\ [][Next]_vars

-----------------------------------------------------------------------------

Byte == {NUL} \cup {<<"f", i, j>> : i \in 1..Len(Pieces) + 1, j \in 1..MaxLine + 1}
              \cup {<<"a", i, j>> : i \in 1..Len(Pieces), j \in 1..MaxLine + 1}

TypeOK ==
    /\ tmpl \in Templates
    /\ arglen \in [1..Len(Pieces) -> ArgLens]
    /\ buf \in [0..MaxLine -> Byte]
    /\ str \in 0..MaxLine /\ str + maxlen = MaxLine
    /\ k \in 1..Len(Pieces) + 1
    /\ pc \in {"dup", "lit", "dir", "tail", "ret", "done", "ub"}

\* The text the template asks for: literals and directive texts in order,
\* up to and including the literal before the first unknown directive.
RECURSIVE Expand(_)
Expand(i) ==
    IF i > Len(Pieces) THEN Lit(i, tmpl.tail)
    ELSE Lit(i, Pieces[i].lit)
         \o (IF Pieces[i].dir = "unknown" THEN <<>> ELSE Arg(i, arglen[i]) \o Expand(i + 1))

Full == Expand(1)

\* The C string in ring_msg.
Out == LET e == Min({x \in 0..MaxLine : buf[x] = NUL}) IN [i \in 1..e |-> buf[i - 1]]

Known == \A i \in 1..Len(Pieces) : Pieces[i].dir = "known"

\* No read or write of vsnprintf_mpi leaves ring_msg (spec.md 4.3: the
\* renderer never writes past the supplied bound; spec.md 9: all rendering
\* operations stay within the bound for every buffer size).
MemorySafe == pc /= "ub"

\* A message that fits is rendered whole: the ring holds exactly the
\* template's text with every directive's text in its place, or, after an
\* unknown directive, the literal text before it (spec.md 4.3).
RenderFaithful == (pc = "done" /\ dupok /\ Len(Full) < MaxLine) => Out = Full

\* On exhaustion the renderer stops only when the buffer is used up: a
\* message that does not fit fills ring_msg to at least MaxLine - 1
\* characters.
RenderUsesRoom ==
    (pc = "done" /\ dupok /\ Known) => Len(Out) >= Min({Len(Full), MaxLine - 1})

\* A truncated message is the beginning of the full one: the renderer,
\* once out of room, writes nothing more (spec.md 4.3: "on exhaustion it
\* silently stops").
RenderPrefix == pc = "done" => IsPrefix(Out, Full)

=============================================================================
