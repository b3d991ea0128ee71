------------------------------- MODULE ErrStack -------------------------------
(***************************************************************************)
(* The text of MPIR_Handle_fatal_error: "Fatal error in <fcname>: ", then *)
(* MPIR_Err_get_string's class message and, for an instance code,        *)
(* ErrGetInstanceString's ", error stack:\n" header and                   *)
(* MPIR_Err_print_stack_string, the layout of the error stack into the    *)
(* rest of error_msg[0..N-1]. The stack printer runs                      *)
(* under error_ring_mutex, so it is one sequential process; the stack it  *)
(* prints is the walk ErrRing checks (StackWalk), given here as the       *)
(* lengths of each valid entry's location and message, followed by what   *)
(* the walk stopped at. A byte of the buffer is a symbol: the j-th        *)
(* character of entry k's location <<"l",k,j>> or message <<"m",k,j>>, a  *)
(* character of the fallback line <<"t",0,j>>, or a punctuation byte.     *)
(* snprintf, strlen and the pointer arithmetic are modelled by what they  *)
(* do, and a read or write outside the buffer (or before the message      *)
(* being wrapped) is undefined behaviour: the model stops in pc = "ub".   *)
(***************************************************************************)
EXTENDS Integers, Sequences, SequencesExt, FiniteSetsExt

CONSTANTS
    N,          \* maxlen the caller passes: the size of the buffer
    Stacks,     \* the valid entries of a stack: sequences of [loc, msg] lengths
    Tails,      \* 0: the walk reached MPI_SUCCESS; t > 0: an invalid link,
                \* reported by a fallback line of t characters
    Chops,      \* values of MPIR_CVAR_CHOP_ERROR_STACK after MPIR_Err_stack_init
    Modes,      \* MPIR_CVAR_PRINT_ERROR_STACK: "full" (TRUE) or "compact"
    PrefixLen,  \* strlen of "Fatal error in <fcname>: " in error_msg
    Kinds,      \* the code: "class" (a bare class or dynamic code) or
                \* "stack" (an instance code with a ring entry)
    ClassLens,  \* lengths of the class (or dynamic) message
    HeaderLen   \* strlen(", error stack:\n")

Ch(c) == <<c, 0, 0>>
NUL == Ch("nul")
NL == Ch("nl")
JUNK == Ch("junk")     \* a byte the function never wrote

VARIABLES
    stack, tail, chop,  \* the input, fixed for a behaviour
    mode, kind, clen,
    buf,                \* position 0..N-1 -> byte
    str,                \* str - str_orig
    maxlen,
    sbase,              \* str_orig of MPIR_Err_print_stack_string
    maxloc,             \* max_location_len
    k,                  \* the entry being printed (errcode)
    cur, len,           \* cur_pos - ErrorRing[ring_idx].msg, and len
    pc,
    cut,                \* ghost: some output was dropped for lack of room
    starts              \* ghost: entry -> str when its line began

vars == <<stack, tail, chop, mode, kind, clen, buf, str, maxlen, sbase, maxloc, k, cur, len,
          pc, cut, starts>>
\* The variables the stack printer leaves alone while MPIR_Err_get_string runs.
getVars == <<stack, tail, chop, mode, kind, clen, maxloc, k, cur, len, cut, starts>>

Imin(a, b) == IF a < b THEN a ELSE b
Imax(a, b) == IF a > b THEN a ELSE b

LocText(e) == [j \in 1..stack[e].loc |-> <<"l", e, j>>]
MsgText(e, from) == [j \in 1..stack[e].msg - from |-> <<"m", e, from + j>>]

\* snprintf(p, size, "%s", text) as the bytes it writes: at most size - 1
\* characters and a NUL; nothing for size 0; a negative int size is a huge
\* size_t, so everything is written.
Snprintf(p, size, text) ==
    LET n == IF size < 0 THEN Len(text) ELSE Imin(Len(text), size - 1) IN
    [x \in p..p + n |-> IF x < p + n THEN text[x - p + 1] ELSE NUL]
\* How many characters that snprintf leaves before its NUL (its strlen).
Written(size, text) == IF size < 0 THEN Len(text) ELSE Imin(Len(text), size - 1)
Fill(p, n, c) == [x \in p..p + n - 1 |-> c]

\* Mutation: maxlen is not reduced by what was written.
AdvanceKeepMaxlen(n) == str' = str + n /\ maxlen' = maxlen
\* maxlen -= len; str += len;
Advance(n) == str' = str + n /\ maxlen' = maxlen - n

Chunked(l) == l >= chop - maxloc

InBuf(w) == DOMAIN w \subseteq 0..N - 1
Apply(w) == [x \in 0..N - 1 |-> IF x \in DOMAIN w THEN w[x] ELSE buf[x]]

Fault == pc' = "ub" /\ UNCHANGED <<buf, str, maxlen, sbase>> /\ UNCHANGED getVars

-----------------------------------------------------------------------------

PrefixText == [j \in 1..PrefixLen |-> <<"p", 0, j>>]
ClassText == [j \in 1..clen |-> <<"c", 0, j>>]
HeaderText == [j \in 1..HeaderLen |-> <<"h", 0, j>>]

\* MPIR_Handle_fatal_error: error_msg holds "Fatal error in <fcname>: "
\* (snprintf, strlen) and the rest of the array is uninitialized; it calls
\* MPIR_Err_get_string(errcode, &error_msg[len], MAX_ERRMSG_STRING - len).
\* A bare class or dynamic code has no stack.
Init ==
    /\ chop \in Chops /\ mode \in Modes /\ kind \in Kinds /\ clen \in ClassLens
    /\ \/ kind = "class" /\ stack = <<>> /\ tail = 0
       \/ kind = "stack" /\ stack \in Stacks /\ tail \in Tails
    /\ buf = [x \in 0..N - 1 |-> CASE x < PrefixLen -> PrefixText[x + 1]
                                 [] x = PrefixLen -> NUL
                                 [] OTHER -> JUNK]
    /\ str = PrefixLen /\ maxlen = N - PrefixLen /\ sbase = PrefixLen
    /\ maxloc = 0 /\ k = 1 /\ cur = 0 /\ len = 0
    /\ pc = "get" /\ cut = FALSE /\ starts = <<>>

\* After the class message of an instance code, what ErrGetInstanceString
\* does next: the full stack, the compact fragments, or nothing.
AfterClass == CASE mode = "full" -> "header"
                [] stack = <<>> -> "done"
                [] OTHER -> "compact"

\* msg[num_remaining - 1] = '\0': always for an instance code (757), and
\* for a bare class or dynamic code when MPL_strncpy truncated (748).
ClassTerm(n) == IF kind = "stack" \/ n < clen THEN (N - 1 :> NUL) ELSE <<>>

\* Mutation: msg is not advanced past the class message.
GetStringNoAdvance ==
    LET n == Written(maxlen, ClassText) IN
    /\ pc = "get"
    /\ buf' = Apply(ClassTerm(n) @@ Snprintf(str, maxlen, ClassText))
    /\ cut' = (n < clen)
    /\ IF kind = "class" THEN pc' = "done" /\ UNCHANGED <<str, maxlen, sbase>>
       ELSE /\ UNCHANGED <<str, maxlen>> /\ sbase' = str /\ pc' = AfterClass
    /\ UNCHANGED <<stack, tail, chop, mode, kind, clen, maxloc, k, cur, len, starts>>

\* MPIR_Err_get_string (num_remaining >= 1 here): MPL_strncpy of the
\* class (or dynamic) message, msg[num_remaining - 1] = '\0'; for a bare
\* class or dynamic code that is all. For an instance code, msg += len;
\* num_remaining -= len, then ErrGetInstanceString.
GetString ==
    LET n == Written(maxlen, ClassText) IN
    /\ pc = "get"
    /\ buf' = Apply(ClassTerm(n) @@ Snprintf(str, maxlen, ClassText))
    /\ cut' = (n < clen)
    /\ IF kind = "class" THEN pc' = "done" /\ UNCHANGED <<str, maxlen, sbase>>
       ELSE /\ Advance(n) /\ sbase' = str + n /\ pc' = AfterClass
    /\ UNCHANGED <<stack, tail, chop, mode, kind, clen, maxloc, k, cur, len, starts>>

\* ErrGetInstanceString with MPIR_CVAR_PRINT_ERROR_STACK: MPL_strncpy of
\* ", error stack:\n", msg[num_remaining - 1] = '\0', msg += len;
\* num_remaining -= len; then MPIR_Err_print_stack_string(errorcode, msg,
\* num_remaining).
StackHeader ==
    LET n == Written(maxlen, HeaderText) IN
    /\ pc = "header"
    /\ buf' = Apply(Snprintf(str, maxlen, HeaderText))
    /\ Advance(n) /\ sbase' = str + n
    /\ cut' = (cut \/ n < HeaderLen)
    /\ pc' = "maxloc"
    /\ UNCHANGED <<stack, tail, chop, mode, kind, clen, maxloc, k, cur, len, starts>>

\* Mutation: the first loop stops before the last link.
MaxLocationSkipLast ==
    /\ pc = "maxloc"
    /\ maxloc' = Max({0} \cup {stack[e].loc : e \in 1..Len(stack) - 1}) + 2
    /\ pc' = IF stack = <<>> THEN "tail" ELSE "loc"
    /\ UNCHANGED <<stack, tail, chop, mode, kind, clen, sbase, buf, str, maxlen, k, cur, len, cut, starts>>

\* The first loop: the longest location of the stack, plus 2 for ": ".
MaxLocation ==
    /\ pc = "maxloc"
    /\ maxloc' = Max({0} \cup {stack[e].loc : e \in DOMAIN stack}) + 2
    /\ pc' = IF stack = <<>> THEN "tail" ELSE "loc"
    /\ UNCHANGED <<stack, tail, chop, mode, kind, clen, sbase, buf, str, maxlen, k, cur, len, cut, starts>>

\* Mutation: str is not advanced past the location before the padding.
HeaderPadAtStart(n1, d, sep) ==
    LET w == Fill(str + d, sep, Ch(":")) @@ Fill(str, d, Ch("."))
             @@ Snprintf(str, maxlen, LocText(k))
    IN IF sep = 2 THEN (str + d + 1 :> Ch(" ")) @@ w ELSE w

\* The bytes of the line header: snprintf of the location (n1 characters),
\* d dots, then sep of ':' and ' '.
Header(n1, d, sep) ==
    LET w == Fill(str + n1 + d, sep, Ch(":")) @@ Fill(str + n1, d, Ch("."))
             @@ Snprintf(str, maxlen, LocText(k))
    IN IF sep = 2 THEN (str + n1 + d + 1 :> Ch(" ")) @@ w ELSE w

\* The location, the '.' padding to maxloc - 2, then ':' and ' ' while
\* room remains. strlen(str) with maxlen <= 0 reads past the buffer.
PrintLocation ==
    LET n1 == Written(maxlen, LocText(k))
        m1 == maxlen - n1
        nchrs == maxloc - stack[k].loc - 2
        d == Imin(Imax(nchrs, 0), Imax(m1, 0))
        m2 == m1 - d
        sep == Imin(Imax(m2, 0), 2)
        w2 == Header(n1, d, sep)
    IN
    /\ pc = "loc"
    /\ IF maxlen <= 0 \/ ~InBuf(w2) THEN Fault
       ELSE /\ buf' = Apply(w2)
            /\ Advance(n1 + d + sep)
            /\ cut' = (cut \/ n1 < stack[k].loc \/ d < Imax(nchrs, 0) \/ sep < 2)
            /\ starts' = Append(starts, str)
            /\ pc' = IF chop > 0 THEN "chopstart" ELSE "plain"
            /\ UNCHANGED <<stack, tail, chop, mode, kind, clen, sbase, maxloc, k, cur, len>>

\* MPIR_CVAR_CHOP_ERROR_STACK > 0: start wrapping the message.
ChopStart ==
    LET nl == stack[k].msg = 0 /\ maxlen > 0 IN
    /\ pc = "chopstart"
    /\ cur' = 0 /\ len' = stack[k].msg
    /\ buf' = IF nl THEN [buf EXCEPT ![str] = NL] ELSE buf
    /\ Advance(IF nl THEN 1 ELSE 0)
    /\ pc' = IF stack[k].msg = 0 THEN "next" ELSE "chop"
    /\ UNCHANGED <<stack, tail, chop, mode, kind, clen, sbase, maxloc, k, cut, starts>>

\* snprintf(str, maxlen, "%s\n", text); len = strlen(str); maxlen -= len;
\* str += len: with maxlen <= 0 nothing is written and strlen reads on.
PrintLine(text, to) ==
    LET w == Snprintf(str, maxlen, text)
        n == Written(maxlen, text)
    IN
    IF maxlen <= 0 \/ ~InBuf(w) THEN Fault
    ELSE /\ buf' = Apply(w) /\ Advance(n)
         /\ cut' = (cut \/ n < Len(text)) /\ pc' = to
         /\ UNCHANGED <<stack, tail, chop, mode, kind, clen, sbase, maxloc, k, cur, len, starts>>

\* The indentation after a chunk: maxloc calls snprintf(str, maxlen, " "),
\* each leaving a NUL after its blank, the last one only a NUL when
\* maxlen runs out (m1 = maxloc).
Indent(s1, m1) ==
    (s1 + maxloc - (IF m1 = maxloc THEN 1 ELSE 0) :> NUL) @@ Fill(s1, maxloc, Ch(" "))

\* One iteration of while (len): a full chunk (snprintf of W = chop - 1 -
\* maxloc bytes, '\n' at str[W], cur_pos += W), then the indentation; or
\* the short rest and '\n'. A break leaves the rest unprinted.
ChopLine ==
    LET W == chop - 1 - maxloc
        wc == (str + W :> NL) @@ Snprintf(str, W, MsgText(k, cur))
        m1 == maxlen - (W + 1)
        wp == Indent(str + W + 1, m1) @@ wc
    IN
    /\ pc = "chop"
    /\ IF ~Chunked(len) THEN PrintLine(MsgText(k, cur) \o <<NL>>, "next")
       ELSE IF len > maxlen THEN /\ cut' = TRUE /\ pc' = "next"
            /\ UNCHANGED <<stack, tail, chop, mode, kind, clen, sbase, buf, str, maxlen, maxloc, k, cur, len, starts>>
       ELSE IF ~InBuf(wc) THEN Fault
       ELSE IF m1 < maxloc THEN /\ buf' = Apply(wc) /\ Advance(W + 1) /\ cur' = cur + W
            /\ cut' = TRUE /\ pc' = "next"
            /\ UNCHANGED <<stack, tail, chop, mode, kind, clen, sbase, maxloc, k, len, starts>>
       ELSE IF cur + W < 0 \/ ~InBuf(wp) THEN Fault
       ELSE /\ buf' = Apply(wp) /\ Advance(W + 1 + maxloc)
            /\ cur' = cur + W /\ len' = stack[k].msg - (cur + W)
            /\ pc' = IF stack[k].msg - (cur + W) = 0 THEN "next" ELSE "chop"
            /\ UNCHANGED <<stack, tail, chop, mode, kind, clen, sbase, maxloc, k, cut, starts>>

\* MPIR_CVAR_CHOP_ERROR_STACK == 0: the whole message and '\n'.
PrintPlain == pc = "plain" /\ PrintLine(MsgText(k, 0) \o <<NL>>, "next")

\* errcode = ErrorRing[ring_idx].prev_error: the next link, or the end.
NextLink ==
    /\ pc = "next"
    /\ k' = k + 1
    /\ pc' = IF k < Len(stack) THEN "loc" ELSE "tail"
    /\ UNCHANGED <<stack, tail, chop, mode, kind, clen, sbase, buf, str, maxlen, maxloc, cur, len, cut, starts>>

\* After the loop: MPI_SUCCESS goes to fn_exit; an invalid link gets the
\* "(unknown)(): ..." or invalid-class line.
PrintTail ==
    /\ pc = "tail"
    /\ IF tail = 0
       THEN pc' = "exit" /\ UNCHANGED <<stack, tail, chop, mode, kind, clen, sbase, buf, str, maxlen, maxloc, k, cur, len, cut, starts>>
       ELSE PrintLine([j \in 1..tail |-> <<"t", 0, j>>] \o <<NL>>, "exit")

\* fn_exit: the last byte written (a '\n') becomes the terminator; then
\* ErrGetInstanceString sets msg[num_remaining - 1] = '\0'.
Exit ==
    LET w == (N - 1 :> NUL) @@ (IF str /= sbase THEN (str - 1 :> NUL) ELSE <<>>) IN
    /\ pc = "exit"
    /\ IF ~InBuf(w) THEN Fault
       ELSE buf' = Apply(w) /\ pc' = "done"
            /\ UNCHANGED <<stack, tail, chop, mode, kind, clen, sbase, str, maxlen, maxloc, k, cur, len, cut, starts>>

\* MPIR_CVAR_PRINT_ERROR_STACK false: for each valid link,
\* snprintf(msg, num_remaining, ", %s", msg of the entry) and terminate
\* msg[num_remaining - 1]; msg is not advanced.
CompactLink ==
    LET text == <<Ch(","), Ch(" ")>> \o MsgText(k, 0) IN
    /\ pc = "compact"
    /\ buf' = [Apply(Snprintf(sbase, N - sbase, text)) EXCEPT ![N - 1] = NUL]
    /\ cut' = (cut \/ Written(N - sbase, text) < Len(text))
    /\ k' = k + 1
    /\ pc' = IF k < Len(stack) THEN "compact" ELSE "done"
    /\ UNCHANGED <<stack, tail, chop, mode, kind, clen, sbase, str, maxlen, maxloc, cur, len, starts>>

Next ==
    \/ GetString \/ StackHeader \/ CompactLink \/ MaxLocation \/ PrintLocation \/ ChopStart \/ ChopLine
    \/ PrintPlain \/ NextLink \/ PrintTail \/ Exit

Spec == Init /\ [][Next]_vars

-----------------------------------------------------------------------------
(* Properties                                                              *)

Byte == {NUL, NL, JUNK, Ch("."), Ch(":"), Ch(" "), Ch(",")}
        \cup {<<c, e, j>> : c \in {"l", "m", "t", "p", "c", "h"}, e \in 0..Len(stack), j \in 1..N}

TypeOK ==
    /\ buf \in [0..N - 1 -> Byte]
    /\ mode \in {"full", "compact"} /\ kind \in Kinds /\ clen \in ClassLens
    /\ sbase \in PrefixLen..N /\ sbase <= str
    /\ pc \in {"get", "header", "compact", "maxloc", "loc", "chopstart", "chop", "plain", "next", "tail",
               "exit", "done", "ub"}
    /\ str + maxlen = N
    /\ str \in 0..N /\ k \in 1..Len(stack) + 1
    /\ cut \in BOOLEAN /\ starts \in Seq(0..N)

\* What the caller reads: the bytes before the first NUL.
CString == LET e == Min({x \in 0..N - 1 : buf[x] = NUL}) IN [i \in 1..e |-> buf[i - 1]]
IsText(b) == b[1] \in {"c", "l", "m"}
\* MPIR_Err_get_string prints the class message first; then (spec.md 4.4)
\* the full mode prints each link's location and message, the compact
\* mode the concatenated ", message" fragments.
FullText == ClassText \o
            IF mode = "full"
            THEN FlattenSeq([e \in DOMAIN stack |-> LocText(e) \o MsgText(e, 0)])
            ELSE FlattenSeq([e \in DOMAIN stack |-> MsgText(e, 0)])

\* No snprintf, strlen or pointer step of the function touches memory
\* outside the caller's buffer, or outside the message it is wrapping
\* (spec.md 4.4: a buffer too small only stops the output early).
MemorySafe == pc /= "ub"

\* Every location the function printed is padded with '.' to the longest
\* location of the stack and followed by ": ", so the messages start in
\* one column (spec.md 4.4), whichever entry is the longest and however
\* the messages before it were wrapped. Checked for lines whose prefix
\* lies in the buffer below the terminator ErrGetInstanceString writes.
Aligned ==
    pc = "done" =>
        \A e \in DOMAIN starts :
            starts[e] + maxloc < N - 1 =>
                /\ \A j \in 1..stack[e].loc : buf[starts[e] + j - 1] = <<"l", e, j>>
                /\ \A x \in starts[e] + stack[e].loc..starts[e] + maxloc - 3 : buf[x] = Ch(".")
                /\ buf[starts[e] + maxloc - 2] = Ch(":")
                /\ buf[starts[e] + maxloc - 1] = Ch(" ")

ContentFaithful ==
    (pc = "done" /\ ~cut) => SelectSeq(CString, IsText) = FullText

\* Whatever the stack printer or the compact loop writes after it, the
\* text handed to MPID_Abort still begins with "Fatal error in <fcname>: "
\* and the class message MPIR_Err_get_string put first: nothing later
\* writes before the msg it was given (spec.md 4.5, fatal path).
HeadPreserved ==
    (pc = "done" /\ PrefixLen + clen < N) => IsPrefix(PrefixText \o ClassText, CString)

\* ContentFaithful for the full stack printed without chopping
\* (MPIR_CVAR_PRINT_ERROR_STACK on, MPIR_CVAR_CHOP_ERROR_STACK 0), the
\* default path of MPIR_Err_get_string; the chopped and the compact paths
\* are the ones that lose text.
UnchoppedFaithful == (mode = "full" /\ chop = 0) => ContentFaithful

=============================================================================
