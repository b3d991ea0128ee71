------------------------------- MODULE ErrRing -------------------------------
(***************************************************************************)
(* The instance-specific error-message ring of src/mpi/errhan/errutil.c:  *)
(* MPIR_Err_create_code_valist appends an entry under error_ring_mutex    *)
(* and returns a code that names the slot; MPIR_Err_combine_codes appends *)
(* one chain to the tail of another; checkForUserErrcode and the stack    *)
(* printers walk prev_error links, trusting a slot only when its stored   *)
(* id equals the id bits of the code that points at it.                   *)
(*                                                                         *)
(* An error code is a record of its bit fields (mpir_errcodes.h packs     *)
(* them into disjoint bit ranges, so record equality is integer equality).*)
(* The text of a message is abstracted to its checksum residue `seq`, the *)
(* only part of it the ring compares; the ghost field `uid` of an entry    *)
(* names the create call whose text and location the slot holds.          *)
(***************************************************************************)
EXTENDS Naturals, Sequences, SequencesExt, FiniteSets

CONSTANTS
    Threads,        \* application threads sharing the runtime
    NoThread,       \* owner of a free error_ring_mutex
    RingSize,       \* MAX_ERROR_RING = ERROR_SPECIFIC_INDEX_SIZE
    SeqSize,        \* ERROR_SPECIFIC_SEQ_SIZE: range of the checksum
    LastClass,      \* MPICH_ERR_LAST_MPIX: classes 0..LastClass are valid
    ERR_OTHER,      \* MPI_ERR_OTHER
    ERR_IN_STATUS,  \* MPI_ERR_IN_STATUS
    NumGeneric,     \* generic_msgs_len
    UserGeneric,    \* index of "**user" in generic_err_msgs
    UserCodes,      \* values an application passes with "**user" (model values)
    NoUser,         \* ghost: "no user code"
    ClassInputs,    \* error_class arguments of create calls
    GenericInputs,  \* FindGenericMsgIndex results (-1: not found)
    SeqInputs,      \* checksum residues of the rendered specific text
    FatalInputs,    \* values of the `fatal` argument
    MaxCreates,     \* bound on create calls
    MaxCombines,    \* bound on combine calls
    WithCombine     \* whether the application calls MPIR_Err_combine_codes

ASSUME /\ RingSize \in Nat \ {0} /\ SeqSize \in Nat \ {0}
       /\ {ERR_OTHER, ERR_IN_STATUS} \subseteq 1..LastClass
       /\ ClassInputs \subseteq 1..LastClass
       /\ UserGeneric \in 0..NumGeneric-1
       /\ GenericInputs \subseteq -1..NumGeneric-1
       /\ SeqInputs \subseteq 0..SeqSize-1
       /\ NoUser \notin UserCodes /\ 0 \notin UserCodes

VARIABLES
    ErrorRing,          \* slot -> entry (MPIR_Err_msg_t plus ghost uid)
    error_ring_loc,     \* next slot to write
    max_error_ring_loc, \* high-water mark of error_ring_loc
    error_ring_mutex,   \* owner of the ring mutex
    pc,                 \* thread -> "idle" | "enter" | "fill"
    args,               \* thread -> the create call in progress
    issued,             \* codes returned to the application, with their uid
    hist,               \* ghost: uid -> [cause, user, lastFatal]
    nCreates,           \* ghost: create calls started (= last uid)
    nCombines           \* ghost: combine calls made

vars == <<ErrorRing, error_ring_loc, max_error_ring_loc, error_ring_mutex,
          pc, args, issued, hist, nCreates, nCombines>>

Slots == 0..RingSize-1
Uids == 0..MaxCreates            \* 0: no entry (a bare class code)

-----------------------------------------------------------------------------
(* Error codes and ring ids                                                *)

Code == [cls: 0..LastClass, gen: 0..NumGeneric, idx: Slots,
         seq: 0..SeqSize-1, fatal: BOOLEAN, dyn: BOOLEAN]
SUCCESS == [cls |-> 0, gen |-> 0, idx |-> 0, seq |-> 0,
            fatal |-> FALSE, dyn |-> FALSE]
\* A code that is its class and nothing else (MPI_ERR_IN_STATUS).
BareClass(c) == [SUCCESS EXCEPT !.cls = c]
RingId == [cls: 0..LastClass, gen: 0..NumGeneric, seq: 0..SeqSize-1]

Entry == [id: RingId, prev: Code, use_user_error_code: BOOLEAN,
          user_error_code: UserCodes \cup {0}, uid: Uids]
\* The static array and memset() leave every field zero.
ZeroEntry == [id |-> [cls |-> 0, gen |-> 0, seq |-> 0], prev |-> SUCCESS,
              use_user_error_code |-> FALSE, user_error_code |-> 0, uid |-> 0]

\* is_valid_error_class applied to a whole code: true of bare classes only.
IsValidErrorClass(c) == c = BareClass(c.cls)

MPIR_Err_is_fatal(c) == ~c.dyn /\ c.fatal

\* The ring id of a new entry; the text's checksum is already `seq`.
ErrcodeCreateID(cls, generic_idx, seq) ==
    [cls |-> cls, gen |-> generic_idx + 1, seq |-> seq]

\* The slot, the expected id and the generic index a code names; ok is
\* false when the slot lies beyond the high-water mark.
ConvertErrcodeToIndexes(c) ==
    [ring_idx |-> c.idx,
     ring_id |-> [cls |-> c.cls, gen |-> c.gen, seq |-> c.seq],
     generic_idx |-> c.gen - 1,
     ok |-> c.idx <= max_error_ring_loc]

\* Mutation: the range check admits only slots below the high-water mark.
CheckErrcodeIsValidOffByOne(c) ==
    LET x == ConvertErrcodeToIndexes(c) IN
    IF IsValidErrorClass(c) THEN 0
    ELSE IF x.ring_idx >= max_error_ring_loc THEN 1
    ELSE IF ErrorRing[x.ring_idx].id /= x.ring_id THEN 2
    ELSE 0

\* 0 when the code may be used as a lastcode; 1, 2: why it may not.
CheckErrcodeIsValid(c) ==
    LET x == ConvertErrcodeToIndexes(c) IN
    IF IsValidErrorClass(c) THEN 0
    ELSE IF ~x.ok THEN 1
    ELSE IF ErrorRing[x.ring_idx].id /= x.ring_id THEN 2
    ELSE 0

\* The test every walker applies before it trusts the slot a code names.
LinkValid(c) ==
    LET x == ConvertErrcodeToIndexes(c) IN
    /\ x.ok
    /\ x.generic_idx >= 0
    /\ ErrorRing[x.ring_idx].id = x.ring_id

\* checkForUserErrcode: the user's value when the code's own entry has one.
CheckForUserErrcode(c) ==
    IF c /= SUCCESS /\ LinkValid(c) /\ ErrorRing[c.idx].use_user_error_code
    THEN ErrorRing[c.idx].user_error_code
    ELSE c

\* The entries the stack printers visit, in order (MPIR_Err_print_stack_string,
\* ErrGetInstanceString); n bounds the walk, the code's loop has no bound.
RECURSIVE StackWalk(_, _)
StackWalk(c, n) ==
    IF c = SUCCESS \/ n = 0 \/ ~LinkValid(c) THEN <<>>
    ELSE <<ErrorRing[c.idx].uid>> \o StackWalk(ErrorRing[c.idx].prev, n - 1)

\* The walk from c reaches SUCCESS or an invalid link within n links: the
\* two loops of MPIR_Err_print_stack_string. The printing loop does not stop
\* at a slot beyond max_error_ring_loc, but such a slot is still zero, so its
\* id test fails there instead.
RECURSIVE StackStops(_, _)
StackStops(c, n) ==
    \/ c = SUCCESS
    \/ ~LinkValid(c)
    \/ n > 0 /\ StackStops(ErrorRing[c.idx].prev, n - 1)

-----------------------------------------------------------------------------
(* MPIR_Err_create_code_valist                                             *)

\* Everything before error_ring_mutex_lock(): the unlocked validity check of
\* lastcode, the MPI_ERR_OTHER pass-through, the MPI_ERR_IN_STATUS early
\* return and the "**user" lookup. The chosen lastcode p is a code the
\* application holds; uid is the ghost identity of this call.
CreateCodeBegin(t, p, error_class, generic_idx, seq, fatal, ucode) ==
    LET uid == nCreates + 1
        lastcode == IF p.code /= SUCCESS /\ CheckErrcodeIsValid(p.code) /= 0
                    THEN SUCCESS ELSE p.code
        cls == IF error_class = ERR_OTHER
               THEN IF lastcode.cls > 0 THEN lastcode.cls ELSE ERR_OTHER
               ELSE error_class
        user == IF generic_idx = UserGeneric THEN ucode ELSE NoUser
    IN
    /\ pc[t] = "idle"
    /\ nCreates < MaxCreates
    /\ nCreates' = uid
    /\ hist' = [hist EXCEPT ![uid] =
                   [cause |-> p.uid,
                    user |-> user,
                    lastFatal |-> MPIR_Err_is_fatal(p.code)]]
    /\ IF cls = ERR_IN_STATUS
       THEN /\ issued' = issued \cup {[code |-> BareClass(ERR_IN_STATUS), uid |-> 0]}
            /\ UNCHANGED <<pc, args>>
       ELSE /\ pc' = [pc EXCEPT ![t] = "enter"]
            /\ args' = [args EXCEPT ![t] =
                   [lastcode |-> lastcode, cls |-> cls, generic_idx |-> generic_idx,
                    seq |-> seq, fatal |-> fatal, user |-> user, uid |-> uid,
                    idx |-> 0]]
            /\ UNCHANGED issued
    /\ UNCHANGED <<ErrorRing, error_ring_loc, max_error_ring_loc,
                   error_ring_mutex, nCombines>>

\* Mutation: the cursor is advanced without the wrap to slot 0.
CreateCodeTakeSlotNoWrap(t) ==
    /\ pc[t] = "enter"
    /\ error_ring_mutex = NoThread
    /\ error_ring_mutex' = t
    /\ error_ring_loc' = error_ring_loc + 1
    /\ max_error_ring_loc' = IF error_ring_loc + 1 > max_error_ring_loc
                             THEN error_ring_loc + 1 ELSE max_error_ring_loc
    /\ ErrorRing' = [ErrorRing EXCEPT ![error_ring_loc] = ZeroEntry]
    /\ args' = [args EXCEPT ![t].idx = error_ring_loc]
    /\ pc' = [pc EXCEPT ![t] = "fill"]
    /\ UNCHANGED <<issued, hist, nCreates, nCombines>>

\* Take the mutex and the next slot, advance the cursor and the high-water
\* mark, and memset() the slot.
CreateCodeTakeSlot(t) ==
    LET ring_idx == error_ring_loc
        loc == (error_ring_loc + 1) % RingSize
    IN
    /\ pc[t] = "enter"
    /\ error_ring_mutex = NoThread
    /\ error_ring_mutex' = t
    /\ error_ring_loc' = loc
    /\ max_error_ring_loc' = IF loc > max_error_ring_loc THEN loc
                             ELSE max_error_ring_loc
    /\ ErrorRing' = [ErrorRing EXCEPT ![ring_idx] = ZeroEntry]
    /\ args' = [args EXCEPT ![t].idx = ring_idx]
    /\ pc' = [pc EXCEPT ![t] = "fill"]
    /\ UNCHANGED <<issued, hist, nCreates, nCombines>>

\* Mutation: the user code of lastcode's entry is not carried forward.
CreateCodeFillNoCarry(t) ==
    LET a == args[t]
        entry == [id |-> ErrcodeCreateID(a.cls, a.generic_idx, a.seq),
                  prev |-> a.lastcode,
                  use_user_error_code |-> a.user /= NoUser,
                  user_error_code |-> IF a.user /= NoUser THEN a.user ELSE 0,
                  uid |-> a.uid]
        err_code == [cls |-> a.cls, gen |-> a.generic_idx + 1, idx |-> a.idx,
                     seq |-> a.seq,
                     fatal |-> a.fatal \/ MPIR_Err_is_fatal(a.lastcode), dyn |-> FALSE]
    IN
    /\ pc[t] = "fill"
    /\ ErrorRing' = [ErrorRing EXCEPT ![a.idx] = entry]
    /\ error_ring_mutex' = NoThread
    /\ issued' = issued \cup {[code |-> err_code, uid |-> a.uid]}
    /\ pc' = [pc EXCEPT ![t] = "idle"]
    /\ UNCHANGED <<error_ring_loc, max_error_ring_loc, args, hist,
                   nCreates, nCombines>>

\* Fill the slot (id, prev_error, the user code or the one carried from
\* lastcode's entry), unlock, and pack the returned code.
CreateCodeFill(t) ==
    LET a == args[t]
        last == a.lastcode
        carried == /\ last /= SUCCESS
                   /\ LinkValid(last)
                   /\ ErrorRing[last.idx].use_user_error_code
        entry == [id |-> ErrcodeCreateID(a.cls, a.generic_idx, a.seq),
                  prev |-> last,
                  use_user_error_code |-> a.user /= NoUser \/ carried,
                  user_error_code |->
                      IF a.user /= NoUser THEN a.user
                      ELSE IF carried THEN ErrorRing[last.idx].user_error_code
                      ELSE 0,
                  uid |-> a.uid]
        err_code == [cls |-> a.cls, gen |-> a.generic_idx + 1, idx |-> a.idx,
                     seq |-> a.seq,
                     fatal |-> a.fatal \/ MPIR_Err_is_fatal(last), dyn |-> FALSE]
    IN
    /\ pc[t] = "fill"
    /\ ErrorRing' = [ErrorRing EXCEPT ![a.idx] = entry]
    /\ error_ring_mutex' = NoThread
    /\ issued' = issued \cup {[code |-> err_code, uid |-> a.uid]}
    /\ pc' = [pc EXCEPT ![t] = "idle"]
    /\ UNCHANGED <<error_ring_loc, max_error_ring_loc, args, hist,
                   nCreates, nCombines>>

-----------------------------------------------------------------------------
(* MPIR_Err_combine_codes and CombineSpecificCodes                         *)

\* Mutation: error2 is linked after error1's first entry, not its last.
CombineWalkHeadOnly(ring, error_code, error2, error2_class, n) ==
    LET x == ConvertErrcodeToIndexes(error_code) IN
    IF n = 0 \/ ~x.ok \/ x.generic_idx < 0 \/ ring[x.ring_idx].id /= x.ring_id
    THEN ring
    ELSE [ring EXCEPT ![x.ring_idx].prev = error2]

\* The prev_error rewrites of CombineSpecificCodes's walk from error1: every
\* link whose target has class MPI_ERR_OTHER gets error2_class, and the link
\* that reaches MPI_SUCCESS gets error2. Returns the new ring.
RECURSIVE CombineWalk(_, _, _, _, _)
CombineWalk(ring, error_code, error2, error2_class, n) ==
    LET x == ConvertErrcodeToIndexes(error_code)
        i == x.ring_idx
        prev == ring[i].prev
    IN
    IF n = 0 \/ ~x.ok \/ x.generic_idx < 0 \/ ring[i].id /= x.ring_id THEN ring
    ELSE IF prev = SUCCESS THEN [ring EXCEPT ![i].prev = error2]
    ELSE CombineWalk(IF prev.cls = ERR_OTHER
                     THEN [ring EXCEPT ![i].prev.cls = error2_class]
                     ELSE ring,
                     prev, error2, error2_class, n - 1)

\* The ghost intent of a combine: error2's chain follows error1's chain.
RECURSIVE GhostRoot(_, _)
GhostRoot(u, n) ==
    IF n = 0 \/ hist[u].cause = 0 THEN u ELSE GhostRoot(hist[u].cause, n - 1)

\* The application combines two independently built chains: no call of the
\* history of one is in the history of the other.
Independent(p1, p2) ==
    LET Hist(u) == LET RECURSIVE H(_, _)
                       H(v, n) == IF v = 0 \/ n = 0 THEN {} ELSE {v} \cup H(hist[v].cause, n - 1)
                   IN  H(u, MaxCreates)
    IN  Hist(p1.uid) \cap Hist(p2.uid) = {}

\* One call, atomic under error_ring_mutex (the part before the lock is a
\* pure function of the two codes).
CombineCodes(t, p1, p2) ==
    LET error1 == p1.code
        error2 == p2.code
        error2_class == IF error2.cls > LastClass THEN ERR_OTHER ELSE error2.cls
        trivial == error1 = SUCCESS \/ error2 = SUCCESS \/ error1.dyn \/ error2.dyn
        result == IF error1 = SUCCESS THEN p2
                  ELSE IF error2 = SUCCESS \/ error1.dyn THEN p1
                  ELSE IF error2.dyn THEN p2
                  ELSE IF error1.cls = ERR_OTHER
                       THEN [p1 EXCEPT !.code.cls = error2_class]
                       ELSE p1
    IN
    /\ WithCombine
    /\ Independent(p1, p2)
    /\ pc[t] = "idle"
    /\ error_ring_mutex = NoThread
    /\ nCombines < MaxCombines
    /\ nCombines' = nCombines + 1
    /\ ErrorRing' = IF trivial THEN ErrorRing
                    ELSE CombineWalk(ErrorRing, error1, error2, error2_class,
                                     RingSize)
    /\ hist' = IF trivial \/ p1.uid = 0 THEN hist
               ELSE [hist EXCEPT ![GhostRoot(p1.uid, MaxCreates)].cause = p2.uid]
    /\ issued' = issued \cup {result}
    /\ UNCHANGED <<error_ring_loc, max_error_ring_loc, error_ring_mutex,
                   pc, args, nCreates>>

-----------------------------------------------------------------------------

Held == issued \cup {[code |-> SUCCESS, uid |-> 0]}

Init ==
    /\ ErrorRing = [i \in Slots |-> ZeroEntry]
    /\ error_ring_loc = 0
    /\ max_error_ring_loc = 0
    /\ error_ring_mutex = NoThread
    /\ pc = [t \in Threads |-> "idle"]
    /\ args = [t \in Threads |-> [lastcode |-> SUCCESS, cls |-> 0,
                                  generic_idx |-> -1, seq |-> 0, fatal |-> FALSE,
                                  user |-> NoUser, uid |-> 0, idx |-> 0]]
    /\ issued = {}
    /\ hist = [u \in 1..MaxCreates |->
                  [cause |-> 0, user |-> NoUser, lastFatal |-> FALSE]]
    /\ nCreates = 0
    /\ nCombines = 0

Next ==
    \/ \E t \in Threads, p \in Held, cls \in ClassInputs, g \in GenericInputs,
          s \in SeqInputs, f \in FatalInputs, u \in UserCodes :
          CreateCodeBegin(t, p, cls, g, s, f, u)
    \/ \E t \in Threads : CreateCodeTakeSlot(t)
    \/ \E t \in Threads : CreateCodeFill(t)
    \/ \E t \in Threads, p1, p2 \in issued : CombineCodes(t, p1, p2)

Spec == Init /\ [][Next]_vars

-----------------------------------------------------------------------------
(* Properties                                                              *)

TypeOK ==
    /\ ErrorRing \in [Slots -> Entry]
    /\ error_ring_loc \in Slots
    /\ max_error_ring_loc \in Slots
    /\ error_ring_mutex \in Threads \cup {NoThread}
    /\ pc \in [Threads -> {"idle", "enter", "fill"}]
    /\ issued \subseteq [code: Code, uid: Uids]
    /\ nCreates \in 0..MaxCreates /\ nCombines \in 0..MaxCombines

\* The slot of the entry a uid names still holds that entry.
Live(u) == \E i \in Slots : ErrorRing[i].uid = u

\* The causal history the calls intended: uid, its cause, and so on.
RECURSIVE GhostChain(_, _)
GhostChain(u, n) ==
    IF u = 0 \/ n = 0 THEN <<>> ELSE <<u>> \o GhostChain(hist[u].cause, n - 1)

\* Every entry of u's intended history is still in the ring, and that
\* history ends (it has fewer entries than the ring has slots).
HistoryLive(u) ==
    LET h == GhostChain(u, RingSize + 1)
    IN  Len(h) <= RingSize /\ \A k \in 1..Len(h) : Live(h[k])

\* The nearest "**user" value along u's history.
RECURSIVE GhostUser(_, _)
GhostUser(u, n) ==
    IF u = 0 \/ n = 0 THEN NoUser
    ELSE IF hist[u].user /= NoUser THEN hist[u].user
    ELSE GhostUser(hist[u].cause, n - 1)

\* Whenever no thread is inside the ring mutex, the error stack printed for
\* any code the application holds lists exactly the entries of its causal
\* history, most recent first, provided none of them has been overwritten:
\* prev_error links, the id check and the range check of the walkers agree
\* with what MPIR_Err_create_code_valist (and combine) meant to link.
LiveChainFaithful ==
    error_ring_mutex = NoThread =>
        \A p \in issued :
            p.uid /= 0 /\ HistoryLive(p.uid)
                => StackWalk(p.code, RingSize + 1) = GhostChain(p.uid, RingSize + 1)

\* Two codes the application received name the same slot with the same id:
\* the slot of the older one was reused by a call whose class, generic
\* message and text checksum coincide, and the id check cannot tell them
\* apart (the staleness test is a heuristic, see ErrcodeCreateID).
Aliased ==
    \E p, q \in issued :
        /\ p.uid /= q.uid /\ p.uid /= 0 /\ q.uid /= 0
        /\ p.code.idx = q.code.idx
        /\ ConvertErrcodeToIndexes(p.code).ring_id = ConvertErrcodeToIndexes(q.code).ring_id

\* The weaker guarantee once MPIR_Err_combine_codes is in play: as long as no
\* slot has been reused under an identical id, the printed stack never shows
\* an entry that is not in the code's causal history, nor one out of order;
\* it may stop early.
LiveChainPrefix ==
    error_ring_mutex = NoThread /\ ~Aliased =>
        \A p \in issued :
            p.uid /= 0 /\ HistoryLive(p.uid)
                => IsPrefix(StackWalk(p.code, RingSize + 1),
                            GhostChain(p.uid, RingSize + 1))

\* checkForUserErrcode, applied by every MPIR_Err_return_* before the
\* handler runs, yields the value of the most recent "**user" call in the
\* code's history (carried forward by MPIR_Err_create_code_valist from
\* lastcode's entry), or the code itself when there is none.
UserCodeFaithful ==
    error_ring_mutex = NoThread =>
        \A p \in issued :
            p.uid /= 0 /\ HistoryLive(p.uid)
                => CheckForUserErrcode(p.code) =
                       IF GhostUser(p.uid, RingSize + 1) = NoUser THEN p.code
                       ELSE GhostUser(p.uid, RingSize + 1)

\* Every walk of prev_error links (the stack printers, CombineSpecificCodes)
\* ends: from every code the application holds it reaches MPI_SUCCESS or an
\* invalid link. The walks run with error_ring_mutex held and have no bound.
ChainsTerminate ==
    error_ring_mutex = NoThread =>
        \A p \in issued : StackStops(p.code, RingSize + 1)

\* As long as no slot has been reused under an identical id, every walk of
\* prev_error links ends, combines included: id aliasing is the only way to
\* a cycle.
ChainsTerminateUnlessAliased == ~Aliased => ChainsTerminate

\* A code created with a fatal lastcode is fatal (the
\* `fatal || MPIR_Err_is_fatal(lastcode)` of MPIR_Err_create_code_valist).
FatalPropagates ==
    \A p \in issued : p.uid /= 0 /\ hist[p.uid].lastFatal => p.code.fatal

=============================================================================
