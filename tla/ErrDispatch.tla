------------------------------ MODULE ErrDispatch ------------------------------
(***************************************************************************)
(* The MPIR_Err_return_* entry points of src/mpi/errhan/errutil.c and      *)
(* MPIR_call_errhandler. Application threads report errors on            *)
(* communicators, windows, sessions and groups, or during MPI_Session_init *)
(* and MPI_Comm_create_from_group with a handler of their own, while the  *)
(* application changes handlers, releases sessions and finishes           *)
(* initialization. MPIR_Err_return_comm reads a communicator's handler    *)
(* under comm_ptr->mutex, falls back to MPI_COMM_SELF's and then to       *)
(* MPI_COMM_WORLD's handler read without a lock, and then locks the       *)
(* chosen communicator again, reads its handler and calls it before       *)
(* unlocking. A code is a record of the bits dispatch looks at; `user` is *)
(* the **user value checkForUserErrcode finds in the code's own ring      *)
(* entry (ErrRing checks that it is the right one).                       *)
(***************************************************************************)
EXTENDS Naturals

CONSTANTS
    Threads, NoThread,
    Comms, SELF, WORLD, Wins, Sessions, Groups,
    GroupSession,           \* group -> group_ptr->session_ptr (NoObj: none)
    NoObj,                  \* a NULL object pointer
    NULLH, FATAL, RETURN, THROW, ABORT,
    UserHandlers,
    LastClass, ERR_UNKNOWN,
    UserVals, NoUser,
    Entries,                \* the entry points the application reaches
    CodeInputs,             \* error codes passed to them
    SetHandlers,            \* handlers the application installs
    MaxCalls,               \* bound on dispatches
    MaxSets                 \* bound on handler changes

CommObjs == Comms \cup {SELF, WORLD}
Handlers == {FATAL, RETURN, THROW, ABORT} \cup UserHandlers
Scopes == CommObjs \cup Wins \cup Sessions

SUCCESS == [cls |-> 0, fatal |-> FALSE, dyn |-> FALSE, user |-> NoUser]
NoResult == [code |-> SUCCESS, outcome |-> "none", handler |-> NULLH, value |-> SUCCESS]

VARIABLES
    errh,         \* object -> ->errhandler (NULLH: NULL)
    sessRef,      \* session -> MPIR_Object_get_ref
    initialized,  \* MPIR_Errutil_is_initialized()
    aborted,      \* MPID_Abort was called
    result,       \* thread -> what its last dispatch did
    pc,           \* thread -> "idle" | "rc" | "rc_call" | "handler"
    req,          \* thread -> [kind, obj, code, gov] of the dispatch in progress
    owner,        \* communicator -> thread holding comm_ptr->mutex
    nCalls,       \* dispatches started (bounded by MaxCalls)
    nSets         \* handler changes made (bounded by MaxSets)

vars == <<errh, sessRef, initialized, aborted, result, pc, req, owner, nCalls, nSets>>

-----------------------------------------------------------------------------

\* Mutation: the class is not checked (the code's own class is kept).
CheckValidErrcodeKeepClass(c) == c

\* checkValidErrcode: a class beyond MPICH_ERR_LAST_MPIX becomes MPI_ERR_UNKNOWN.
CheckValidErrcode(c) == IF c.cls > LastClass THEN [c EXCEPT !.cls = ERR_UNKNOWN] ELSE c

MPIR_Err_is_fatal(c) == ~c.dyn /\ c.fatal

CheckForUserErrcode(c) == IF c /= SUCCESS /\ c.user /= NoUser THEN c.user ELSE c

\* MPIR_Handle_fatal_error: render the stack and call MPID_Abort (never returns).
MPIR_Handle_fatal_error(t, k, o, c) ==
    /\ aborted' = TRUE
    /\ result' = [result EXCEPT ![t] = [code |-> c,
                     outcome |-> "abort", handler |-> NULLH, value |-> c]]
    /\ pc' = [pc EXCEPT ![t] = "idle"]
    /\ UNCHANGED <<req, owner>>

\* MPIR_call_errhandler after checkForUserErrcode: RETURN and THROW give the
\* (substituted) code back; a user handler is called and MPI_SUCCESS returned.
MPIR_call_errhandler(t, k, o, c, h) ==
    LET v == CheckForUserErrcode(c) IN
    /\ result' = [result EXCEPT ![t] = [code |-> c,
                     outcome |-> "return", handler |-> h,
                     value |-> IF h \in {RETURN, THROW} THEN v ELSE SUCCESS]]
    /\ pc' = [pc EXCEPT ![t] = IF h \in {RETURN, THROW} THEN "idle" ELSE "handler"]
    /\ UNCHANGED <<aborted, req>>

\* return MPIR_Err_return_comm(NULL, fcname, errcode)
FallBackToComm(t, k, o, c) ==
    /\ pc' = [pc EXCEPT ![t] = "rc"]
    /\ req' = [req EXCEPT ![t] = [kind |-> k, obj |-> o, code |-> c, gov |-> NoObj]]
    /\ UNCHANGED <<aborted, result, owner>>

-----------------------------------------------------------------------------
(* MPIR_Err_return_comm                                                    *)

\* Mutation: the fallback to MPI_COMM_SELF's handler is left out.
ReturnCommResolveNoSelf(t, k, o, comm, errcode) ==
    LET c == CheckValidErrcode(errcode)
        eh == IF comm = NoObj THEN NULLH ELSE errh[comm]
        comm_ptr == IF eh /= NULLH THEN comm
                    ELSE IF errh[WORLD] /= NULLH THEN WORLD ELSE comm
    IN
    IF ~initialized THEN MPIR_Handle_fatal_error(t, k, o, c)
    ELSE /\ comm /= NoObj => owner[comm] = NoThread
         /\ IF MPIR_Err_is_fatal(c) \/ comm_ptr = NoObj
            THEN MPIR_Handle_fatal_error(t, k, o, c)
            ELSE /\ pc' = [pc EXCEPT ![t] = "rc_call"]
                 /\ req' = [req EXCEPT ![t] = [kind |-> k, obj |-> o, code |-> c, gov |-> comm_ptr]]
                 /\ UNCHANGED <<aborted, result, owner>>

\* Up to the second MPID_THREAD_CS_ENTER: the initialization check, the
\* locked read of comm's handler, the unlocked fallback to self and world,
\* and the fatal check. k and o name the entry the dispatch came from.
ReturnCommResolve(t, k, o, comm, errcode) ==
    LET c == CheckValidErrcode(errcode)
        eh == IF comm = NoObj THEN NULLH ELSE errh[comm]
        comm_ptr == IF eh /= NULLH THEN comm
                    ELSE IF errh[SELF] /= NULLH THEN SELF
                    ELSE IF errh[WORLD] /= NULLH THEN WORLD ELSE comm
    IN
    IF ~initialized THEN MPIR_Handle_fatal_error(t, k, o, c)
    ELSE /\ comm /= NoObj => owner[comm] = NoThread
         /\ IF MPIR_Err_is_fatal(c) \/ comm_ptr = NoObj
            THEN MPIR_Handle_fatal_error(t, k, o, c)
            ELSE /\ pc' = [pc EXCEPT ![t] = "rc_call"]
                 /\ req' = [req EXCEPT ![t] = [kind |-> k, obj |-> o, code |-> c, gov |-> comm_ptr]]
                 /\ UNCHANGED <<aborted, result, owner>>

\* Lock comm_ptr, read its handler again, abort on NULL/FATAL/ABORT, else
\* substitute the user code and call the handler with the lock held.
ReturnCommCall(t) ==
    LET r == req[t]
        h == errh[r.gov]
    IN
    /\ pc[t] = "rc_call" /\ ~aborted
    /\ owner[r.gov] = NoThread
    /\ IF h \in {NULLH, FATAL, ABORT}
       THEN MPIR_Handle_fatal_error(t, r.kind, r.obj, r.code)
       ELSE /\ MPIR_call_errhandler(t, r.kind, r.obj, r.code, h)
            /\ owner' = IF h \in {RETURN, THROW} THEN owner
                        ELSE [owner EXCEPT ![r.gov] = t]
    /\ UNCHANGED <<errh, sessRef, initialized, nCalls, nSets>>

\* Mutation: the user handler returns and comm_ptr->mutex stays locked.
HandlerReturnKeepLock(t) ==
    /\ pc[t] = "handler" /\ ~aborted
    /\ pc' = [pc EXCEPT ![t] = "idle"]
    /\ UNCHANGED <<errh, sessRef, initialized, aborted, result, req, owner, nCalls, nSets>>

\* The user handler returns; MPID_THREAD_CS_EXIT if the thread holds a lock.
HandlerReturn(t) ==
    /\ pc[t] = "handler" /\ ~aborted
    /\ pc' = [pc EXCEPT ![t] = "idle"]
    /\ owner' = [o \in CommObjs |-> IF owner[o] = t THEN NoThread ELSE owner[o]]
    /\ UNCHANGED <<errh, sessRef, initialized, aborted, result, req, nCalls, nSets>>

-----------------------------------------------------------------------------
(* The other entry points: one step each, no lock taken                    *)

\* Mutation: the window's handler is used without testing the fatal bit.
ReturnWinNoFatalCheck(t, w, errcode) ==
    LET c == CheckValidErrcode(errcode) IN
    IF w = NoObj \/ errh[w] = NULLH THEN FallBackToComm(t, "win", w, errcode)
    ELSE IF errh[w] \in {FATAL, ABORT}
         THEN MPIR_Handle_fatal_error(t, "win", w, c)
         ELSE MPIR_call_errhandler(t, "win", w, c, errh[w]) /\ UNCHANGED owner

ReturnWin(t, w, errcode) ==
    LET c == CheckValidErrcode(errcode) IN
    IF w = NoObj \/ errh[w] = NULLH THEN FallBackToComm(t, "win", w, errcode)
    ELSE IF MPIR_Err_is_fatal(c) \/ errh[w] \in {FATAL, ABORT}
         THEN MPIR_Handle_fatal_error(t, "win", w, c)
         ELSE MPIR_call_errhandler(t, "win", w, c, errh[w]) /\ UNCHANGED owner

ReturnSession(t, k, o, s, errcode) ==
    LET c == CheckValidErrcode(errcode) IN
    IF ~initialized THEN MPIR_Handle_fatal_error(t, k, o, c)
    ELSE IF s = NoObj \/ sessRef[s] <= 0 \/ errh[s] = NULLH
         THEN FallBackToComm(t, k, o, c)
    ELSE IF MPIR_Err_is_fatal(c) \/ errh[s] \in {FATAL, ABORT}
         THEN MPIR_Handle_fatal_error(t, k, o, c)
    ELSE MPIR_call_errhandler(t, k, o, c, errh[s]) /\ UNCHANGED owner

ReturnGroup(t, g, errcode) ==
    IF g = NoObj \/ GroupSession[g] = NoObj THEN FallBackToComm(t, "group", g, errcode)
    ELSE ReturnSession(t, "group", g, GroupSession[g], errcode)

\* RETURN and THROW handlers return the code before any other test.
ReturnSessionInit(t, h, errcode) ==
    LET c == CheckValidErrcode(errcode) IN
    IF h \in {RETURN, THROW}
    THEN /\ result' = [result EXCEPT ![t] = [
                          code |-> c, outcome |-> "return", handler |-> h, value |-> c]]
         /\ UNCHANGED <<pc, aborted, req, owner>>
    ELSE IF ~initialized THEN MPIR_Handle_fatal_error(t, "session_init", h, c)
    ELSE IF h = NULLH THEN FallBackToComm(t, "session_init", h, c)
    ELSE IF MPIR_Err_is_fatal(c) \/ h \in {FATAL, ABORT}
         THEN MPIR_Handle_fatal_error(t, "session_init", h, c)
    ELSE MPIR_call_errhandler(t, "session_init", h, c, h) /\ UNCHANGED owner

\* MPIR_call_errhandler is skipped for RETURN and THROW, which return the
\* substituted code just as it would.
ReturnCommCreateFromGroup(t, h, errcode) ==
    LET c == CheckValidErrcode(errcode) IN
    IF ~initialized THEN MPIR_Handle_fatal_error(t, "create_from_group", h, c)
    ELSE IF h = NULLH THEN FallBackToComm(t, "create_from_group", h, c)
    ELSE IF MPIR_Err_is_fatal(c) \/ h \in {FATAL, ABORT}
         THEN MPIR_Handle_fatal_error(t, "create_from_group", h, c)
    ELSE MPIR_call_errhandler(t, "create_from_group", h, c, h) /\ UNCHANGED owner

-----------------------------------------------------------------------------
(* The application                                                         *)

\* Only MPI_Session_init and the failures of initialization itself
\* (MPIR_Err_return_comm with no communicator) report errors before the
\* process is initialized: every other entry needs an object that exists.
Reachable(k, o) == initialized \/ k = "session_init" \/ (k = "comm" /\ o = NoObj)

\* An MPI routine fails and reports errcode through entry k on o.
Report(t, k, o, errcode) ==
    /\ pc[t] = "idle" /\ ~aborted
    /\ nCalls < MaxCalls /\ k \in Entries /\ Reachable(k, o)
    /\ nCalls' = nCalls + 1
    /\ CASE k = "comm" -> ReturnCommResolve(t, k, o, o, errcode)
          [] k = "win" -> ReturnWin(t, o, errcode)
          [] k = "session" -> ReturnSession(t, k, o, o, errcode)
          [] k = "group" -> ReturnGroup(t, o, errcode)
          [] k = "session_init" -> ReturnSessionInit(t, o, errcode)
          [] k = "create_from_group" -> ReturnCommCreateFromGroup(t, o, errcode)
    /\ UNCHANGED <<errh, sessRef, initialized, nSets>>

\* A fallback continues in MPIR_Err_return_comm(NULL, ...).
ReturnCommNull(t) ==
    /\ pc[t] = "rc" /\ ~aborted
    /\ ReturnCommResolve(t, req[t].kind, req[t].obj, NoObj, req[t].code)
    /\ UNCHANGED <<errh, sessRef, initialized, nCalls, nSets>>

\* MPI_*_set_errhandler; for a communicator it takes comm_ptr->mutex.
SetErrhandler(o, h) ==
    /\ ~aborted /\ initialized
    /\ nSets < MaxSets
    /\ o \in CommObjs => owner[o] = NoThread
    /\ errh' = [errh EXCEPT ![o] = h]
    /\ nSets' = nSets + 1
    /\ UNCHANGED <<sessRef, initialized, aborted, result, pc, req, owner, nCalls>>

\* MPI_Session_finalize drops the last reference of a session.
ReleaseSession(s) ==
    /\ ~aborted /\ sessRef[s] > 0
    /\ sessRef' = [sessRef EXCEPT ![s] = 0]
    /\ UNCHANGED <<errh, initialized, aborted, result, pc, req, owner, nCalls, nSets>>

\* MPI_Init or MPI_Session_init completes (mpich_state leaves UNINITIALIZED).
Initialize ==
    /\ ~initialized /\ ~aborted
    /\ initialized' = TRUE
    /\ UNCHANGED <<errh, sessRef, aborted, result, pc, req, owner, nCalls, nSets>>

\* Object kinds and what an entry of each kind is called with.
ObjsOf(k) == CASE k = "comm" -> CommObjs \cup {NoObj}
               [] k = "win" -> Wins \cup {NoObj}
               [] k = "session" -> Sessions \cup {NoObj}
               [] k = "group" -> Groups \cup {NoObj}
               [] OTHER -> Handlers \cup {NULLH}

Init ==
    /\ errh = [o \in Scopes |-> NULLH]
    /\ sessRef = [s \in Sessions |-> 1]
    /\ initialized = FALSE
    /\ aborted = FALSE
    /\ result = [t \in Threads |-> NoResult]
    /\ pc = [t \in Threads |-> "idle"]
    /\ req = [t \in Threads |-> [kind |-> "none", obj |-> NoObj, code |-> SUCCESS, gov |-> NoObj]]
    /\ owner = [o \in CommObjs |-> NoThread]
    /\ nCalls = 0
    /\ nSets = 0

\* The steps of a dispatch already under way.
Continue(t) == ReturnCommNull(t) \/ ReturnCommCall(t) \/ HandlerReturn(t)

Next ==
    \/ \E t \in Threads, k \in Entries : \E o \in ObjsOf(k), c \in CodeInputs : Report(t, k, o, c)
    \/ \E t \in Threads : Continue(t)
    \/ \E o \in Scopes, h \in SetHandlers : SetErrhandler(o, h)
    \/ \E s \in Sessions : ReleaseSession(s)
    \/ Initialize

\* Threads are preemptively scheduled: a thread that can continue its
\* dispatch eventually does, and a user handler eventually returns.
Fairness == \A t \in Threads : WF_vars(Continue(t))

Spec == Init /\ [][Next]_vars /\ Fairness

-----------------------------------------------------------------------------
(* Properties                                                              *)

Code == [cls: 0..LastClass + 1, fatal: BOOLEAN, dyn: BOOLEAN, user: UserVals \cup {NoUser}]

\* Types; codes handed back to the caller, or to MPID_Abort, carry a valid
\* class (checkValidErrcode runs on every path before the code is used).
TypeOK ==
    /\ errh \in [Scopes -> Handlers \cup {NULLH}]
    /\ sessRef \in [Sessions -> 0..1]
    /\ pc \in [Threads -> {"idle", "rc", "rc_call", "handler"}]
    /\ owner \in [CommObjs -> Threads \cup {NoThread}]
    /\ nCalls \in 0..MaxCalls /\ nSets \in 0..MaxSets
    /\ \A t \in Threads :
          result[t].outcome /= "none" =>
              /\ result[t].code \in Code /\ result[t].code.cls <= LastClass
              /\ result[t].value \in UserVals \/ result[t].value.cls <= LastClass

\* A dispatch returns to its caller only once the process is initialized
\* and only for a code that is not fatal: the fatal bit, set by
\* MPIR_Err_create_code or carried from a fatal cause, always ends in
\* MPID_Abort, whichever entry point and fallback the error takes.
FatalNeverReturns ==
    \A t \in Threads :
        result[t].outcome = "return" => initialized /\ ~MPIR_Err_is_fatal(result[t].code)

\* No user handler runs while its thread holds a communicator's mutex
\* (spec.md 5: the scope lock is released before the handler is invoked,
\* so a handler may reenter the runtime on the same object).
HandlerOutsideLocks ==
    \A t \in Threads : pc[t] = "handler" => \A o \in CommObjs : owner[o] /= t

\* Every dispatch a thread starts ends: it returns to the caller or the
\* process aborts. Threads wait only on comm_ptr->mutex, which a thread
\* in a user handler holds until the handler returns.
DispatchCompletes ==
    \A t \in Threads : pc[t] /= "idle" ~> (pc[t] = "idle" \/ aborted)

\* The entry points implement the per-kind resolution table of spec.md 4.5:
\* a fallback is the abstract delegation to the communicator path, the first
\* lock window of MPIR_Err_return_comm its resolve step, the second its
\* invoke step.
Abstract == INSTANCE ErrHandlerSpec WITH
    Codes <- CodeInputs,
    stage <- [t \in Threads |-> CASE pc[t] = "rc" -> "comm"
                                  [] pc[t] = "rc_call" -> "invoke"
                                  [] OTHER -> "idle"],
    pend <- [t \in Threads |-> [req[t] EXCEPT !.code = CheckValidErrcode(req[t].code)]]

ImplementsErrHandlerSpec == Abstract!ASpec

=============================================================================
