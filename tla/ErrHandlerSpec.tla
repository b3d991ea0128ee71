---------------------------- MODULE ErrHandlerSpec ----------------------------
(***************************************************************************)
(* What handler resolution and dispatch promise (spec.md 4.1, 4.5, 5):     *)
(* resolveAndDispatch repairs an invalid class, goes to the fatal path    *)
(* before initialization, resolves the effective handler by the fallback  *)
(* table of the scope kind, and aborts when none resolves, when it is     *)
(* Fatal or Abort, or when the code is fatal; otherwise it substitutes    *)
(* the user code and calls the handler. Window, session, group and the    *)
(* direct-handler entries delegate to the communicator path "with no      *)
(* communicator"; that path reads the scope handlers (one lock window     *)
(* each), so it is a resolve step followed by an invoke step.             *)
(* Handlers are changed concurrently by the application.                  *)
(***************************************************************************)
EXTENDS Naturals

CONSTANTS
    Threads,
    Comms, SELF, WORLD,     \* communicators; SELF and WORLD are the fallbacks
    Wins, Sessions, Groups,
    GroupSession,           \* group -> owning session or NoObj
    NoObj,                  \* a NULL object pointer
    NULLH, FATAL, RETURN, THROW, ABORT,
    UserHandlers,           \* user-defined handlers (model values)
    LastClass, ERR_UNKNOWN,
    UserVals, NoUser,
    Codes                   \* the codes the entries are called with

CommObjs == Comms \cup {SELF, WORLD}
Builtins == {FATAL, RETURN, THROW, ABORT}
Handlers == Builtins \cup UserHandlers
Kinds == {"comm", "win", "session", "session_init", "group", "create_from_group"}

\* The objects an entry of each kind is called with (a handler for the two
\* direct-handler entries).
ObjsOf(k) == CASE k = "comm" -> CommObjs \cup {NoObj}
               [] k = "win" -> Wins \cup {NoObj}
               [] k = "session" -> Sessions \cup {NoObj}
               [] k = "group" -> Groups \cup {NoObj}
               [] OTHER -> Handlers \cup {NULLH}

\* A code: its class, fatal and dynamic bits, and the user value its own
\* ring entry carries (NoUser: none, or the entry is not valid).
Code == [cls: 0..LastClass + 1, fatal: BOOLEAN, dyn: BOOLEAN, user: UserVals \cup {NoUser}]
SUCCESS == [cls |-> 0, fatal |-> FALSE, dyn |-> FALSE, user |-> NoUser]
NoResult == [code |-> SUCCESS, outcome |-> "none", handler |-> NULLH, value |-> SUCCESS]

VARIABLES
    errh,         \* scope object -> its handler (NULLH: none)
    sessRef,      \* session -> reference count
    initialized,  \* the subsystem finished initialization
    aborted,      \* the fatal path ran: the process is gone
    result,       \* thread -> outcome of its last dispatch
    stage,        \* thread -> "idle" | "comm" | "invoke"
    pend          \* thread -> the dispatch on the communicator path

avars == <<errh, sessRef, initialized, aborted, result, stage, pend>>

isFatal(c) == ~c.dyn /\ c.fatal
repair(c) == IF c.cls <= LastClass THEN c ELSE [c EXCEPT !.cls = ERR_UNKNOWN]
getUserCode(c) == IF c.user = NoUser THEN c ELSE c.user

FatalPath(t, k, o, c) ==
    /\ aborted' = TRUE
    /\ result' = [result EXCEPT ![t] = [code |-> c,
                     outcome |-> "abort", handler |-> NULLH, value |-> c]]
    /\ stage' = [stage EXCEPT ![t] = "idle"]

\* Steps 4-5 for a resolved handler h.
Invoke(t, k, o, c, h) ==
    IF h \in {NULLH, FATAL, ABORT} \/ isFatal(c) THEN FatalPath(t, k, o, c)
    ELSE /\ result' = [result EXCEPT ![t] = [code |-> c,
                          outcome |-> "return", handler |-> h,
                          value |-> IF h \in {RETURN, THROW} THEN getUserCode(c)
                                    ELSE SUCCESS]]
         /\ stage' = [stage EXCEPT ![t] = "idle"]
         /\ UNCHANGED aborted

\* The communicator row: own handler, then self's, then world's. When none
\* is set the communicator itself (if any) stays the governing object, and
\* the invoke step finds no handler on it: the sequential outcome is the
\* table's "none".
CommResolve(t, k, o, comm, c) ==
    LET own == comm /= NoObj /\ errh[comm] /= NULLH
        first == IF own THEN comm
                 ELSE IF errh[SELF] /= NULLH THEN SELF
                 ELSE IF errh[WORLD] /= NULLH THEN WORLD ELSE comm
    IN
    IF first = NoObj \/ isFatal(c) THEN FatalPath(t, k, o, c) /\ UNCHANGED pend
    ELSE /\ stage' = [stage EXCEPT ![t] = "invoke"]
         /\ pend' = [pend EXCEPT ![t] = [kind |-> k, obj |-> o, code |-> c, gov |-> first]]
         /\ UNCHANGED <<aborted, result>>

Delegate(t, k, o, c) ==
    /\ stage' = [stage EXCEPT ![t] = "comm"]
    /\ pend' = [pend EXCEPT ![t] = [kind |-> k, obj |-> o, code |-> c, gov |-> NoObj]]
    /\ UNCHANGED <<aborted, result>>

\* The session row: own handler unless released, else the communicator path.
SessionRow(t, k, o, s, c) ==
    IF s = NoObj \/ sessRef[s] <= 0 \/ errh[s] = NULLH THEN Delegate(t, k, o, c)
    ELSE Invoke(t, k, o, c, errh[s]) /\ UNCHANGED pend

\* resolveAndDispatch(kind, o, code) from an idle thread.
Dispatch(t, k, o, code) ==
    LET c == repair(code) IN
    /\ stage[t] = "idle"
    /\ ~aborted
    /\ o \in ObjsOf(k)
    /\ IF ~initialized THEN FatalPath(t, k, o, c) /\ UNCHANGED pend
       ELSE CASE k = "comm" -> CommResolve(t, k, o, o, c)
              [] k = "win" ->
                    IF o /= NoObj /\ errh[o] /= NULLH THEN Invoke(t, k, o, c, errh[o]) /\ UNCHANGED pend
                    ELSE Delegate(t, k, o, c)
              [] k = "session" -> SessionRow(t, k, o, o, c)
              [] k = "group" ->
                    IF o = NoObj \/ GroupSession[o] = NoObj THEN Delegate(t, k, o, c)
                    ELSE SessionRow(t, k, o, GroupSession[o], c)
              [] k \in {"session_init", "create_from_group"} ->
                    IF o = NULLH THEN Delegate(t, k, o, c)
                    ELSE Invoke(t, k, o, c, o) /\ UNCHANGED pend
    /\ UNCHANGED <<errh, sessRef, initialized>>

\* The communicator path of a delegated dispatch, with no communicator.
DelegatedResolve(t) ==
    /\ stage[t] = "comm" /\ ~aborted
    /\ CommResolve(t, pend[t].kind, pend[t].obj, NoObj, repair(pend[t].code))
    /\ UNCHANGED <<errh, sessRef, initialized>>

\* The handler of the governing communicator, read again.
CommInvoke(t) ==
    LET p == pend[t] IN
    /\ stage[t] = "invoke" /\ ~aborted
    /\ Invoke(t, p.kind, p.obj, p.code, errh[p.gov])
    /\ UNCHANGED <<errh, sessRef, initialized, pend>>

\* The application's own steps.
SetErrhandler(o, h) ==
    /\ ~aborted /\ initialized
    /\ errh' = [errh EXCEPT ![o] = h]
    /\ UNCHANGED <<sessRef, initialized, aborted, result, stage, pend>>
ReleaseSession(s) ==
    /\ ~aborted /\ sessRef[s] > 0
    /\ sessRef' = [sessRef EXCEPT ![s] = 0]
    /\ UNCHANGED <<errh, initialized, aborted, result, stage, pend>>
Initialize ==
    /\ ~initialized
    /\ initialized' = TRUE
    /\ UNCHANGED <<errh, sessRef, aborted, result, stage, pend>>

AInit ==
    /\ errh = [o \in CommObjs \cup Wins \cup Sessions |-> NULLH]
    /\ sessRef = [s \in Sessions |-> 1]
    /\ initialized \in BOOLEAN
    /\ aborted = FALSE
    /\ result = [t \in Threads |-> NoResult]
    /\ stage = [t \in Threads |-> "idle"]
    /\ pend = [t \in Threads |-> [kind |-> "none", obj |-> NoObj, code |-> SUCCESS, gov |-> NoObj]]

ANext ==
    \/ \E t \in Threads : DelegatedResolve(t) \/ CommInvoke(t)
    \/ \E o \in CommObjs \cup Wins \cup Sessions, h \in Handlers : SetErrhandler(o, h)
    \/ \E s \in Sessions : ReleaseSession(s)
    \/ Initialize
    \/ \E t \in Threads, k \in Kinds :
          \E o \in ObjsOf(k), c \in Codes : Dispatch(t, k, o, c)

ASpec == AInit /\ [][ANext]_avars

================================================================================
