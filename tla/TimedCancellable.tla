-------------------------- MODULE TimedCancellable --------------------------
(***************************************************************************)
(* One call of a function under the wrappers of contexts (timedCancellable,*)
(* timed, cancellable; the locks have a copy of the first), which give it  *)
(* a signal and a timer, with the Timer and the PromiseCancellable they    *)
(* are made of.  QUICConnection.start, createQUICClient and every call of  *)
(* a lock are such calls.                                                  *)
(*                                                                         *)
(* The caller may hand down a signal, a timer, both or none.  A timer the  *)
(* caller hands down is one of its own, with an asynchronous handler.      *)
(*                                                                         *)
(* The proofs extend this module beside Semaphore, so its specification    *)
(* has names of its own.                                                   *)
(***************************************************************************)
EXTENDS Naturals

VARIABLES
    wrapper,        \* which of the three
    lazy,           \* do not reject before the function has ended
    given,          \* what the caller hands down
    upSignal,       \* the caller's signal is aborted
    timer,          \* ctx.timer: the call's own or the caller's Timer
    phase,          \* "before" the call, "running", "ended": torn down
    target,         \* the promise of the wrapped function
    aborted,        \* the abortController of the call: "no" or the reason
    p,              \* the PromiseCancellable of the call
    listening,      \* signalHandler is registered with the caller's signal
    noticed         \* the then of an inherited timer has run

parameters == <<wrapper, lazy, given>>
ctxVars == <<parameters, upSignal, timer, phase, target, aborted, p, listening, noticed>>

Reasons == {"timeout", "upstream", "cancel"}

Timers == [status : {"null", "settling", "settled"},
           armed : {"no", "timeout", "interval"},   \* timeoutRef
           p : {"pending", "resolved", "rejected"},
           lazy : BOOLEAN,
           cancelled : BOOLEAN,                     \* its own signal
           handling : BOOLEAN]                      \* fulfill awaits the handler

\* new Timer(handler, delay, lazy): an infinite delay is an interval.
NewTimer(delay, isLazy) ==
    [status |-> "null", armed |-> delay, p |-> "pending", lazy |-> isLazy,
     cancelled |-> FALSE, handling |-> FALSE]

CtxInit ==
    /\ wrapper \in {"timedCancellable", "timed", "cancellable"}
    /\ lazy \in BOOLEAN
    /\ given \in SUBSET {"signal", "timer"}
    /\ wrapper = "cancellable" => "timer" \notin given
    /\ upSignal \in BOOLEAN
    /\ upSignal => "signal" \in given
    /\ timer \in {NewTimer(d, l) : d \in {"timeout", "interval"}, l \in BOOLEAN}
    /\ "timer" \notin given => ~ timer.lazy
    /\ phase = "before"
    /\ target = "none"
    /\ aborted = "no"
    /\ p = "pending"
    /\ listening = FALSE
    /\ noticed = FALSE

\* The four cases.
Owns == "timer" \notin given /\ wrapper # "cancellable"
Inherits == "timer" \in given /\ "signal" \notin given

\* timed hands a signal that comes with a timer on as it is.
Direct == wrapper = "timed" /\ given = {"signal", "timer"}
Follows == "signal" \in given /\ ~ Direct

\* The timer exists: the caller's from the start, the call's own from the call.
Exists == wrapper # "cancellable" /\ ("timer" \in given \/ phase # "before")

Eager == wrapper # "timed" /\ ~ lazy

-----------------------------------------------------------------------------
(***************************************************************************)
(* Timer.                                                                  *)
(***************************************************************************)

\* A plausible bug: a cancelled timer keeps its timeout.
CancelledArmed(t) ==
    IF t.status = "settled" \/ (t.lazy /\ t.status = "settling") \/ t.cancelled
    THEN [t EXCEPT !.cancelled = TRUE]
    ELSE [t EXCEPT !.cancelled = TRUE, !.status = "settled", !.p = "rejected"]

\* cancel: the signal of the timer fires once, and reject does nothing to a
\* lazy timer whose handler runs.
Cancelled(t) ==
    IF t.status = "settled" \/ (t.lazy /\ t.status = "settling") \/ t.cancelled
    THEN [t EXCEPT !.cancelled = TRUE]
    ELSE [t EXCEPT !.cancelled = TRUE, !.status = "settled", !.armed = "no",
                   !.p = "rejected"]

\* fulfill up to the await of the handler, and after it.
Fired(t) == [t EXCEPT !.status = "settling", !.armed = "no", !.handling = TRUE]
Handled(t, result) ==
    [t EXCEPT !.status = "settled", !.handling = FALSE,
              !.p = IF @ = "pending" THEN result ELSE @]

-----------------------------------------------------------------------------

\* A plausible bug: an abort rejects a lazy call at once too.
SignalLazy(reason, t) ==
    /\ aborted' = IF aborted = "no" THEN reason ELSE aborted
    /\ p' = IF aborted = "no" /\ p = "pending" THEN reason ELSE p
    /\ timer' = IF aborted = "no" /\ Owns /\ given = {} THEN Cancelled(t) ELSE t

\* abortController.abort(reason) and its listeners; t is what the timer has
\* become.  Only the case that inherits nothing listens to cancel the timer.
Signal(reason, t) ==
    /\ aborted' = IF aborted = "no" THEN reason ELSE aborted
    /\ p' = IF aborted = "no" /\ Eager /\ p = "pending" THEN reason ELSE p
    /\ timer' = IF aborted = "no" /\ Owns /\ given = {} THEN Cancelled(t) ELSE t

\* A plausible bug: a listener is set on a signal that was aborted before.
SetupUnchecked ==
    /\ phase = "before"
    /\ phase' = "running"
    /\ target' = "running"
    /\ listening' = Follows
    /\ UNCHANGED <<parameters, upSignal, timer, aborted, p, noticed>>

\* The wrapped function is called.  A signal that was aborted before aborts the
\* call at once, and no listener is left with it.
Setup ==
    /\ phase = "before"
    /\ phase' = "running"
    /\ target' = "running"
    /\ aborted' = IF upSignal THEN "upstream" ELSE "no"
    /\ p' = IF upSignal /\ Eager THEN "upstream" ELSE "pending"
    /\ timer' = IF upSignal /\ Owns THEN Cancelled(timer) ELSE timer
    /\ listening' = (Follows /\ ~ upSignal)
    /\ UNCHANGED <<parameters, upSignal, noticed>>

\* signalHandler: the timer that the call owns is cancelled first.
Heard(t) ==
    IF listening \/ (Direct /\ phase # "before")
    THEN Signal("upstream", IF Owns THEN Cancelled(t) ELSE t)
    ELSE timer' = t /\ UNCHANGED <<aborted, p>>

\* The caller aborts its signal.
AbortUpstream ==
    /\ "signal" \in given
    /\ ~ upSignal
    /\ upSignal' = TRUE
    /\ Heard(timer)
    /\ UNCHANGED <<parameters, phase, target, listening, noticed>>

\* cancel() of the promise that the call returned.
Cancel ==
    /\ wrapper # "timed"
    /\ phase # "before"
    /\ Signal("cancel", timer)
    /\ UNCHANGED <<parameters, upSignal, phase, target, listening, noticed>>

\* The timeout: the call's own timer aborts the call, a caller's timer that
\* comes with a signal aborts that signal, as is assumed of it.
Fire ==
    /\ Exists
    /\ timer.armed = "timeout"
    /\ \/ /\ Owns
          /\ Signal("timeout", Fired(timer))
          /\ UNCHANGED upSignal
       \/ /\ ~ Owns
          /\ upSignal' = ("signal" \in given)
          /\ IF upSignal' /\ ~ upSignal
             THEN Heard(Fired(timer))
             ELSE timer' = Fired(timer) /\ UNCHANGED <<aborted, p>>
    /\ UNCHANGED <<parameters, phase, target, listening, noticed>>

\* fulfill goes on; only the handler of a caller's timer can throw.
Handle ==
    /\ timer.handling
    /\ \E result \in {"resolved"} \cup (IF Owns THEN {} ELSE {"rejected"}) :
          timer' = Handled(timer, result)
    /\ UNCHANGED <<parameters, upSignal, phase, target, aborted, p, listening, noticed>>

\* cancel() of the timer, by the caller or by the wrapped function.
CancelTimer ==
    /\ Exists
    /\ timer' = Cancelled(timer)
    /\ UNCHANGED <<parameters, upSignal, phase, target, aborted, p, listening, noticed>>

\* reset(delay) and refresh(), which throw once the timer settles.
Reset ==
    /\ Exists
    /\ timer.status = "null"
    /\ \E delay \in {"timeout", "interval"} :
          timer' = [timer EXCEPT !.armed = delay]
    /\ UNCHANGED <<parameters, upSignal, phase, target, aborted, p, listening, noticed>>

\* The then of a timer that was handed down alone, once it has resolved.
Notice ==
    /\ Inherits
    /\ phase # "before"
    /\ ~ noticed
    /\ timer.p = "resolved"
    /\ noticed' = TRUE
    /\ \/ phase = "running" /\ Signal("timeout", timer)
       \/ phase = "ended" /\ UNCHANGED <<aborted, p, timer>>
    /\ UNCHANGED <<parameters, upSignal, phase, target, listening>>

\* The wrapped function returns or throws.
Finish ==
    /\ target = "running"
    /\ target' \in {"returned", "threw"}
    /\ UNCHANGED <<parameters, upSignal, timer, phase, aborted, p, listening, noticed>>

\* Its promise settles that of the call, unless an abort was faster.
Settle ==
    /\ target \in {"returned", "threw"}
    /\ p = "pending"
    /\ p' = target
    /\ UNCHANGED <<parameters, upSignal, timer, phase, target, aborted, listening, noticed>>

\* A plausible bug: the listener stays with the caller's signal.
TeardownDeaf ==
    /\ phase = "running"
    /\ p # "pending"
    /\ phase' = "ended"
    /\ timer' = IF Owns THEN Cancelled(timer) ELSE timer
    /\ UNCHANGED <<parameters, upSignal, target, aborted, p, listening, noticed>>

\* teardownContext, in the finally of the call's promise.
Teardown ==
    /\ phase = "running"
    /\ p # "pending"
    /\ phase' = "ended"
    /\ timer' = IF Owns THEN Cancelled(timer) ELSE timer
    /\ listening' = FALSE
    /\ UNCHANGED <<parameters, upSignal, target, aborted, p, noticed>>

CtxNext ==
    \/ Setup \/ AbortUpstream \/ Cancel \/ Fire \/ Handle \/ CancelTimer \/ Reset
    \/ Notice \/ Finish \/ Settle \/ Teardown

CtxSpec == CtxInit /\ [][CtxNext]_ctxVars

(***************************************************************************)
(* Settled promises resume what awaits them, and a function that was       *)
(* promised the time to end by itself does so when its signal is aborted.  *)
(***************************************************************************)
CtxFairSpec ==
    /\ CtxSpec
    /\ WF_ctxVars(Handle) /\ WF_ctxVars(Notice) /\ WF_ctxVars(Settle) /\ WF_ctxVars(Teardown)
    /\ WF_ctxVars(~ Eager /\ aborted # "no" /\ Finish)

-----------------------------------------------------------------------------

CtxTypeOK ==
    /\ wrapper \in {"timedCancellable", "timed", "cancellable"}
    /\ lazy \in BOOLEAN
    /\ given \in SUBSET {"signal", "timer"}
    /\ upSignal \in BOOLEAN
    /\ timer \in Timers
    /\ phase \in {"before", "running", "ended"}
    /\ target \in {"none", "running", "returned", "threw"}
    /\ aborted \in {"no"} \cup Reasons
    /\ p \in {"pending", "returned", "threw"} \cup Reasons
    /\ listening \in BOOLEAN
    /\ noticed \in BOOLEAN

(***************************************************************************)
(* A Timer holds its timeout, which keeps the process alive, exactly until *)
(* it settles.  Property C: the one a call owns has settled when the call  *)
(* has ended, and nothing of the call is left with the caller's signal.    *)
(* Property B: once the signal is aborted the call's own timer holds no    *)
(* timeout either; but when a signal is inherited, a call that is          *)
(* cancelled keeps it until it ends.                                       *)
(***************************************************************************)
NothingLeft ==
    /\ timer.armed # "no" <=> timer.status = "null"
    /\ timer.status = "settled" => timer.p # "pending"
    /\ phase = "ended" => ~ listening /\ (Owns => timer.status = "settled")
    /\ (/\ Owns /\ aborted # "no"
        /\ ~ (given = {"signal"} /\ aborted = "cancel")) => timer.armed = "no"

(***************************************************************************)
(* A call ends with what its function returned or threw; only an eager one *)
(* with a reason instead, that of the abort the function was told of.      *)
(***************************************************************************)
ResultOfTarget ==
    /\ p \in {"returned", "threw"} => p = target
    /\ p \in Reasons => Eager /\ p = aborted

(***************************************************************************)
(* After its end only the holder of its promise can abort the signal of a  *)
(* call: neither its timer nor the caller's signal or timer reaches it.    *)
(***************************************************************************)
QuietAfterEnd ==
    [][(phase = "ended" /\ aborted = "no" /\ ~ Direct) =>
           aborted' \in {"no", "cancel"}]_ctxVars

(***************************************************************************)
(* A timeout, a cancellation or an abort by the caller ends the call.      *)
(***************************************************************************)
AbortEnds ==
    (/\ phase = "running"
     /\ \/ aborted # "no"
        \/ upSignal
        \/ Exists /\ timer.p = "resolved") ~> phase = "ended"
=============================================================================
