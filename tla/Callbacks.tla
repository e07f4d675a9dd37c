------------------------------ MODULE Callbacks ------------------------------
(***************************************************************************)
(* The callback channel (crates/auxcallback): an unbounded FIFO that worker *)
(* threads and hooks send closures to and that BYOND's main thread drains,  *)
(* either to the end (process_callbacks) or for a number of milliseconds    *)
(* (process_callbacks_for).  A closure calls into BYOND, whose code calls   *)
(* hooks that send more: those join the queue that is being drained.  A     *)
(* closure that fails is reported and gone.                                 *)
(*                                                                          *)
(* Time is the duration of a closure: after any of them the limit may have  *)
(* passed, and with a limit of zero it has after the first.                 *)
(***************************************************************************)
EXTENDS Integers, Sequences

CONSTANTS
    Failing,    \* numbers of the closures that return an error
    MaxSent,    \* bound of the model: closures sent
    MaxNested   \* bound of the model: closures a closure sends

ASSUME CallbacksAssumption ==
    /\ Failing \subseteq Nat
    /\ MaxSent \in Nat
    /\ MaxNested \in Nat

VARIABLES
    sent,       \* closures sent so far; the n-th one is the number n
    queue,      \* the channel
    run,        \* the closures called, in the order of the calls
    errors,     \* what byond_runtime was called with
    drain,      \* "idle", "all" (no limit), "timed"
    expired,    \* timer.elapsed() >= duration in this drain
    result      \* what the last timed drain returned: TRUE is "limit reached"

vars == <<sent, queue, run, errors, drain, expired, result>>

Init ==
    /\ sent = 0
    /\ queue = << >>
    /\ run = << >>
    /\ errors = {}
    /\ drain = "idle"
    /\ expired = FALSE
    /\ result = FALSE

\* The numbers of the next n closures to be sent.
Fresh(n) == [k \in 1..n |-> sent + k]

\* try_send of a hook or of a worker thread, whether a drain is on or not.  The
\* channel has no bound, so it never fails.
Send ==
    /\ sent < MaxSent
    /\ queue' = queue \o Fresh(1)
    /\ sent' = sent + 1
    /\ UNCHANGED <<run, errors, drain, expired, result>>

\* Mutant: the timer is looked at before the first closure, too late for a limit
\* of zero.
BeginSpent(kind) ==
    /\ drain = "idle"
    /\ drain' = kind
    /\ expired' = (kind = "timed")
    /\ UNCHANGED <<sent, queue, run, errors, result>>

\* callback_processing_hook and finish_process_turfs.
BeginDrain(kind) ==
    /\ drain = "idle"
    /\ drain' = kind
    /\ expired' = FALSE
    /\ UNCHANGED <<sent, queue, run, errors, result>>

\* Mutant: the timer is looked at after the closure is taken and before it is
\* called.
CallAfterTimer(n, late) ==
    /\ drain # "idle"
    /\ ~expired
    /\ queue # << >>
    /\ sent + n <= MaxSent
    /\ expired' = (drain = "timed" /\ late)
    /\ IF expired'
         THEN /\ queue' = Tail(queue)
              /\ UNCHANGED <<sent, run, errors>>
         ELSE /\ queue' = Tail(queue) \o Fresh(n)
              /\ sent' = sent + n
              /\ run' = Append(run, Head(queue))
              /\ errors' = IF Head(queue) \in Failing THEN errors \cup {Head(queue)} ELSE errors
    /\ UNCHANGED <<drain, result>>

\* Mutant: the timed drain returns before the error is reported.
CallQuietWhenLate(n, late) ==
    /\ drain # "idle"
    /\ ~expired
    /\ queue # << >>
    /\ sent + n <= MaxSent
    /\ queue' = Tail(queue) \o Fresh(n)
    /\ sent' = sent + n
    /\ run' = Append(run, Head(queue))
    /\ expired' = (drain = "timed" /\ late)
    /\ errors' = IF Head(queue) \in Failing /\ ~expired'
                  THEN errors \cup {Head(queue)} ELSE errors
    /\ UNCHANGED <<drain, result>>

\* One turn of the loop of either drain: take the closure at the head, call it
\* (it sends n closures of its own), report its error, look at the timer.
CallNext(n, late) ==
    /\ drain # "idle"
    /\ ~expired
    /\ queue # << >>
    /\ sent + n <= MaxSent
    /\ queue' = Tail(queue) \o Fresh(n)
    /\ sent' = sent + n
    /\ run' = Append(run, Head(queue))
    /\ errors' = IF Head(queue) \in Failing THEN errors \cup {Head(queue)} ELSE errors
    /\ expired' = (drain = "timed" /\ late)
    /\ UNCHANGED <<drain, result>>

\* try_iter found the channel empty.
EndDrained ==
    /\ drain # "idle"
    /\ ~expired
    /\ queue = << >>
    /\ drain' = "idle"
    /\ result' = FALSE
    /\ UNCHANGED <<sent, queue, run, errors, expired>>

\* process_callbacks_for returns true out of its loop.
EndExpired ==
    /\ drain = "timed"
    /\ expired
    /\ drain' = "idle"
    /\ expired' = FALSE
    /\ result' = TRUE
    /\ UNCHANGED <<sent, queue, run, errors>>

Begin == \E kind \in {"all", "timed"} : BeginDrain(kind)
Call  == \E n \in 0..MaxNested, late \in BOOLEAN : CallNext(n, late)

Next ==
    \/ Send
    \/ Begin
    \/ Call
    \/ EndDrained
    \/ EndExpired

Spec == Init /\ [][Next]_vars

-----------------------------------------------------------------------------
TypeOK ==
    /\ sent \in Nat
    /\ queue \in Seq(Nat)
    /\ run \in Seq(Nat)
    /\ errors \in SUBSET Nat
    /\ drain \in {"idle", "all", "timed"}
    /\ expired \in BOOLEAN
    /\ result \in BOOLEAN

\* Every closure is called exactly once and in the order it was sent, whoever
\* sent it, whatever limit cut a drain short and whichever closures failed:
\* what ran, followed by what waits, is everything that was sent.
InOrderOnce == run \o queue = [k \in 1..sent |-> k]

\* A failing closure is reported when it has run and takes no other with it.
ErrorsReported == errors = {k \in 1..Len(run) : run[k] \in Failing}
=============================================================================
