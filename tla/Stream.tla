--------------------------------- MODULE Stream ---------------------------------
(****************************************************************************)
(* A streaming payment of koinon-escrow.  What has been streamed is not a   *)
(* counter: it is computed from the clock, start_time and the rate, and     *)
(* resume moves start_time so that the time spent paused is not paid for.   *)
(* The clock callers pass in does not run backwards.  A rate of zero, for   *)
(* which resume divides by zero, is left out.                               *)
(****************************************************************************)
EXTENDS Naturals

CONSTANTS Totals,       \* amounts streams are created with
          Rates,        \* rates per second
          NoTime,       \* pause_time = None
          MaxTime       \* bound: the clock

ASSUME StreamAssumption ==
    /\ Totals \subseteq Nat /\ Rates \subseteq Nat \ {0}
    /\ MaxTime \in Nat /\ NoTime \notin Nat

VARIABLES stream, now,
          earning       \* ghost: the seconds the stream was active

StreamState == {"Active", "Paused", "Stopped", "Completed"}

StreamingPayment == [total_amount : Totals, rate : Rates, streamed_amount : Nat,
                     state : StreamState, start_time : Nat,
                     pause_time : Nat \cup {NoTime}]

Min2(a, b) == IF a <= b THEN a ELSE b

SaturatingSub(a, b) == IF a >= b THEN a - b ELSE 0

StreamInit ==
    \E total \in Totals, rate \in Rates, t \in 0..1 :
        /\ stream = [total_amount |-> total, rate |-> rate, streamed_amount |-> 0,
                     state |-> "Active", start_time |-> t, pause_time |-> NoTime]
        /\ now = t
        /\ earning = 0

--------------------------------------------------------------------------------
Accrued(t) == Min2(SaturatingSub(t, stream.start_time) * stream.rate, stream.total_amount)

StreamedSoFar(t) ==
    CASE stream.state = "Active" -> Accrued(t)
      [] stream.state = "Paused" /\ stream.pause_time # NoTime -> Accrued(stream.pause_time)
      [] OTHER -> stream.streamed_amount

UpdateStreamed ==
    /\ stream.state = "Active"
    /\ stream' = [stream EXCEPT !.streamed_amount = StreamedSoFar(now)]
    /\ UNCHANGED <<now, earning>>

CanComplete == stream.state = "Active" /\ StreamedSoFar(now) >= stream.total_amount

TryComplete ==
    /\ CanComplete
    /\ stream' = [stream EXCEPT !.streamed_amount = stream.total_amount, !.state = "Completed"]
    /\ UNCHANGED <<now, earning>>

\* The amount streamed until the pause is not captured
Pause_Mut ==
    /\ stream.state = "Active"
    /\ stream' = [stream EXCEPT !.state = "Paused", !.pause_time = now]
    /\ UNCHANGED <<now, earning>>

Pause ==
    /\ stream.state = "Active"
    /\ stream' = [stream EXCEPT !.streamed_amount = StreamedSoFar(now),
                                !.state = "Paused", !.pause_time = now]
    /\ UNCHANGED <<now, earning>>

\* The time paused is paid for
ResumedStart_Mut == stream.start_time

ResumedStart == SaturatingSub(now, stream.streamed_amount \div stream.rate)

Resume ==
    /\ stream.state = "Paused"
    /\ stream' = [stream EXCEPT !.start_time = ResumedStart,
                                !.pause_time = NoTime, !.state = "Active"]
    /\ UNCHANGED <<now, earning>>

\* A completed stream can be stopped
CanStop_Mut == stream.state # "Stopped"

CanStop == stream.state \in {"Active", "Paused"}

Stop ==
    /\ CanStop
    /\ stream' = [stream EXCEPT !.state = "Stopped"]
    /\ UNCHANGED <<now, earning>>

Tick ==
    /\ now < MaxTime
    /\ now' = now + 1
    /\ earning' = IF stream.state = "Active" THEN earning + 1 ELSE earning
    /\ UNCHANGED stream

StreamNext == UpdateStreamed \/ TryComplete \/ Pause \/ Resume \/ Stop

--------------------------------------------------------------------------------
\* The stream is well formed.
StreamTypeOK ==
    /\ stream \in StreamingPayment
    /\ (stream.pause_time # NoTime) => stream.pause_time <= now
    /\ stream.start_time <= now

Due == Min2(earning * stream.rate, stream.total_amount)

\* However often a stream is paused and resumed, it never pays more than its
\* rate times the seconds it was active, nor more than its total, in what it
\* reports (streamed_so_far) and in what it has captured (conservation_check).
NeverOverpays ==
    /\ StreamedSoFar(now) <= Due
    /\ stream.streamed_amount <= Due

\* The stream is well formed and within what it has earned after every call.
StreamSound == StreamTypeOK /\ NeverOverpays

\* Where the rate divides the total, pausing and resuming loses nothing: until
\* it is stopped a stream reports exactly what is due.
NothingLost ==
    (stream.total_amount % stream.rate = 0 /\ stream.state # "Stopped")
        => StreamedSoFar(now) = Due

\* Stopped and Completed are final, with the amount captured by then.
EndedIsFinal == stream.state \in {"Stopped", "Completed"} => stream' = stream
================================================================================
