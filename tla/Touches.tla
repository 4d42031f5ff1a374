------------------------------- MODULE Touches -------------------------------
(***************************************************************************)
(* How a client of the broker keeps its lease from looking idle            *)
(* (gpubroker/lease.py): ActivityTouch, pinged by the handlers of          *)
(* requests, and TouchWhileActive, started when a stream opens and stopped *)
(* when it closes.  Both call touch over ssh, which takes time and may     *)
(* fail.  Time passes in ticks, and nobody's turn takes one.               *)
(***************************************************************************)
EXTENDS Naturals

CONSTANTS
    Handlers,    \* threads that ping when a request begins
    NoHandler,
    Interval,    \* touch_interval_seconds
    CallTime,    \* the longest a touch takes
    IdleTimeout, \* the watchdog's
    MaxStreams,  \* bound: how many streams are opened
    MaxFaults    \* bound: how many touches fail

ASSUME TouchesAssumption ==
    /\ NoHandler \notin Handlers
    /\ Interval \in Nat \ {0} /\ CallTime \in Nat
    /\ IdleTimeout \in Nat /\ MaxStreams \in Nat /\ MaxFaults \in Nat

VARIABLES
    last,      \* ActivityTouch._last: whose claim it is, or nobody's, and its age
    call,      \* call[h]: the touch that handler h has under way
    thread,    \* TouchWhileActive._run: where its thread is
    waited,    \* how long it has waited, or how long its touch takes already
    stop,      \* the event _stop
    open,      \* a stream is open
    open_age,  \* and for how long
    streams, faults,
    idle_age,  \* what idle_age_seconds will find in the broker's row
    good_age,  \* history: the age of the youngest claim whose touch succeeded
    hurried    \* history: a stream was opened before the thread of an earlier
               \* one had ended

activity == <<last, call, good_age>>
timer    == <<thread, waited, stop>>
stream   == <<open, open_age, streams, hurried>>
vars     == <<activity, timer, stream, faults, idle_age>>

Period == Interval + CallTime
Latest == (MaxFaults + 1) * Period + 1

Older(x, limit) == IF x < limit THEN x + 1 ELSE limit

NotCalling == [busy |-> FALSE, age |-> 0]
Calling(h) == call[h].busy

\* A touch that began `ago` ticks ago has succeeded, and was carried out then or later.
Touched(ago) == idle_age' \in 0..(IF ago < idle_age THEN ago ELSE idle_age) /\ UNCHANGED faults
Fails == faults < MaxFaults /\ faults' = faults + 1 /\ UNCHANGED idle_age

-----------------------------------------------------------------------------
(* ActivityTouch *)

throttled == last.by # NoHandler /\ last.age < Interval

\* ping, up to the touch; throttled, it returns.
Ping(h) ==
    /\ ~Calling(h) /\ ~throttled
    /\ last' = [by |-> h, age |-> 0]
    /\ call' = [call EXCEPT ![h] = [busy |-> TRUE, age |-> 0]]
    /\ UNCHANGED <<good_age, timer, stream, faults, idle_age>>

\* Mutant: as in the gateway (main.py 1804), any failure clears the time.
UnclaimAny(h) == last' = [last EXCEPT !.by = NoHandler]

\* Only the claim of the touch that failed is withdrawn.
Unclaim(h) == last' = IF last.by = h THEN [last EXCEPT !.by = NoHandler] ELSE last

\* The touch is over, in good time or not.
PingDone(h) ==
    /\ Calling(h)
    /\ call' = [call EXCEPT ![h] = NotCalling]
    /\ \/ /\ Touched(call[h].age) /\ UNCHANGED last
          /\ good_age' = IF call[h].age < good_age THEN call[h].age ELSE good_age
       \/ Fails /\ Unclaim(h) /\ UNCHANGED good_age
    /\ UNCHANGED <<timer, stream>>

-----------------------------------------------------------------------------
(* TouchWhileActive *)

\* Mutant: start does not look for a thread that is alive.
StartTimerAnew == thread' = "wait" /\ stop' = FALSE /\ UNCHANGED <<waited, hurried>>

\* start: a thread that is alive is left as it is, even if it was told to stop.
StartTimer ==
    IF thread = "none" THEN thread' = "wait" /\ waited' = 0 /\ stop' = FALSE /\ UNCHANGED hurried
                       ELSE UNCHANGED timer /\ hurried' = TRUE

StreamOpen ==
    /\ ~open /\ streams < MaxStreams /\ streams' = streams + 1
    /\ open' = TRUE /\ open_age' = 0
    /\ StartTimer
    /\ UNCHANGED <<activity, faults, idle_age>>

\* Mutant: closing a stream forgets the timer.
StopTimerForgotten == UNCHANGED stop

StopTimer == stop' = TRUE

StreamClose ==
    /\ open /\ open' = FALSE /\ open_age' = 0
    /\ StopTimer
    /\ UNCHANGED <<activity, thread, waited, streams, hurried, faults, idle_age>>

\* The wait ends with the interval, or at once with the event.
Wake ==
    /\ thread = "wait" /\ (stop \/ waited = Interval)
    /\ thread' = (IF stop THEN "none" ELSE "look") /\ waited' = 0
    /\ UNCHANGED <<activity, stop, stream, faults, idle_age>>

\* active() is the client's: true while the stream is open, and afterwards whatever it is.
Look ==
    /\ thread = "look"
    /\ thread' \in (IF open THEN {"touch"} ELSE {"touch", "wait"})
    /\ UNCHANGED <<activity, waited, stop, stream, faults, idle_age>>

\* Mutant: a touch that raises ends the thread.
AfterTouchRaised == IF faults' > faults THEN "none" ELSE "wait"

\* Whatever came of it, it waits again.
AfterTouch == "wait"

TouchDone ==
    /\ thread = "touch"
    /\ Touched(waited) \/ Fails
    /\ thread' = AfterTouch /\ waited' = 0
    /\ UNCHANGED <<activity, stop, stream>>

-----------------------------------------------------------------------------
(* The specification *)

\* Who can run does, and no touch takes longer than CallTime.
Tick ==
    /\ \A h \in Handlers : Calling(h) => call[h].age < CallTime
    /\ \/ thread = "none"
       \/ thread = "wait" /\ ~stop /\ waited < Interval
       \/ thread = "touch" /\ waited < CallTime
    /\ last' = [last EXCEPT !.age = Older(@, Interval)]
    /\ call' = [h \in Handlers |-> IF Calling(h) THEN [call[h] EXCEPT !.age = @ + 1] ELSE call[h]]
    /\ waited' = (IF thread = "none" THEN waited ELSE waited + 1)
    /\ open_age' = (IF open THEN Older(open_age, Latest) ELSE 0)
    /\ idle_age' = Older(idle_age, IdleTimeout) /\ good_age' = Older(good_age, Interval)
    /\ UNCHANGED <<thread, stop, open, streams, faults, hurried>>

\* The lease has been acquired, some time ago.
Init ==
    /\ last = [by |-> NoHandler, age |-> Interval]
    /\ call = [h \in Handlers |-> NotCalling]
    /\ thread = "none" /\ waited = 0 /\ stop = FALSE
    /\ open = FALSE /\ open_age = 0 /\ streams = 0 /\ faults = 0
    /\ idle_age \in 0..IdleTimeout /\ good_age = Interval
    /\ hurried = FALSE

Run == Wake \/ Look \/ TouchDone
Next == (\E h \in Handlers : Ping(h) \/ PingDone(h)) \/ StreamOpen \/ StreamClose \/ Run \/ Tick

Spec == Init /\ [][Next]_vars
FairSpec == Spec /\ WF_vars(Run) /\ WF_vars(Tick) /\ \A h \in Handlers : WF_vars(PingDone(h))

-----------------------------------------------------------------------------
(* Properties *)

\* Every variable has its type.
TypeOK ==
    /\ last \in [by : Handlers \cup {NoHandler}, age : 0..Interval]
    /\ call \in [Handlers -> [busy : BOOLEAN, age : 0..CallTime]]
    /\ thread \in {"none", "wait", "look", "touch"}
    /\ waited \in Nat /\ (thread = "wait" => waited <= Interval) /\ (thread = "touch" => waited <= CallTime)
    /\ thread = "look" => waited = 0
    /\ stop \in BOOLEAN /\ open \in BOOLEAN /\ hurried \in BOOLEAN
    /\ open_age \in 0..Latest /\ streams \in 0..MaxStreams /\ faults \in 0..MaxFaults
    /\ idle_age \in 0..IdleTimeout /\ good_age \in 0..Interval

\* ActivityTouch holds a ping back exactly while a touch that was claimed less
\* than an interval ago is under way or has succeeded: touches are an interval
\* apart unless one fails, and one that failed, however late, holds nobody back
\* and withdraws no claim but its own.
ThrottleExact ==
    throttled <=> \/ good_age < Interval
                  \/ \E h \in Handlers : Calling(h) /\ call[h].age < Interval

\* The watchdog does not find the runtime of an open stream idle, once the
\* stream has been open for its first touch: each failed touch costs a period,
\* no more.  It needs that no stream was opened before the last thread had
\* ended: then start leaves the stream to a thread that is about to end.
StreamTouched ==
    open /\ ~hurried /\ open_age > (faults + 1) * Period => idle_age <= (faults + 1) * Period + CallTime

\* A client that has closed its stream and serves no request is found idle in
\* the end, whatever active() says: the timer does not outlive the stream.
IdleSeen == ~open ~> open \/ idle_age = IdleTimeout \/ \E h \in Handlers : Calling(h)
=============================================================================
