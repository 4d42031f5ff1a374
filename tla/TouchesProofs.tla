---------------------------- MODULE TouchesProofs ----------------------------
(***************************************************************************)
(* Theorems about Touches, for any handlers, times and bounds.             *)
(***************************************************************************)
EXTENDS Touches, TLAPS

LEMMA PeriodNat == Period \in Nat \ {0} /\ Latest \in Nat /\ Interval <= Period /\ CallTime <= Period
  BY TouchesAssumption DEF Period, Latest

LEMMA OlderType == ASSUME NEW limit \in Nat, NEW x \in 0..limit
                   PROVE  Older(x, limit) \in 0..limit /\ Older(x, limit) <= x + 1 /\ x <= Older(x, limit)
  BY DEF Older

\* Every action keeps the types.
LEMMA TypeStep == TypeOK /\ [Next]_vars => TypeOK'
<1> SUFFICES ASSUME TypeOK, [Next]_vars PROVE TypeOK'
  OBVIOUS
<1> USE TouchesAssumption, PeriodNat
<1> USE DEF TypeOK, activity, timer, stream, Calling, NotCalling
<1>1. CASE UNCHANGED vars
  BY <1>1 DEF vars
<1>2. ASSUME NEW h \in Handlers, Ping(h) PROVE TypeOK'
  <2>1. last' \in [by : Handlers \cup {NoHandler}, age : 0..Interval]
    BY <1>2 DEF Ping
  <2>2. call' \in [Handlers -> [busy : BOOLEAN, age : 0..CallTime]]
    BY <1>2 DEF Ping
  <2> QED BY <1>2, <2>1, <2>2 DEF Ping
<1>3. ASSUME NEW h \in Handlers, PingDone(h) PROVE TypeOK'
  <2>1. call' \in [Handlers -> [busy : BOOLEAN, age : 0..CallTime]]
    BY <1>3 DEF PingDone
  <2>2. last' \in [by : Handlers \cup {NoHandler}, age : 0..Interval]
    BY <1>3 DEF PingDone, Unclaim
  <2>3. idle_age' \in 0..IdleTimeout /\ faults' \in 0..MaxFaults
    BY <1>3 DEF PingDone, Touched, Fails
  <2>4. good_age' \in 0..Interval
    BY <1>3 DEF PingDone
  <2> QED BY <1>3, <2>1, <2>2, <2>3, <2>4 DEF PingDone
<1>4. CASE StreamOpen
  <2>1. /\ UNCHANGED <<last, call, good_age, faults, idle_age>>
        /\ open' = TRUE /\ open_age' = 0 /\ streams' \in 0..MaxStreams
    BY <1>4 DEF StreamOpen
  <2>2. /\ thread' \in {"none", "wait", "look", "touch"} /\ stop' \in BOOLEAN /\ hurried' \in BOOLEAN
        /\ waited' \in Nat /\ (thread' = "wait" => waited' <= Interval) /\ (thread' = "touch" => waited' <= CallTime)
        /\ (thread' = "look" => waited' = 0)
    <3>1. CASE thread = "none"
      <4>1. thread' = "wait" /\ waited' = 0 /\ stop' = FALSE /\ hurried' = hurried
        BY <1>4, <3>1 DEF StreamOpen, StartTimer
      <4>2. hurried' \in BOOLEAN /\ stop' \in BOOLEAN
        BY <4>1
      <4> QED BY <4>1, <4>2, TouchesAssumption
    <3>2. CASE thread # "none"
      <4>1. UNCHANGED <<thread, waited, stop>> /\ hurried' = TRUE
        BY <1>4, <3>2 DEF StreamOpen, StartTimer
      <4> QED BY <4>1
    <3> QED BY <3>1, <3>2
  <2>3. open_age' \in 0..Latest
    BY <2>1
  <2> QED BY <2>1, <2>2, <2>3
<1>5. CASE StreamClose
  <2>1. /\ UNCHANGED <<last, call, thread, waited, streams, hurried, good_age, faults, idle_age>>
        /\ open' = FALSE /\ open_age' = 0 /\ stop' = TRUE
    BY <1>5 DEF StreamClose, StopTimer
  <2>2. open_age' \in 0..Latest
    BY <2>1
  <2> QED BY <2>1, <2>2
<1>6. CASE Wake
  BY <1>6 DEF Wake
<1>7. CASE Look
  BY <1>7 DEF Look
<1>8. CASE TouchDone
  <2>1. idle_age' \in 0..IdleTimeout /\ faults' \in 0..MaxFaults
    BY <1>8 DEF TouchDone, Touched, Fails
  <2> QED BY <1>8, <2>1 DEF TouchDone, AfterTouch
<1>9. CASE Tick
  <2>1. last' \in [by : Handlers \cup {NoHandler}, age : 0..Interval]
    BY <1>9, OlderType DEF Tick
  <2>2. call' \in [Handlers -> [busy : BOOLEAN, age : 0..CallTime]]
    BY <1>9 DEF Tick
  <2>3. waited' \in Nat /\ (thread' = "wait" => waited' <= Interval) /\ (thread' = "touch" => waited' <= CallTime)
        /\ (thread' = "look" => waited' = 0)
    BY <1>9 DEF Tick
  <2>4. open_age' \in 0..Latest /\ idle_age' \in 0..IdleTimeout /\ good_age' \in 0..Interval
    BY <1>9, OlderType DEF Tick
  <2> QED BY <1>9, <2>1, <2>2, <2>3, <2>4 DEF Tick
<1> QED BY <1>1, <1>2, <1>3, <1>4, <1>5, <1>6, <1>7, <1>8, <1>9 DEF Next, Run

LEMMA TypeInit == Init => TypeOK
<1> SUFFICES ASSUME Init PROVE TypeOK
  OBVIOUS
<1>1. /\ last \in [by : Handlers \cup {NoHandler}, age : 0..Interval]
      /\ call \in [Handlers -> [busy : BOOLEAN, age : 0..CallTime]]
  BY TouchesAssumption DEF Init, NotCalling
<1>2. open_age \in 0..Latest /\ streams \in 0..MaxStreams /\ faults \in 0..MaxFaults
  BY TouchesAssumption, PeriodNat DEF Init
<1> QED BY <1>1, <1>2, TouchesAssumption DEF Init, TypeOK

\* The types of the state, TypeOK, hold always.
THEOREM TouchesTypeCorrect == Spec => []TypeOK
  BY TypeInit, TypeStep, PTL DEF Spec

-----------------------------------------------------------------------------
(* The throttle *)

\* The last claim belongs to the youngest call, or to one that has succeeded;
\* every other call under way was claimed an interval ago or more.
ClaimInv ==
    /\ \A h \in Handlers : Calling(h) /\ last.by = h =>
          good_age = Interval /\ last.age = (IF call[h].age < Interval THEN call[h].age ELSE Interval)
    /\ \A h \in Handlers : Calling(h) /\ last.by # h => call[h].age >= Interval
    /\ last.by \in Handlers /\ ~Calling(last.by) => good_age <= last.age
    /\ good_age < Interval => last.by # NoHandler /\ last.age <= good_age

LEMMA ClaimExact == TypeOK /\ ClaimInv => ThrottleExact
<1> SUFFICES ASSUME TypeOK, ClaimInv PROVE ThrottleExact
  OBVIOUS
<1> USE TouchesAssumption DEF TypeOK, ClaimInv, throttled
<1>1. ASSUME throttled PROVE good_age < Interval \/ \E h \in Handlers : Calling(h) /\ call[h].age < Interval
  <2>1. last.by \in Handlers
    BY <1>1
  <2>2. CASE Calling(last.by)
    BY <1>1, <2>1, <2>2
  <2>3. CASE ~Calling(last.by)
    BY <1>1, <2>1, <2>3
  <2> QED BY <2>2, <2>3
<1>2. ASSUME good_age < Interval PROVE throttled
  BY <1>2
<1>3. ASSUME NEW h \in Handlers, Calling(h), call[h].age < Interval PROVE throttled
  BY <1>3
<1> QED BY <1>1, <1>2, <1>3 DEF ThrottleExact

LEMMA ClaimStep == TypeOK /\ ClaimInv /\ [Next]_vars => ClaimInv'
<1> SUFFICES ASSUME TypeOK, ClaimInv, [Next]_vars PROVE ClaimInv'
  OBVIOUS
<1> USE TouchesAssumption
<1> USE DEF TypeOK, ClaimInv, Calling, NotCalling
<1>1. ASSUME UNCHANGED activity PROVE ClaimInv'
  BY <1>1 DEF activity
<1>2. ASSUME NEW h \in Handlers, Ping(h) PROVE ClaimInv'
  <2>1. good_age = Interval /\ \A g \in Handlers : Calling(g) => call[g].age >= Interval
    BY <1>2, ClaimExact DEF Ping, ThrottleExact
  <2>2. /\ last' = [by |-> h, age |-> 0] /\ good_age' = good_age
        /\ call' = [call EXCEPT ![h] = [busy |-> TRUE, age |-> 0]]
    BY <1>2 DEF Ping
  <2> QED BY <2>1, <2>2
<1>3. ASSUME NEW h \in Handlers, PingDone(h) PROVE ClaimInv'
  <2>1. call' = [call EXCEPT ![h] = NotCalling] /\ Calling(h)
    BY <1>3 DEF PingDone
  <2>2. CASE last' = last /\ good_age' = (IF call[h].age < good_age THEN call[h].age ELSE good_age)
    BY <2>1, <2>2
  <2>3. CASE Unclaim(h) /\ good_age' = good_age
    <3>1. CASE last.by = h
      BY <2>1, <2>3, <3>1 DEF Unclaim
    <3>2. CASE last.by # h
      BY <2>1, <2>3, <3>2 DEF Unclaim
    <3> QED BY <3>1, <3>2
  <2> QED BY <1>3, <2>2, <2>3 DEF PingDone
<1>4. CASE Tick
  <2>1. /\ last' = [last EXCEPT !.age = Older(@, Interval)] /\ good_age' = Older(good_age, Interval)
        /\ \A h \in Handlers : Calling(h)' = Calling(h) /\ (Calling(h) => call[h].age' = call[h].age + 1)
    BY <1>4 DEF Tick
  <2> QED BY <2>1 DEF Older
<1> QED BY <1>1, <1>2, <1>3, <1>4
        DEF Next, Run, StreamOpen, StreamClose, Wake, Look, TouchDone, vars

\* ThrottleExact: pings are held back exactly for a touch that is under way or
\* has succeeded, whatever the number of handlers and however long touches take.
THEOREM ThrottleExactAlways == Spec => []ThrottleExact
<1>1. Init => ClaimInv
  BY TouchesAssumption DEF Init, ClaimInv, Calling, NotCalling
<1> QED BY <1>1, TypeInit, TypeStep, ClaimStep, ClaimExact, PTL DEF Spec

-----------------------------------------------------------------------------
(* The timer *)

\* How far the thread is in its period.
Elapsed == CASE thread = "wait" -> waited
             [] thread = "look" -> Interval
             [] OTHER -> Interval + waited

\* An open stream has its thread; either no touch has succeeded since it was
\* opened, and then it is not open for longer than the failed ones took, or one
\* has, and then the idle clock has run for no longer than those after it.
TimerInv ==
    open /\ ~hurried =>
        /\ thread # "none" /\ ~stop
        /\ \/ open_age <= faults * Period + Elapsed
           \/ idle_age <= faults * Period + Elapsed + CallTime

LEMMA FaultTime == ASSUME TypeOK
                   PROVE  faults * Period \in Nat /\ (faults + 1) * Period = faults * Period + Period
  BY PeriodNat DEF TypeOK

LEMMA ElapsedType == ASSUME TypeOK, thread # "none" PROVE Elapsed \in 0..Period
  BY TouchesAssumption DEF TypeOK, Elapsed, Period

LEMMA TimerTouched == TypeOK /\ TimerInv => StreamTouched
<1> SUFFICES ASSUME TypeOK, TimerInv, open, ~hurried, open_age > (faults + 1) * Period
             PROVE  idle_age <= (faults + 1) * Period + CallTime
  BY DEF StreamTouched
<1>1. Elapsed \in 0..Period
  BY ElapsedType DEF TimerInv
<1> DEFINE spent == faults * Period
<1>2. spent \in Nat /\ (faults + 1) * Period = spent + Period
  BY FaultTime
<1>3. open_age <= spent + Elapsed \/ idle_age <= spent + Elapsed + CallTime
  BY DEF TimerInv
<1> HIDE DEF spent
<1> QED BY <1>1, <1>2, <1>3, PeriodNat, TouchesAssumption DEF TypeOK

LEMMA TimerStep == TypeOK /\ TimerInv /\ [Next]_vars => TimerInv'
<1> SUFFICES ASSUME TypeOK, TimerInv, [Next]_vars, open', ~hurried'
             PROVE  (/\ thread # "none" /\ ~stop
                     /\ \/ open_age <= faults * Period + Elapsed
                        \/ idle_age <= faults * Period + Elapsed + CallTime)'
  BY DEF TimerInv
<1> USE TouchesAssumption, PeriodNat
<1> DEFINE spent == faults * Period
<1> spent \in Nat /\ (faults + 1) * Period = spent + Period
  BY FaultTime
<1> TypeOK'
  BY TypeStep
<1>1. CASE StreamOpen
  <2>1. thread' = "wait" /\ waited' = 0 /\ stop' = FALSE /\ open_age' = 0 /\ faults' = faults
    BY <1>1 DEF StreamOpen, StartTimer
  <2> QED BY <2>1 DEF Elapsed, TypeOK
<1>2. CASE ~StreamOpen
  <2>1. open /\ ~hurried
    <3>1. ~StreamClose
      BY DEF StreamClose
    <3>2. open' = open /\ hurried' = hurried
      BY <1>2, <3>1 DEF Next, Run, Ping, PingDone, Wake, Look, TouchDone, Tick, vars, stream
    <3> QED BY <3>2
  <2>2. thread # "none" /\ ~stop /\ (open_age <= spent + Elapsed \/ idle_age <= spent + Elapsed + CallTime)
    BY <2>1 DEF TimerInv
  <2>3. Elapsed \in 0..Period
    BY <2>2, ElapsedType
  <2>4. ASSUME UNCHANGED <<timer, stream>>, open_age' <= open_age, idle_age' <= idle_age,
               faults' = faults \/ faults' = faults + 1
        PROVE  (/\ thread # "none" /\ ~stop
                /\ \/ open_age <= faults * Period + Elapsed
                   \/ idle_age <= faults * Period + Elapsed + CallTime)'
    <3>1. Elapsed' = Elapsed
      BY <2>4 DEF Elapsed, timer
    <3>2. faults' * Period = spent \/ faults' * Period = spent + Period
      BY <2>4
    <3> HIDE DEF spent
    <3>3. /\ open_age \in Nat /\ open_age' \in Nat /\ idle_age \in Nat /\ idle_age' \in Nat
          /\ thread' = thread /\ stop' = stop
      BY <2>4 DEF timer, TypeOK
    <3> QED BY <2>2, <2>3, <2>4, <3>1, <3>2, <3>3
  <2>5. CASE UNCHANGED vars
    <3>1. UNCHANGED <<timer, stream, faults, idle_age>>
      BY <2>5 DEF vars
    <3>2. open_age' <= open_age /\ idle_age' <= idle_age
      BY <3>1 DEF stream, TypeOK
    <3> QED BY <2>4, <3>1, <3>2
  <2>6. ASSUME NEW h \in Handlers, Ping(h) \/ PingDone(h) PROVE UNCHANGED <<timer, stream>> /\ idle_age' <= idle_age
                                                       /\ (faults' = faults \/ faults' = faults + 1)
    <3>1. CASE Ping(h)
      BY <3>1 DEF Ping, TypeOK
    <3>2. CASE PingDone(h)
      BY <3>2 DEF PingDone, Touched, Fails, TypeOK, Calling
    <3> QED BY <2>6, <3>1, <3>2
  <2>7. CASE \E h \in Handlers : Ping(h) \/ PingDone(h)
    <3>1. UNCHANGED <<timer, stream>> /\ idle_age' <= idle_age /\ (faults' = faults \/ faults' = faults + 1)
      BY <2>6, <2>7
    <3>2. open_age' <= open_age
      BY <3>1 DEF stream, TypeOK
    <3> QED BY <2>4, <3>1, <3>2
  <2>8. CASE StreamClose
    BY <2>8 DEF StreamClose
  <2>9. CASE Wake
    <3>1. /\ thread = "wait" /\ waited = Interval /\ thread' = "look" /\ stop' = stop
          /\ UNCHANGED <<open_age, idle_age, faults>>
      BY <2>2, <2>9 DEF Wake, stream
    <3>2. Elapsed' = Elapsed
      BY <3>1 DEF Elapsed
    <3>3. faults' * Period = spent
      BY <3>1
    <3> HIDE DEF spent
    <3> QED BY <2>2, <3>1, <3>2, <3>3
  <2>10. CASE Look
    <3>1. /\ thread = "look" /\ waited' = 0 /\ thread' = "touch" /\ stop' = stop
          /\ UNCHANGED <<open_age, idle_age, faults>>
      BY <2>1, <2>10 DEF Look, stream, TypeOK
    <3>2. Elapsed' = Elapsed
      BY <3>1 DEF Elapsed
    <3> QED BY <2>2, <3>1, <3>2
  <2>11. CASE TouchDone
    <3>1. thread' = "wait" /\ waited' = 0 /\ stop' = stop /\ open_age' = open_age /\ Elapsed' = 0
      BY <2>11 DEF TouchDone, AfterTouch, stream, Elapsed
    <3>2. CASE Touched(waited)
      <4>1. idle_age' <= CallTime /\ faults' = faults
        BY <2>11, <3>2 DEF Touched, TouchDone, TypeOK
      <4>2. idle_age' \in Nat
        BY <3>2 DEF Touched, TypeOK
      <4> HIDE DEF spent
      <4>3. faults' * Period = spent
        BY <4>1 DEF spent
      <4> QED BY <2>2, <3>1, <4>1, <4>2, <4>3
    <3>3. CASE Fails
      <4>1. faults' * Period = spent + Period /\ idle_age' = idle_age
        BY <3>3 DEF Fails
      <4> HIDE DEF spent
      <4>2. idle_age' \in Nat /\ open_age' \in Nat
        BY <3>1, <4>1 DEF TypeOK
      <4> QED BY <2>2, <2>3, <3>1, <4>1, <4>2
    <3> QED BY <2>11, <3>2, <3>3 DEF TouchDone
  <2>12. CASE Tick
    <3>1. /\ thread \in {"wait", "touch"} /\ waited' = waited + 1 /\ UNCHANGED <<thread, stop, faults>>
      BY <2>2, <2>12 DEF Tick
    <3>2. Elapsed' = Elapsed + 1
      BY <3>1 DEF Elapsed, TypeOK
    <3>3. open_age' <= open_age + 1 /\ idle_age' <= idle_age + 1 /\ open_age' \in Nat /\ idle_age' \in Nat
      BY <2>1, <2>12, OlderType DEF Tick, TypeOK
    <3>4. faults' * Period = spent
      BY <3>1
    <3> HIDE DEF spent
    <3> QED BY <2>2, <2>3, <3>1, <3>2, <3>3, <3>4 DEF TypeOK
  <2> QED BY <1>2, <2>5, <2>7, <2>8, <2>9, <2>10, <2>11, <2>12 DEF Next, Run
<1> QED BY <1>1, <1>2

\* StreamTouched: the runtime of an open stream does not come to look idle,
\* whatever the interval, the length of touches and the number that fail.
THEOREM StreamTouchedAlways == Spec => []StreamTouched
<1>1. Init => TimerInv
  BY DEF Init, TimerInv
<1> QED BY <1>1, TypeInit, TypeStep, TimerStep, TimerTouched, PTL DEF Spec
=============================================================================
