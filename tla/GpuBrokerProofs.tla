-------------------------- MODULE GpuBrokerProofs --------------------------
(***************************************************************************)
(* Proofs about GpuBroker, for any runtimes, processes, commands and       *)
(* timeouts: types, and the exclusiveness of evictions.                    *)
(***************************************************************************)
EXTENDS GpuBrokerLease, TLAPS

USE DEF NoStamp, NoToken

-----------------------------------------------------------------------------
(* Types *)

\* The time limits are numbers, and the time an eviction takes can be counted.
LEMMA Limits ==
    ASSUME NEW c \in Actors
    PROVE  /\ EvictTime(c) \in Nat /\ StuckLimit(c) \in Nat
           /\ EvictTime(c) <= MaxAge
    BY ActorsAssumption, TimesAssumption, AgesAssumption DEF EvictTime, StuckLimit

\* A stamp may be fresh, or NULL.
LEMMA ZeroAge == MaxAge \in Nat /\ 0 \in Ages /\ 0 \in 0..MaxAge /\ NoStamp \in Ages
    BY TimesAssumption DEF Ages

\* The empty row, plan and slot have their types.
LEMMA IdleTypes == EmptyRow \in Rows /\ NoPlan \in Plans /\ IdleSlot \in Slots
    BY TimesAssumption DEF EmptyRow, Rows, NoPlan, Plans, IdleSlot, Slots, Ages, Tokens, DrainSteps

\* Ageing a timestamp gives a timestamp.
LEMMA OlderType == ASSUME NEW n \in Ages PROVE Older(n) \in Ages
    BY TimesAssumption DEF Older, Ages

\* What an acquire writes into the row is a row.
LEMMA NewFieldsType ==
    ASSUME TypeOK, NEW c \in Actors, NEW prev \in Rows
    PROVE  NewFields(c, prev) \in Rows
    BY DEF TypeOK, NewFields, Rows, Slots, Ages

\* holder_pid is a pid.
LEMMA HolderPidType == TypeOK => holder_pid \in Pids \cup {NoPid}
    BY RuntimesAssumption DEF TypeOK, holder_pid, Rows

\* start_evict keeps the types of the row and of the slot it is given.
LEMMA StartEvictType ==
    ASSUME TypeOK, NEW c \in Actors, NEW s \in Slots, StartEvict(c, s)
    PROVE  row' \in Rows /\ slot' \in [Actors -> Slots]
    <1>1. row' \in Rows
        BY ZeroAge DEF TypeOK, StartEvict, MarkDraining, Rows
    <1>2. [rt |-> row.rt, tok |-> row.tok, pid |-> holder_pid] \in Plans
        BY HolderPidType DEF TypeOK, Rows, Plans
    <1>3. slot' \in [Actors -> Slots]
        <2>1. [s EXCEPT !.pc = IF row.rt \in WithUrl THEN "post" ELSE "kill", !.age = 0,
                        !.plan = [rt |-> row.rt, tok |-> row.tok, pid |-> holder_pid]] \in Slots
            BY <1>2, ZeroAge DEF Slots, DrainSteps, EvictSteps
        <2>. QED BY <2>1 DEF TypeOK, StartEvict
    <1>. QED BY <1>1, <1>3

\* A command that is answered leaves an idle slot.
LEMMA AnswerType ==
    ASSUME TypeOK, NEW c \in Actors, Answer(c) PROVE slot' \in [Actors -> Slots]
    BY IdleTypes DEF TypeOK, Answer

\* The first state is well typed.
LEMMA TypeInit == Init => TypeOK
    BY IdleTypes, TimesAssumption DEF Init, TypeOK

\* Every step of a command, a server or the clock keeps the types.
LEMMA TypeStep == TypeOK /\ [Next]_vars => TypeOK'
<1>. SUFFICES ASSUME TypeOK, [Next]_vars PROVE TypeOK'
    OBVIOUS
<1>. USE IdleTypes, ZeroAge
<1>1. ASSUME NEW c \in Cmds, AcquireBegin(c) PROVE TypeOK'
    <2>1. issued + 1 \in Tokens /\ issued' \in 0..MaxAcquires
        BY <1>1, TimesAssumption DEF AcquireBegin, TypeOK, Tokens
    <2>2. slot' \in [Actors -> Slots]
        <3>1. PICK r \in Runtimes, w \in Waits, f \in BOOLEAN, n \in BOOLEAN :
              \E p \in {NoPid} \cup {q \in alive : Owner[q] = r /\ r \notin Tracked} :
                 slot' = [slot EXCEPT ![c] =
                    [IdleSlot EXCEPT !.pc = "check", !.op = "acquire", !.rt = r, !.pid = p,
                               !.tok = issued + 1, !.acq = 0, !.force = f, !.no_evict = n,
                               !.wait = IF f THEN 0 ELSE w]]
            BY <1>1 DEF AcquireBegin
        <3>2. PICK p \in Pids \cup {NoPid} :
                 slot' = [slot EXCEPT ![c] =
                    [IdleSlot EXCEPT !.pc = "check", !.op = "acquire", !.rt = r, !.pid = p,
                               !.tok = issued + 1, !.acq = 0, !.force = f, !.no_evict = n,
                               !.wait = IF f THEN 0 ELSE w]]
            BY <3>1 DEF TypeOK
        <3>3. (IF f THEN 0 ELSE w) \in Nat
            BY TimesAssumption
        <3>4. [IdleSlot EXCEPT !.pc = "check", !.op = "acquire", !.rt = r, !.pid = p,
                               !.tok = issued + 1, !.acq = 0, !.force = f, !.no_evict = n,
                               !.wait = IF f THEN 0 ELSE w] \in Slots
            BY <2>1, <3>3 DEF Slots
        <3>. QED BY <3>2, <3>4 DEF TypeOK
    <2>. QED BY <1>1, <2>1, <2>2 DEF AcquireBegin, TypeOK
<1>2. ASSUME NEW c \in Cmds, Acquire(c) PROVE TypeOK'
    <2>. c \in Actors
        BY DEF Actors
    <2>1. CASE GrantFree(c) \/ Reassert(c) \/ GrantStale(c) \/ WaitVramGrant(c)
        BY <2>1, NewFieldsType, AnswerType
        DEF GrantFree, Reassert, GrantStale, WaitVramGrant, TypeOK
    <2>2. CASE WaitVramBegin(c)
        <3>1. row' \in Rows
            BY <2>2 DEF WaitVramBegin, MarkDraining, TypeOK, Rows, Ages
        <3>2. slot' \in [Actors -> Slots]
            <4>1. [rt |-> row.rt, tok |-> row.tok, pid |-> NoPid] \in Plans
                BY DEF TypeOK, Rows, Plans
            <4>2. \A p \in Plans : [slot[c] EXCEPT !.pc = "vram", !.age = 0, !.plan = p] \in Slots
                BY DEF TypeOK, Slots, DrainSteps
            <4>3. slot' = [slot EXCEPT ![c] = [slot[c] EXCEPT !.pc = "vram", !.age = 0,
                              !.plan = [rt |-> row.rt, tok |-> row.tok, pid |-> NoPid]]]
                BY <2>2 DEF WaitVramBegin, TypeOK
            <4>. QED BY <4>1, <4>2, <4>3 DEF TypeOK
        <3>. QED BY <2>2, <3>1, <3>2 DEF WaitVramBegin, TypeOK
    <2>3. CASE AcquireEvict(c)
        <3>1. slot[c] \in Slots
            BY DEF TypeOK
        <3>. QED BY <2>3, <3>1, StartEvictType DEF AcquireEvict, TypeOK
    <2>4. CASE AcquireDeny(c)
        BY <2>4, AnswerType DEF AcquireDeny, TypeOK
    <2>5. CASE WaitVramGiveUp(c)
        <3>1. row' \in Rows
            BY <2>5 DEF WaitVramGiveUp, TypeOK, Rows, Ages
        <3>2. [slot[c] EXCEPT !.pc = "check", !.plan = NoPlan, !.age = 0] \in Slots
            BY DEF TypeOK, Slots
        <3>. QED BY <2>5, <3>1, <3>2 DEF WaitVramGiveUp, TypeOK
    <2>. QED BY <1>2, <2>1, <2>2, <2>3, <2>4, <2>5 DEF Acquire
<1>3. ASSUME NEW c \in Cmds, EvictCommand(c) PROVE TypeOK'
    <2>1. c \in Actors /\ [IdleSlot EXCEPT !.op = "evict"] \in Slots
        BY DEF Actors, Slots
    <2>. QED BY <1>3, <2>1, StartEvictType DEF EvictCommand, TypeOK
<1>4. ASSUME NEW d \in Dogs, Watchdog(d) PROVE TypeOK'
    <2>1. d \in Actors /\ [IdleSlot EXCEPT !.op = "watchdog"] \in Slots
        BY DEF Actors, Slots
    <2>2. CASE WatchdogClear(d)
        BY <2>2 DEF WatchdogClear, TypeOK
    <2>3. CASE WatchdogEvict(d)
        BY <2>1, <2>3, StartEvictType DEF WatchdogEvict, TypeOK
    <2>. QED BY <1>4, <2>2, <2>3 DEF Watchdog
<1>5. ASSUME NEW c \in Actors, Finish(c) PROVE TypeOK'
    <2>1. CASE FinishPost(c)
        BY <2>1 DEF FinishPost, TypeOK, Slots, DrainSteps, EvictSteps
    <2>2. CASE FinishKill(c)
        BY <2>2 DEF FinishKill, TypeOK, Slots, DrainSteps, EvictSteps
    <2>3. CASE FinishUnlink(c)
        <3>1. slot' \in [Actors -> Slots]
            BY <2>3 DEF FinishUnlink, TypeOK, Slots, DrainSteps, EvictSteps
        <3>. QED BY <2>3, <3>1 DEF FinishUnlink, TypeOK
    <2>4. CASE EvictComplete(c)
        BY <2>4, NewFieldsType, AnswerType DEF EvictComplete, TypeOK
    <2>5. CASE EvictLostRace(c)
        <3>1. [slot[c] EXCEPT !.pc = "check", !.plan = NoPlan, !.age = 0] \in Slots
            BY DEF TypeOK, Slots
        <3>. QED BY <2>5, <3>1 DEF EvictLostRace, TypeOK
    <2>. QED BY <1>5, <2>1, <2>2, <2>3, <2>4, <2>5 DEF Finish
<1>6. ASSUME NEW c \in Actors, Crash(c) PROVE TypeOK'
    <2>1. row' \in Rows
        BY <1>6 DEF Crash, TypeOK
    <2>2. slot' \in [Actors -> Slots]
        BY <1>6, AnswerType DEF Crash
    <2>3. crashes' \in 0..MaxCrashes
        BY <1>6, TimesAssumption DEF Crash, TypeOK
    <2>. QED BY <1>6, <2>1, <2>2, <2>3 DEF Crash, TypeOK
<1>7. ASSUME NEW r \in Runtimes, Release(r) \/ Touch(r) PROVE TypeOK'
    BY <1>7 DEF Release, Touch, TypeOK, Rows, Ages
<1>8. ASSUME NEW p \in Pids, StartRuntime(p) \/ ExitRuntime(p) PROVE TypeOK'
    BY <1>8 DEF StartRuntime, ExitRuntime, TypeOK
<1>9. CASE Tick
    <2>1. row' \in Rows
        BY <1>9, OlderType DEF Tick, TypeOK, Rows
    <2>2. ASSUME NEW c \in Actors PROVE slot'[c] \in Slots
        <3>1. (IF Driving(c) THEN slot[c].age + 1 ELSE slot[c].age) \in 0..MaxAge
            <4>1. slot[c].age \in 0..MaxAge
                BY DEF TypeOK, Slots
            <4>2. Driving(c) => slot[c].age < EvictTime(c)
                BY <1>9 DEF Tick
            <4>3. EvictTime(c) \in Nat /\ EvictTime(c) <= MaxAge
                BY Limits
            <4>. QED BY <4>1, <4>2, <4>3
        <3>2. Older(slot[c].acq) \in Ages
            BY OlderType DEF TypeOK, Slots
        <3>3. slot'[c] = [slot[c] EXCEPT !.acq = Older(slot[c].acq),
                             !.age = IF Driving(c) THEN slot[c].age + 1 ELSE slot[c].age]
            BY <1>9 DEF Tick
        <3>. QED BY <3>1, <3>2, <3>3 DEF TypeOK, Slots
    <2>3. slot' \in [Actors -> Slots]
        BY <1>9, <2>2 DEF Tick
    <2>. QED BY <1>9, <2>1, <2>3 DEF Tick, TypeOK
<1>10. CASE UNCHANGED vars
    BY <1>10 DEF vars, TypeOK
<1>. QED
    BY <1>1, <1>2, <1>3, <1>4, <1>5, <1>6, <1>7, <1>8, <1>9, <1>10, RuntimesAssumption DEF Next

\* Every variable keeps its type.
THEOREM TypeCorrect == Spec => []TypeOK
    BY TypeInit, TypeStep, PTL DEF Spec
-----------------------------------------------------------------------------
(* Exclusive evictions *)

\* Who sees the row free for the taking knows that nobody is evicting it.
LEMMA NoDriver ==
    ASSUME Timely, EvictionInv, NEW c \in Actors, ~DrainingFor(c)
    PROVE  \A d \in Actors : ~Drives(d)
<1>. SUFFICES ASSUME NEW d \in Actors, Drives(d) PROVE FALSE
    OBVIOUS
<1>1. row.state = "draining" /\ row.since = slot[d].age /\ slot[d].age <= EvictTime(d)
    BY DEF EvictionInv, DrainTimed, Drives
<1>2. slot[d].age \in Nat
    BY ZeroAge DEF EvictionInv, TypeOK, Slots
<1>3. EvictTime(d) < StuckLimit(c) /\ EvictTime(d) \in Nat /\ StuckLimit(c) \in Nat
    BY Limits DEF Timely
<1>. QED BY <1>1, <1>2, <1>3 DEF DrainingFor

\* The parts of the invariant that are not types.
Exclusive == TokensFresh /\ Shape /\ DrainTimed /\ OneEvictor

\* An acquire that takes the row over has a token nobody else knows.
LEMMA TakeOver ==
    ASSUME EvictionInv, NEW c \in Actors, slot[c].op = "acquire",
           row' = NewFields(c, EmptyRow), Answer(c), issued' = issued
    PROVE  Exclusive'
<1>1. /\ row'.tok = slot[c].tok /\ row'.rt = slot[c].rt
      /\ slot'[c] = IdleSlot
      /\ \A d \in Actors : d # c => slot'[d] = slot[d]
    BY DEF EvictionInv, TypeOK, NewFields, EmptyRow, Answer
<1>2. slot[c].tok \in Nat /\ issued \in Nat
    BY TimesAssumption DEF EvictionInv, TypeOK, Slots, Tokens
<1>3. /\ IdleSlot.op = "none" /\ IdleSlot.pc = "idle" /\ IdleSlot.plan.tok = 0
      /\ IdleSlot.pc \notin DrainSteps
    BY DEF IdleSlot, NoPlan, DrainSteps, EvictSteps
<1>4. TokensFresh'
    BY <1>1, <1>2, <1>3 DEF EvictionInv, TokensFresh
<1>5. Shape'
    BY <1>1, <1>2, <1>3, NullsAssumption DEF EvictionInv, Shape, TokensFresh
<1>6. \A d \in Actors : ~Drives(d)'
    BY <1>1, <1>2, <1>3 DEF EvictionInv, TokensFresh, Drives, Driving
<1>7. DrainTimed'
    BY <1>1, <1>3, <1>6 DEF EvictionInv, DrainTimed, Driving
<1>. QED BY <1>4, <1>5, <1>6, <1>7 DEF Exclusive, OneEvictor

\* Emptying the row, or leaving it, harms no eviction; nor does a command that
\* is over.
LEMMA Vacate ==
    ASSUME EvictionInv, row' = EmptyRow \/ row' = row, issued' = issued,
           \A d \in Actors : slot'[d] = slot[d] \/ slot'[d] = IdleSlot
    PROVE  Exclusive'
<1>1. /\ IdleSlot.op = "none" /\ IdleSlot.pc = "idle" /\ IdleSlot.plan.tok = 0
      /\ IdleSlot.pc \notin DrainSteps
      /\ EmptyRow.tok = 0 /\ EmptyRow.rt = NoRuntime
    BY DEF IdleSlot, NoPlan, DrainSteps, EvictSteps, EmptyRow
<1>2. issued \in Nat
    BY DEF EvictionInv, TypeOK
<1>3. TokensFresh'
    BY <1>1, <1>2 DEF EvictionInv, TokensFresh
<1>4. Shape'
    BY <1>1 DEF EvictionInv, Shape
<1>5. \A d \in Actors : Drives(d)' => row' = row /\ slot'[d] = slot[d] /\ Drives(d)
    BY <1>1 DEF Drives, Driving, Held
<1>6. DrainTimed' /\ OneEvictor'
    BY <1>1, <1>5 DEF EvictionInv, DrainTimed, OneEvictor, Driving
<1>. QED BY <1>3, <1>4, <1>6 DEF Exclusive

\* A command that marks a free row is its one evictor from then on.
LEMMA Begin ==
    ASSUME EvictionInv, NEW c \in Actors, \A d \in Actors : ~Drives(d), Held,
           MarkDraining, issued' = issued,
           \A d \in Actors : d # c => slot'[d] = slot[d],
           slot'[c].pc \in DrainSteps, slot'[c].age = 0, slot'[c].plan.tok = row.tok,
           \/ /\ slot'[c].op = slot[c].op /\ slot'[c].tok = slot[c].tok
              /\ slot'[c].rt = slot[c].rt
           \/ slot'[c].op \in {"evict", "watchdog"},
           slot'[c].pc = "vram" => slot'[c].op = "acquire"
    PROVE  Exclusive'
<1>1. /\ row'.tok = row.tok /\ row'.rt = row.rt
      /\ row'.state = "draining" /\ row'.since = 0
    BY DEF EvictionInv, TypeOK, Rows, MarkDraining
<1>2. slot'[c].pc \notin {"check", "idle"}
    BY DEF DrainSteps, EvictSteps
<1>3. TokensFresh'
    BY <1>1 DEF EvictionInv, TokensFresh
<1>4. Shape'
    BY <1>1, <1>2 DEF EvictionInv, Shape
<1>5. \A d \in Actors : Drives(d)' => d = c
    BY <1>1 DEF Drives, Driving, Held
<1>6. EvictTime(c) \in Nat
    BY Limits
<1>7. DrainTimed'
    BY <1>1, <1>5, <1>6 DEF EvictionInv, DrainTimed, Driving
<1>. QED BY <1>3, <1>4, <1>5, <1>7 DEF Exclusive, OneEvictor

\* A command that goes on with its eviction, or starts over, keeps its token.
LEMMA GoOn ==
    ASSUME EvictionInv, NEW c \in Actors, row' = row, issued' = issued,
           \A d \in Actors : d # c => slot'[d] = slot[d],
           slot'[c].op = slot[c].op, slot'[c].tok = slot[c].tok, slot'[c].rt = slot[c].rt,
           \/ /\ slot[c].pc \in EvictSteps /\ slot'[c].pc \in EvictSteps
              /\ slot'[c].plan = slot[c].plan /\ slot'[c].age = slot[c].age
           \/ /\ slot'[c].pc = "check" /\ slot[c].op = "acquire" /\ slot'[c].plan = NoPlan
    PROVE  Exclusive'
<1>1. TokensFresh'
    BY DEF EvictionInv, TokensFresh, NoPlan, TypeOK
<1>2. Shape'
    BY DEF EvictionInv, Shape, EvictSteps
<1>3. \A d \in Actors : /\ Drives(d)' => Drives(d) /\ slot'[d].age = slot[d].age
                        /\ Driving(d)' => Driving(d) /\ slot'[d].age = slot[d].age
    BY DEF Drives, Driving, Held, DrainSteps, EvictSteps
<1>4. DrainTimed' /\ OneEvictor'
    BY <1>3 DEF EvictionInv, DrainTimed, OneEvictor
<1>. QED BY <1>1, <1>2, <1>4 DEF Exclusive

\* d's command ends, or starts over as an acquire without a plan.
Quits(d) == \/ slot'[d] = IdleSlot
            \/ /\ slot[d].op = "acquire" /\ slot'[d].op = "acquire"
               /\ slot'[d].pc = "check" /\ slot'[d].tok = slot[d].tok
               /\ slot'[d].rt = slot[d].rt
               /\ slot'[d].plan = NoPlan

\* Changing other fields of the row than its holder, its token and its mark, or
\* the mark when its evictor, if it has one, quits.
LEMMA Rewrite ==
    ASSUME EvictionInv, row'.rt = row.rt, row'.tok = row.tok, issued' = issued,
           \A d \in Actors : slot'[d] = slot[d] \/ Quits(d),
           \/ row'.state = row.state /\ row'.since = row.since
           \/ \A d \in Actors : ~Drives(d) \/ Quits(d)
    PROVE  Exclusive'
<1>1. /\ IdleSlot.op = "none" /\ IdleSlot.pc = "idle" /\ IdleSlot.plan.tok = 0
      /\ NoPlan.tok = 0
      /\ IdleSlot.pc \notin DrainSteps /\ "check" \notin DrainSteps
    BY DEF IdleSlot, NoPlan, DrainSteps, EvictSteps
<1>2. issued \in Nat
    BY DEF EvictionInv, TypeOK
<1>3. TokensFresh'
    BY <1>1, <1>2 DEF EvictionInv, TokensFresh, Quits
<1>4. Shape'
    BY <1>1 DEF EvictionInv, Shape, Quits
<1>5. \A d \in Actors : Driving(d)' => Driving(d) /\ slot'[d] = slot[d] /\ ~Quits(d)
    BY <1>1 DEF Driving, Quits
<1>6. \A d \in Actors : Drives(d)' => Drives(d) /\ slot'[d] = slot[d] /\ ~Quits(d)
    BY <1>5 DEF Drives, Held
<1>7. DrainTimed' /\ OneEvictor'
    BY <1>5, <1>6 DEF EvictionInv, DrainTimed, OneEvictor
<1>. QED BY <1>3, <1>4, <1>7 DEF Exclusive

-----------------------------------------------------------------------------
\* At first no command runs, so nobody evicts.
LEMMA ExclusiveInit == Init => Exclusive
<1>. SUFFICES ASSUME Init PROVE Exclusive
    OBVIOUS
<1>1. /\ IdleSlot.op = "none" /\ IdleSlot.pc = "idle" /\ IdleSlot.plan.tok = 0
      /\ IdleSlot.pc \notin DrainSteps
      /\ EmptyRow.tok = 0 /\ EmptyRow.rt = NoRuntime
    BY DEF IdleSlot, NoPlan, DrainSteps, EvictSteps, EmptyRow
<1>2. TokensFresh /\ Shape
    BY <1>1 DEF Init, TokensFresh, Shape
<1>3. \A c \in Actors : ~Driving(c)
    BY <1>1 DEF Init, Driving
<1>. QED BY <1>2, <1>3 DEF Exclusive, DrainTimed, OneEvictor, Drives

\* A new acquire has a token that is in no plan and not in the row.
LEMMA AcquireBeginStep ==
    ASSUME EvictionInv, NEW c \in Cmds, AcquireBegin(c) PROVE Exclusive'
<1>1. c \in Actors /\ issued \in Nat
    BY DEF Actors, EvictionInv, TypeOK
<1>2. /\ row' = row /\ issued' = issued + 1
      /\ slot'[c].pc = "check" /\ slot'[c].op = "acquire" /\ slot'[c].tok = issued + 1
      /\ slot'[c].plan.tok = 0 /\ slot'[c].rt \in Runtimes
      /\ \A d \in Actors : d # c => slot'[d] = slot[d]
    BY <1>1 DEF AcquireBegin, EvictionInv, TypeOK, IdleSlot, NoPlan
<1>3. \A d \in Actors : slot[d].tok \in Nat /\ slot[d].plan.tok \in Nat
    BY DEF EvictionInv, TypeOK, Slots, Plans, Tokens
<1>4. row.tok \in Nat
    BY DEF EvictionInv, TypeOK, Rows, Tokens
<1>5. TokensFresh'
    <2>1. row'.tok <= issued'
        BY <1>1, <1>2, <1>4 DEF EvictionInv, TokensFresh
    <2>2. ASSUME NEW e \in Actors PROVE slot'[e].plan.tok <= issued'
        BY <1>1, <1>2, <1>3 DEF EvictionInv, TokensFresh
    <2>3. ASSUME NEW e \in Actors, slot'[e].op = "acquire"
          PROVE  /\ 0 < slot'[e].tok /\ slot'[e].tok <= issued' /\ slot'[e].tok # row'.tok
                 /\ \A d \in Actors :
                       /\ slot'[d].plan.tok # slot'[e].tok
                       /\ d # e /\ slot'[d].op = "acquire" => slot'[d].tok # slot'[e].tok
        BY <1>1, <1>2, <1>3, <1>4, <2>3 DEF EvictionInv, TokensFresh
    <2>. QED BY <2>1, <2>2, <2>3 DEF TokensFresh
<1>6. Shape'
    BY <1>2 DEF EvictionInv, Shape
<1>7. \A d \in Actors : Driving(d)' => Driving(d) /\ slot'[d] = slot[d]
    BY <1>2 DEF Driving, DrainSteps, EvictSteps
<1>8. DrainTimed' /\ OneEvictor'
    BY <1>2, <1>7 DEF EvictionInv, DrainTimed, OneEvictor, Drives, Held
<1>. QED BY <1>5, <1>6, <1>8 DEF Exclusive

\* The drain and its evictor age together, the evictor at most to EvictTime.
LEMMA TickStep == ASSUME EvictionInv, Tick PROVE Exclusive'
<1>1. /\ row'.rt = row.rt /\ row'.tok = row.tok /\ row'.state = row.state
      /\ row'.since = Older(row.since) /\ issued' = issued
    BY DEF Tick, EvictionInv, TypeOK, Rows
<1>2. \A d \in Actors : /\ slot'[d].pc = slot[d].pc /\ slot'[d].op = slot[d].op
                        /\ slot'[d].tok = slot[d].tok /\ slot'[d].plan = slot[d].plan
                        /\ slot'[d].rt = slot[d].rt
                        /\ Driving(d) => slot'[d].age = slot[d].age + 1
    BY DEF Tick, EvictionInv, TypeOK, Slots
<1>3. TokensFresh' /\ Shape'
    BY <1>1, <1>2 DEF EvictionInv, TokensFresh, Shape
<1>4. \A d \in Actors : (Driving(d)' <=> Driving(d)) /\ (Drives(d)' <=> Drives(d))
    BY <1>1, <1>2 DEF Driving, Drives, Held
<1>5. \A d \in Actors : Driving(d) => slot[d].age < EvictTime(d)
    BY DEF Tick
<1>6. \A d \in Actors : slot[d].age \in Nat /\ EvictTime(d) \in Nat /\ EvictTime(d) <= MaxAge
    BY Limits, ZeroAge DEF EvictionInv, TypeOK, Slots
<1>7. ASSUME NEW d \in Actors, Drives(d)
      PROVE  row'.state = "draining" /\ row'.since = slot'[d].age
    <2>1. Driving(d) /\ row.state = "draining" /\ row.since = slot[d].age
        BY <1>7 DEF EvictionInv, DrainTimed, Drives
    <2>2. Older(row.since) = row.since + 1
        BY <1>5, <1>6, <2>1, ZeroAge DEF Older
    <2>. QED BY <1>1, <1>2, <2>1, <2>2
<1>8. DrainTimed'
    BY <1>2, <1>4, <1>5, <1>6, <1>7 DEF DrainTimed
<1>9. OneEvictor'
    BY <1>4 DEF EvictionInv, OneEvictor
<1>. QED BY <1>3, <1>8, <1>9 DEF Exclusive

\* A lease is confirmed only when nobody is evicting it.
LEMMA ReassertStep ==
    ASSUME Timely, EvictionInv, NEW c \in Actors, Reassert(c) PROVE Exclusive'
<1>1. /\ row'.rt = row.rt /\ row'.tok = row.tok /\ issued' = issued
    BY DEF Reassert, NewFields, EvictionInv, Shape, Held
<1>2. \A d \in Actors : slot'[d] = slot[d] \/ Quits(d)
    BY DEF Reassert, Answer, Quits, EvictionInv, TypeOK
<1>3. \A d \in Actors : ~Drives(d)
    BY NoDriver DEF Reassert
<1>. QED BY <1>1, <1>2, <1>3, Rewrite

\* start_evict on a row that nobody is draining makes its command the one evictor.
LEMMA StartEvictStep ==
    ASSUME Timely, EvictionInv, NEW c \in Actors, NEW s \in Slots, StartEvict(c, s),
           Held, ~DrainingFor(c), issued' = issued,
           s = slot[c] \/ s.op \in {"evict", "watchdog"}
    PROVE  Exclusive'
<1>1. \A d \in Actors : ~Drives(d)
    BY NoDriver
<1>2. /\ slot'[c].pc \in {"post", "kill"} /\ slot'[c].age = 0
      /\ slot'[c].plan.tok = row.tok
      /\ slot'[c].op = s.op /\ slot'[c].tok = s.tok /\ slot'[c].rt = s.rt
      /\ \A d \in Actors : d # c => slot'[d] = slot[d]
    BY DEF StartEvict, EvictionInv, TypeOK, Slots
<1>3. MarkDraining
    BY DEF StartEvict
<1>. QED BY <1>1, <1>2, <1>3, Begin DEF DrainSteps, EvictSteps

\* No outcome of the loop of cmd_acquire disturbs an eviction by another.
LEMMA AcquireStep ==
    ASSUME Timely, EvictionInv, NEW c \in Cmds, Acquire(c) PROVE Exclusive'
<1>. c \in Actors
    BY DEF Actors
<1>1. slot \in [Actors -> Slots] /\ slot[c] \in Slots
    BY DEF EvictionInv, TypeOK
<1>2. slot[c].pc \in {"check", "vram"} => slot[c].op = "acquire"
    BY DEF EvictionInv, Shape
<1>3. CASE GrantFree(c) \/ GrantStale(c) \/ WaitVramGrant(c)
    BY <1>2, <1>3, TakeOver DEF GrantFree, GrantStale, WaitVramGrant, Contended
<1>4. CASE Reassert(c)
    BY <1>4, ReassertStep
<1>5. CASE WaitVramBegin(c)
    <2>1. Held /\ ~DrainingFor(c) /\ MarkDraining /\ issued' = issued
        BY <1>5 DEF WaitVramBegin, Contended
    <2>2. /\ slot'[c].pc = "vram" /\ slot'[c].age = 0 /\ slot'[c].plan.tok = row.tok
          /\ slot'[c].op = slot[c].op /\ slot'[c].tok = slot[c].tok
          /\ slot'[c].rt = slot[c].rt
          /\ \A d \in Actors : d # c => slot'[d] = slot[d]
        BY <1>1, <1>5 DEF WaitVramBegin, Slots
    <2>3. slot[c].op = "acquire"
        BY <1>2, <1>5 DEF WaitVramBegin, Contended
    <2>4. "vram" \in DrainSteps
        BY DEF DrainSteps
    <2>. QED BY <2>1, <2>2, <2>3, <2>4, NoDriver, Begin
<1>6. CASE AcquireEvict(c)
    BY <1>1, <1>6, StartEvictStep DEF AcquireEvict, Contended
<1>7. CASE AcquireDeny(c)
    BY <1>1, <1>7, Vacate DEF AcquireDeny, Answer
<1>8. CASE WaitVramGiveUp(c)
    <2>1. /\ row'.rt = row.rt /\ row'.tok = row.tok /\ issued' = issued
          /\ ~Drives(c) => row' = row
        BY <1>8 DEF WaitVramGiveUp, EvictionInv, TypeOK, Rows
    <2>2. Quits(c) /\ \A d \in Actors : d # c => slot'[d] = slot[d]
        BY <1>1, <1>2, <1>8 DEF WaitVramGiveUp, Quits, Slots
    <2>3. \A d \in Actors : Drives(d) /\ Drives(c) => d = c
        BY DEF EvictionInv, OneEvictor
    <2>. QED BY <2>1, <2>2, <2>3, Rewrite
<1>. QED BY <1>3, <1>4, <1>5, <1>6, <1>7, <1>8 DEF Acquire

\* No step of finish_evict or complete_evict disturbs an eviction by another.
LEMMA FinishStep ==
    ASSUME EvictionInv, NEW c \in Actors, Finish(c) PROVE Exclusive'
<1>1. slot \in [Actors -> Slots] /\ slot[c] \in Slots
    BY DEF EvictionInv, TypeOK
<1>2. CASE FinishPost(c) \/ FinishKill(c) \/ FinishUnlink(c)
    <2>1. /\ slot[c].pc \in EvictSteps /\ slot'[c].pc \in EvictSteps
          /\ slot'[c].plan = slot[c].plan /\ slot'[c].age = slot[c].age
          /\ slot'[c].op = slot[c].op /\ slot'[c].tok = slot[c].tok
          /\ slot'[c].rt = slot[c].rt
          /\ \A d \in Actors : d # c => slot'[d] = slot[d]
        BY <1>1, <1>2 DEF FinishPost, FinishKill, FinishUnlink, EvictSteps, Slots
    <2>2. row' = row /\ issued' = issued
        BY <1>2 DEF FinishPost, FinishKill, FinishUnlink
    <2>. QED BY <2>1, <2>2, GoOn
<1>3. CASE EvictComplete(c) /\ slot[c].op = "acquire"
    BY <1>3, TakeOver DEF EvictComplete
<1>4. CASE EvictComplete(c) /\ slot[c].op # "acquire"
    BY <1>1, <1>4, Vacate DEF EvictComplete, Answer
<1>5. CASE EvictLostRace(c) /\ slot[c].op = "acquire"
    <2>1. /\ slot'[c].pc = "check" /\ slot'[c].plan = NoPlan
          /\ slot'[c].op = slot[c].op /\ slot'[c].tok = slot[c].tok
          /\ slot'[c].rt = slot[c].rt
          /\ \A d \in Actors : d # c => slot'[d] = slot[d]
        BY <1>1, <1>5 DEF EvictLostRace, Slots
    <2>2. row' = row /\ issued' = issued
        BY <1>5 DEF EvictLostRace
    <2>. QED BY <1>5, <2>1, <2>2, GoOn
<1>6. CASE EvictLostRace(c) /\ slot[c].op # "acquire"
    BY <1>1, <1>6, Vacate DEF EvictLostRace
<1>. QED BY <1>2, <1>3, <1>4, <1>5, <1>6 DEF Finish

\* Every step keeps evictions exclusive, given that limits are Timely.
LEMMA ExclusiveStep ==
    ASSUME Timely, EvictionInv, [Next]_vars PROVE Exclusive'
<1>1. ASSUME NEW c \in Cmds, EvictCommand(c) PROVE Exclusive'
    <2>1. c \in Actors /\ [IdleSlot EXCEPT !.op = "evict"] \in Slots
        BY IdleTypes DEF Actors, Slots
    <2>2. [IdleSlot EXCEPT !.op = "evict"].op = "evict"
        BY DEF IdleSlot
    <2>. QED BY <1>1, <2>1, <2>2, StartEvictStep DEF EvictCommand
<1>2. ASSUME NEW d \in Dogs, Watchdog(d) PROVE Exclusive'
    <2>1. d \in Actors /\ [IdleSlot EXCEPT !.op = "watchdog"] \in Slots
        BY IdleTypes DEF Actors, Slots
    <2>2. [IdleSlot EXCEPT !.op = "watchdog"].op = "watchdog"
        BY DEF IdleSlot
    <2>3. CASE WatchdogClear(d)
        BY <2>3, Vacate DEF WatchdogClear
    <2>4. CASE WatchdogEvict(d)
        BY <2>1, <2>2, <2>4, StartEvictStep DEF WatchdogEvict
    <2>. QED BY <1>2, <2>3, <2>4 DEF Watchdog
<1>3. ASSUME NEW c \in Actors, Crash(c) PROVE Exclusive'
    <2>1. \A d \in Actors : slot'[d] = slot[d] \/ slot'[d] = IdleSlot
        BY <1>3 DEF Crash, Answer, EvictionInv, TypeOK
    <2>. QED BY <1>3, <2>1, Vacate DEF Crash
<1>4. ASSUME NEW r \in Runtimes, Release(r) PROVE Exclusive'
    BY <1>4, Vacate DEF Release
<1>5. ASSUME NEW r \in Runtimes, Touch(r) PROVE Exclusive'
    <2>1. /\ row'.rt = row.rt /\ row'.tok = row.tok
          /\ row'.state = row.state /\ row'.since = row.since
        BY <1>5 DEF Touch, EvictionInv, TypeOK, Rows
    <2>. QED BY <1>5, <2>1, Rewrite DEF Touch
<1>6. ASSUME NEW p \in Pids, StartRuntime(p) \/ ExitRuntime(p) PROVE Exclusive'
    BY <1>6, Vacate DEF StartRuntime, ExitRuntime
<1>7. CASE UNCHANGED vars
    BY <1>7, Vacate DEF vars
<1>. QED
    BY <1>1, <1>2, <1>3, <1>4, <1>5, <1>6, <1>7, AcquireBeginStep, AcquireStep, FinishStep,
       TickStep, RuntimesAssumption DEF Next

\* A live evictor is alone at the lease it takes away, and exactly as old as the
\* drain it marked, so that nobody takes it for crashed.
THEOREM EvictionsExclusive == ASSUME Timely PROVE Spec => []EvictionInv
<1>1. Init => EvictionInv
    BY TypeInit, ExclusiveInit DEF EvictionInv, Exclusive
<1>2. EvictionInv /\ [Next]_vars => EvictionInv'
    BY TypeStep, ExclusiveStep DEF EvictionInv, Exclusive
<1>. QED BY <1>1, <1>2, PTL DEF Spec

\* No two live commands evict the same lease.
THEOREM OneEvictorAlways == ASSUME Timely PROVE Spec => []OneEvictor
    BY EvictionsExclusive, PTL DEF EvictionInv

\* complete_evict drops only a lease that is still marked.
THEOREM EvictorOwnsDrainAlways == ASSUME Timely PROVE Spec => []EvictorOwnsDrain
<1>1. EvictionInv => EvictorOwnsDrain
    BY DEF EvictionInv, DrainTimed, EvictorOwnsDrain
<1>. QED BY <1>1, EvictionsExclusive, PTL

-----------------------------------------------------------------------------
(* What an eviction leaves behind *)

\* Only FinishKill brings a command to the unlink, and the process is gone then;
\* a plan does not change after that, and no server gets a pid that a plan holds.
LEMMA VictimStep ==
    ASSUME TypeOK, VictimDead, [Next]_vars PROVE VictimDead'
<1>. DEFINE Past(c) == slot[c].pc \in {"unlink", "drain"}
<1>. SUFFICES ASSUME NEW e \in Actors, Past(e)' PROVE slot'[e].plan.pid \notin alive'
    BY DEF VictimDead
<1>1. slot \in [Actors -> Slots] /\ NoPid \notin alive
    BY NullsAssumption DEF TypeOK
<1>2. ASSUME Past(e), slot'[e].plan = slot[e].plan, alive' \subseteq alive
      PROVE  slot'[e].plan.pid \notin alive'
    BY <1>2 DEF VictimDead
<1>3. ASSUME NEW c \in Actors, \A d \in Actors : d # c => slot'[d] = slot[d], ~Past(c)',
             alive' \subseteq alive
      PROVE  slot'[e].plan.pid \notin alive'
    BY <1>2, <1>3
<1>4. ASSUME slot' = slot, alive' \subseteq alive PROVE slot'[e].plan.pid \notin alive'
    BY <1>2, <1>4
<1>5. ASSUME NEW c \in Actors, Answer(c), alive' = alive
      PROVE  slot'[e].plan.pid \notin alive'
    <2>1. ~Past(c)' /\ \A d \in Actors : d # c => slot'[d] = slot[d]
        BY <1>1, <1>5 DEF Answer, IdleSlot
    <2>. QED BY <1>3, <1>5, <2>1
<1>6. ASSUME NEW c \in Actors, NEW s \in Slots, StartEvict(c, s), alive' = alive
      PROVE  slot'[e].plan.pid \notin alive'
    <2>1. ~Past(c)' /\ \A d \in Actors : d # c => slot'[d] = slot[d]
        BY <1>1, <1>6 DEF StartEvict, Slots
    <2>. QED BY <1>3, <1>6, <2>1
<1>7. ASSUME NEW c \in Cmds, AcquireBegin(c) PROVE slot'[e].plan.pid \notin alive'
    <2>1. c \in Actors /\ ~Past(c)' /\ \A d \in Actors : d # c => slot'[d] = slot[d]
        BY <1>1, <1>7 DEF AcquireBegin, IdleSlot, Actors
    <2>. QED BY <1>3, <1>7, <2>1 DEF AcquireBegin
<1>8. ASSUME NEW c \in Cmds, Acquire(c) PROVE slot'[e].plan.pid \notin alive'
    <2>. c \in Actors
        BY DEF Actors
    <2>1. CASE GrantFree(c) \/ Reassert(c) \/ GrantStale(c) \/ AcquireDeny(c) \/ WaitVramGrant(c)
        BY <1>5, <2>1 DEF GrantFree, Reassert, GrantStale, AcquireDeny, WaitVramGrant
    <2>2. CASE WaitVramBegin(c)
        <3>1. slot'[c].pc = "vram" /\ \A d \in Actors : d # c => slot'[d] = slot[d]
            BY <1>1, <2>2 DEF WaitVramBegin, Slots
        <3>. QED BY <1>3, <2>2, <3>1 DEF WaitVramBegin
    <2>3. CASE WaitVramGiveUp(c)
        <3>1. \/ slot' = [slot EXCEPT ![c] = IdleSlot]
              \/ slot' = [slot EXCEPT ![c] = [slot[c] EXCEPT !.pc = "check", !.plan = NoPlan, !.age = 0]]
            BY <2>3 DEF WaitVramGiveUp
        <3>2. IdleSlot.pc = "idle"
            BY DEF IdleSlot
        <3>3. [slot[c] EXCEPT !.pc = "check", !.plan = NoPlan, !.age = 0].pc = "check"
            BY <1>1 DEF Slots
        <3>4. slot'[c].pc \in {"idle", "check"} /\ \A d \in Actors : d # c => slot'[d] = slot[d]
            BY <1>1, <3>1, <3>2, <3>3
        <3>. QED BY <1>3, <2>3, <3>4 DEF WaitVramGiveUp
    <2>4. CASE AcquireEvict(c)
        BY <1>1, <1>6, <2>4 DEF AcquireEvict
    <2>. QED BY <1>8, <2>1, <2>2, <2>3, <2>4 DEF Acquire
<1>9. ASSUME NEW c \in Cmds, EvictCommand(c) PROVE slot'[e].plan.pid \notin alive'
    <2>1. c \in Actors /\ [IdleSlot EXCEPT !.op = "evict"] \in Slots
        BY IdleTypes DEF Actors, Slots
    <2>. QED BY <1>6, <1>9, <2>1 DEF EvictCommand
<1>10. ASSUME NEW d \in Dogs, Watchdog(d) PROVE slot'[e].plan.pid \notin alive'
    <2>1. d \in Actors /\ [IdleSlot EXCEPT !.op = "watchdog"] \in Slots
        BY IdleTypes DEF Actors, Slots
    <2>. QED BY <1>4, <1>6, <1>10, <2>1 DEF Watchdog, WatchdogClear, WatchdogEvict
<1>11. ASSUME NEW c \in Actors, Finish(c) PROVE slot'[e].plan.pid \notin alive'
    <2>1. CASE FinishPost(c)
        <3>1. ~Past(c)' /\ \A d \in Actors : d # c => slot'[d] = slot[d]
            BY <1>1, <2>1 DEF FinishPost, Slots
        <3>. QED BY <1>3, <2>1, <3>1 DEF FinishPost
    <2>2. CASE FinishKill(c)
        <3>1. slot'[c].plan = slot[c].plan /\ \A d \in Actors : d # c => slot'[d] = slot[d]
            BY <1>1, <2>2 DEF FinishKill, Slots
        <3>2. alive' = alive \ {slot[c].plan.pid}
            BY <2>2 DEF FinishKill
        <3>3. CASE e = c
            BY <3>1, <3>2, <3>3
        <3>4. CASE e # c
            BY <1>2, <3>1, <3>2, <3>4
        <3>. QED BY <3>3, <3>4
    <2>3. CASE FinishUnlink(c)
        <3>1. slot'[e].plan = slot[e].plan /\ Past(e) /\ alive' = alive
            BY <1>1, <2>3 DEF FinishUnlink, Slots
        <3>. QED BY <1>2, <3>1
    <2>4. CASE EvictComplete(c)
        BY <1>5, <2>4 DEF EvictComplete
    <2>5. CASE EvictLostRace(c)
        <3>1. ~Past(c)' /\ \A d \in Actors : d # c => slot'[d] = slot[d]
            BY <1>1, <2>5 DEF EvictLostRace, IdleSlot, Slots
        <3>. QED BY <1>3, <2>5, <3>1 DEF EvictLostRace
    <2>. QED BY <1>11, <2>1, <2>2, <2>3, <2>4, <2>5 DEF Finish
<1>12. ASSUME NEW c \in Actors, Crash(c) PROVE slot'[e].plan.pid \notin alive'
    BY <1>5, <1>12 DEF Crash
<1>13. ASSUME NEW p \in Pids, StartRuntime(p) PROVE slot'[e].plan.pid \notin alive'
    BY <1>13 DEF StartRuntime, VictimDead
<1>14. ASSUME NEW p \in Pids, ExitRuntime(p) PROVE slot'[e].plan.pid \notin alive'
    BY <1>4, <1>14 DEF ExitRuntime
<1>15. CASE Tick
    <2>1. slot'[e].pc = slot[e].pc /\ slot'[e].plan = slot[e].plan
        BY <1>1, <1>15 DEF Tick, Slots
    <2>. QED BY <1>2, <1>15, <2>1 DEF Tick
<1>16. ASSUME UNCHANGED slot, UNCHANGED alive PROVE slot'[e].plan.pid \notin alive'
    BY <1>4, <1>16
<1>. QED
    BY <1>7, <1>8, <1>9, <1>10, <1>11, <1>12, <1>13, <1>14, <1>15, <1>16
    DEF Next, Release, Touch, vars

\* The card is not handed over while the process that start_evict found runs.
THEOREM VictimDeadAlways == Spec => []VictimDead
<1>1. Init => VictimDead
    BY DEF Init, VictimDead, IdleSlot
<1>2. TypeOK /\ VictimDead /\ [Next]_vars => VictimDead'
    BY VictimStep
<1>. QED BY <1>1, <1>2, TypeCorrect, PTL DEF Spec

\* A mark is set by the command that evicts then, and whoever ends an eviction of
\* the row without a crash takes the mark off or replaces the row.
LEMMA OrphanStep ==
    ASSUME TypeOK, NoOrphanDrain, [Next]_vars PROVE NoOrphanDrain'
<1>. SUFFICES ASSUME crashes' = 0, row'.state = "draining" PROVE \E c \in Actors : Drives(c)'
    BY DEF NoOrphanDrain
<1>1. slot \in [Actors -> Slots] /\ row \in Rows /\ Cmds \subseteq Actors /\ Dogs \subseteq Actors
    BY DEF TypeOK, Actors
<1>2. ASSUME NEW c \in Actors, Held, MarkDraining,
             slot'[c].pc \in DrainSteps, slot'[c].plan.tok = row.tok
      PROVE  \E d \in Actors : Drives(d)'
    BY <1>1, <1>2 DEF MarkDraining, Rows, Drives, Driving, Held
<1>3. ASSUME crashes' = crashes, row'.state = row.state, row'.rt = row.rt, row'.tok = row.tok,
             \A d \in Actors : Drives(d) => slot'[d].pc \in DrainSteps /\ slot'[d].plan = slot[d].plan
      PROVE  \E d \in Actors : Drives(d)'
    BY <1>3 DEF NoOrphanDrain, Drives, Driving, Held
<1>4. ASSUME NEW c \in Actors, UNCHANGED row, UNCHANGED crashes, ~Drives(c),
             \A d \in Actors : d # c => slot'[d] = slot[d]
      PROVE  \E d \in Actors : Drives(d)'
    BY <1>3, <1>4 DEF Drives, Driving
<1>5. ASSUME NEW c \in Actors, NEW s \in Slots, StartEvict(c, s), Held
      PROVE  \E d \in Actors : Drives(d)'
    <2>1. slot'[c].pc \in {"post", "kill"} /\ slot'[c].plan.tok = row.tok
        BY <1>1, <1>5 DEF StartEvict, Slots
    <2>. QED BY <1>2, <1>5, <2>1 DEF StartEvict, DrainSteps, EvictSteps
<1>6. ASSUME NEW c \in Cmds, AcquireBegin(c) PROVE \E d \in Actors : Drives(d)'
    BY <1>1, <1>4, <1>6 DEF AcquireBegin, Drives, Driving, DrainSteps, EvictSteps
<1>7. ASSUME NEW c \in Cmds, Acquire(c) PROVE \E d \in Actors : Drives(d)'
    <2>1. CASE GrantFree(c) \/ GrantStale(c) \/ WaitVramGrant(c) \/ Reassert(c)
        BY <1>1, <2>1 DEF GrantFree, GrantStale, WaitVramGrant, Reassert, NewFields
    <2>2. CASE WaitVramBegin(c)
        <3>1. slot'[c].pc = "vram" /\ slot'[c].plan.tok = row.tok
            BY <1>1, <2>2 DEF WaitVramBegin, Slots
        <3>. QED BY <1>1, <1>2, <2>2, <3>1 DEF WaitVramBegin, Contended, DrainSteps
    <2>3. CASE AcquireEvict(c)
        BY <1>1, <1>5, <2>3 DEF AcquireEvict, Contended
    <2>4. CASE AcquireDeny(c)
        BY <1>1, <1>4, <2>4
        DEF AcquireDeny, MustWait, Contended, Answer, Drives, Driving, DrainSteps, EvictSteps
    <2>5. CASE WaitVramGiveUp(c) /\ ~Drives(c)
        BY <1>1, <1>4, <2>5 DEF WaitVramGiveUp
    <2>6. CASE WaitVramGiveUp(c) /\ Drives(c)
        BY <1>1, <2>6 DEF WaitVramGiveUp, Rows
    <2>. QED BY <1>7, <2>1, <2>2, <2>3, <2>4, <2>5, <2>6 DEF Acquire
<1>8. ASSUME NEW c \in Cmds, EvictCommand(c) PROVE \E d \in Actors : Drives(d)'
    <2>1. [IdleSlot EXCEPT !.op = "evict"] \in Slots
        BY IdleTypes DEF Slots
    <2>. QED BY <1>1, <1>5, <1>8, <2>1 DEF EvictCommand
<1>9. ASSUME NEW d \in Dogs, Watchdog(d) PROVE \E e \in Actors : Drives(e)'
    <2>1. [IdleSlot EXCEPT !.op = "watchdog"] \in Slots
        BY IdleTypes DEF Slots
    <2>2. CASE WatchdogClear(d)
        BY <2>2 DEF WatchdogClear, EmptyRow
    <2>3. CASE WatchdogEvict(d)
        BY <1>1, <1>5, <2>1, <2>3 DEF WatchdogEvict
    <2>. QED BY <1>9, <2>2, <2>3 DEF Watchdog
<1>10. ASSUME NEW c \in Actors, Finish(c) PROVE \E d \in Actors : Drives(d)'
    <2>1. CASE FinishPost(c) \/ FinishKill(c) \/ FinishUnlink(c)
        <3>1. \A d \in Actors : /\ slot'[d].plan = slot[d].plan
                                /\ Driving(d) => slot'[d].pc \in DrainSteps
            BY <1>1, <2>1
            DEF FinishPost, FinishKill, FinishUnlink, Slots, Driving, DrainSteps, EvictSteps
        <3>. QED BY <1>3, <2>1, <3>1 DEF FinishPost, FinishKill, FinishUnlink, Drives
    <2>2. CASE EvictComplete(c)
        BY <2>2 DEF EvictComplete, NewFields, EmptyRow
    <2>3. CASE EvictLostRace(c)
        BY <1>1, <1>4, <2>3 DEF EvictLostRace
    <2>. QED BY <1>10, <2>1, <2>2, <2>3 DEF Finish
<1>11. ASSUME NEW c \in Actors, Crash(c) PROVE FALSE
    BY <1>11 DEF Crash, TypeOK
<1>12. ASSUME NEW r \in Runtimes, Release(r) PROVE FALSE
    BY <1>12 DEF Release, EmptyRow
<1>13. ASSUME NEW r \in Runtimes, Touch(r) PROVE \E d \in Actors : Drives(d)'
    BY <1>1, <1>3, <1>13 DEF Touch, Rows, Drives, Driving
<1>14. ASSUME NEW p \in Pids, StartRuntime(p) \/ ExitRuntime(p) PROVE \E d \in Actors : Drives(d)'
    BY <1>3, <1>14 DEF StartRuntime, ExitRuntime, Drives, Driving
<1>15. CASE Tick
    <2>1. \A d \in Actors : slot'[d].pc = slot[d].pc /\ slot'[d].plan = slot[d].plan
        BY <1>1, <1>15 DEF Tick, Slots
    <2>. QED BY <1>1, <1>3, <1>15, <2>1 DEF Tick, Rows, Drives, Driving
<1>16. CASE UNCHANGED vars
    BY <1>3, <1>16 DEF vars, Drives, Driving
<1>. QED
    BY <1>6, <1>7, <1>8, <1>9, <1>10, <1>11, <1>12, <1>13, <1>14, <1>15, <1>16,
       RuntimesAssumption DEF Next

\* Without a crash no mark is left on the row by an eviction that is over.
THEOREM NoOrphanDrainAlways == Spec => []NoOrphanDrain
<1>1. Init => NoOrphanDrain
    BY DEF Init, NoOrphanDrain, EmptyRow
<1>2. TypeOK /\ NoOrphanDrain /\ [Next]_vars => NoOrphanDrain'
    BY OrphanStep
<1>. QED BY <1>1, <1>2, TypeCorrect, PTL DEF Spec

\* The mark of a live evictor is renewed or taken off by nobody: to nobody it
\* looks abandoned, and its own evictor is over when it takes it off.
LEMMA AbandonStep ==
    ASSUME Timely, EvictionInv, [Next]_vars, row.state = "draining", row'.tok = row.tok,
           row'.since < row.since, NEW e \in Actors, Drives(e), Driving(e)'
    PROVE  FALSE
<1>1. /\ slot \in [Actors -> Slots] /\ row \in Rows /\ Cmds \subseteq Actors /\ Dogs \subseteq Actors
      /\ Held /\ row.tok # NoToken
    BY DEF EvictionInv, TypeOK, Shape, Drives, Held, Actors
<1>2. row.since \in Nat /\ row.since < MaxAge + 1 /\ MaxAge \in Nat
    BY <1>1, ZeroAge DEF EvictionInv, DrainTimed, TypeOK, Slots
<1>3. \A c \in Actors : DrainingFor(c)
    BY NoDriver
<1>4. row'.since # row.since
    BY <1>2
<1>5. ASSUME NEW c \in Actors, slot[c].op = "acquire", row' = NewFields(c, EmptyRow)
      PROVE  FALSE
    BY <1>5 DEF NewFields, EmptyRow, EvictionInv, TokensFresh
<1>6. ASSUME NEW c \in Cmds, Acquire(c) PROVE FALSE
    <2>1. slot[c].pc \in {"check", "vram"} => slot[c].op = "acquire"
        BY <1>1 DEF EvictionInv, Shape
    <2>2. CASE WaitVramGrant(c)
        BY <1>1, <1>5, <2>1, <2>2 DEF WaitVramGrant
    <2>3. CASE WaitVramGiveUp(c) /\ ~Drives(c)
        BY <1>4, <2>3 DEF WaitVramGiveUp
    <2>4. CASE WaitVramGiveUp(c) /\ Drives(c)
        <3>1. e = c
            BY <1>1, <2>4 DEF EvictionInv, OneEvictor
        <3>2. \/ slot'[c] = IdleSlot
              \/ slot'[c] = [slot[c] EXCEPT !.pc = "check", !.plan = NoPlan, !.age = 0]
            BY <1>1, <2>4 DEF WaitVramGiveUp
        <3>3. /\ IdleSlot.pc = "idle"
              /\ [slot[c] EXCEPT !.pc = "check", !.plan = NoPlan, !.age = 0].pc = "check"
            BY <1>1 DEF IdleSlot, Slots
        <3>4. slot'[c].pc \in {"idle", "check"}
            BY <3>2, <3>3
        <3>. QED BY <3>1, <3>4 DEF Driving, DrainSteps, EvictSteps
    <2>. QED
        BY <1>1, <1>3, <1>4, <1>6, <2>2, <2>3, <2>4
        DEF Acquire, GrantFree, Reassert, GrantStale, WaitVramBegin, AcquireEvict, AcquireDeny, Contended
<1>7. ASSUME NEW c \in Actors, Finish(c) PROVE FALSE
    <2>1. CASE EvictComplete(c)
        BY <1>1, <1>5, <2>1 DEF EvictComplete, EmptyRow
    <2>. QED
        BY <1>4, <1>7, <2>1 DEF Finish, FinishPost, FinishKill, FinishUnlink, EvictLostRace
<1>8. CASE Tick
    <2>1. row'.since = Older(row.since)
        BY <1>1, <1>8 DEF Tick, Rows
    <2>. QED BY <1>2, <2>1 DEF Older
<1>9. ASSUME NEW r \in Runtimes, Touch(r) PROVE FALSE
    BY <1>1, <1>4, <1>9 DEF Touch, Rows
<1>10. ASSUME row' = EmptyRow PROVE FALSE
    BY <1>1, <1>10 DEF EmptyRow
<1>. QED
    BY <1>1, <1>3, <1>4, <1>6, <1>7, <1>8, <1>9, <1>10, RuntimesAssumption
    DEF Next, AcquireBegin, EvictCommand, Watchdog, WatchdogClear, WatchdogEvict, Crash, Release,
        StartRuntime, ExitRuntime, vars

\* When the timeouts agree, a drain is taken for abandoned only when its evictor
\* crashed.
THEOREM OnlyCrashedAbandoned == ASSUME Timely PROVE Spec => OnlyCrashedDrainsAbandoned
<1>1. EvictionInv /\ [Next]_vars =>
        [ /\ row.state = "draining" /\ row'.tok = row.tok /\ row'.since < row.since
          => \A c \in Actors : ~(Drives(c) /\ Driving(c)') ]_vars
    BY AbandonStep
<1>. QED BY <1>1, EvictionsExclusive, PTL DEF Spec, OnlyCrashedDrainsAbandoned

-----------------------------------------------------------------------------
(* No grant during an eviction, unless its victim is released *)

\* Whoever is outside the lock to evict a runtime that nobody releases finds the
\* row it marked.
DrivenRow ==
    \A c \in Actors : Driving(c) /\ slot[c].plan.rt \notin MayRelease
        => Drives(c) /\ row.rt = slot[c].plan.rt

\* Where no client releases the victim's lease, an eviction keeps its row to the
\* end, and the card is not granted before.
LEMMA DrivenStep ==
    ASSUME Timely, EvictionInv, DrivenRow, [Next]_vars,
           NEW e \in Actors, Driving(e)', slot'[e].plan.rt \notin MayRelease
    PROVE  Drives(e)' /\ row'.rt = slot'[e].plan.rt /\ row'.tok = row.tok
<1>. DEFINE Goal == Drives(e)' /\ row'.rt = slot'[e].plan.rt /\ row'.tok = row.tok
<1>1. slot \in [Actors -> Slots] /\ row \in Rows /\ Cmds \subseteq Actors /\ Dogs \subseteq Actors
    BY DEF EvictionInv, TypeOK, Actors
<1>2. ASSUME row'.rt = row.rt, row'.tok = row.tok, slot'[e].plan = slot[e].plan, Driving(e)
      PROVE  Goal
    BY <1>2 DEF DrivenRow, Drives, Held
<1>3. ASSUME NEW c \in Actors, UNCHANGED row, ~Driving(c)', \A d \in Actors : d # c => slot'[d] = slot[d]
      PROVE  Goal
    BY <1>2, <1>3 DEF Driving
<1>4. IdleSlot.pc \notin DrainSteps /\ "check" \notin DrainSteps
    BY DEF IdleSlot, DrainSteps, EvictSteps
<1>5. ASSUME NEW c \in Actors, Answer(c), ~Held \/ ~DrainingFor(c) \/ Drives(c) PROVE FALSE
    <2>1. e # c /\ slot'[e] = slot[e]
        BY <1>1, <1>4, <1>5 DEF Answer, Driving
    <2>2. Drives(e)
        BY <2>1 DEF DrivenRow, Driving
    <2>. QED BY <1>5, <2>1, <2>2, NoDriver DEF Drives, EvictionInv, OneEvictor
<1>6. ASSUME NEW c \in Actors, Held, ~DrainingFor(c), MarkDraining,
             slot'[c].plan.tok = row.tok, slot'[c].plan.rt = row.rt,
             \A d \in Actors : d # c => slot'[d] = slot[d]
      PROVE  Goal
    <2>1. e = c
        BY <1>6, NoDriver DEF DrivenRow, Driving
    <2>. QED BY <1>1, <1>6, <2>1 DEF MarkDraining, Rows, Drives, Held
<1>7. ASSUME NEW c \in Actors, NEW s \in Slots, StartEvict(c, s), Held, ~DrainingFor(c)
      PROVE  Goal
    <2>1. slot'[c].plan.tok = row.tok /\ slot'[c].plan.rt = row.rt /\ \A d \in Actors : d # c => slot'[d] = slot[d]
        BY <1>1, <1>7 DEF StartEvict, Slots
    <2>. QED BY <1>6, <1>7, <2>1 DEF StartEvict
<1>8. ASSUME NEW c \in Cmds, AcquireBegin(c) PROVE Goal
    BY <1>1, <1>3, <1>8 DEF AcquireBegin, IdleSlot, Driving, DrainSteps, EvictSteps
<1>9. ASSUME NEW c \in Cmds, Acquire(c) PROVE Goal
    <2>1. CASE GrantFree(c) \/ Reassert(c) \/ GrantStale(c) \/ WaitVramGrant(c)
        BY <1>1, <1>5, <2>1 DEF GrantFree, Reassert, GrantStale, Contended, WaitVramGrant
    <2>2. CASE WaitVramBegin(c)
        <3>1. slot'[c].plan.tok = row.tok /\ slot'[c].plan.rt = row.rt /\ \A d \in Actors : d # c => slot'[d] = slot[d]
            BY <1>1, <2>2 DEF WaitVramBegin, Slots
        <3>. QED BY <1>1, <1>6, <2>2, <3>1 DEF WaitVramBegin, Contended
    <2>3. CASE AcquireEvict(c)
        BY <1>1, <1>7, <2>3 DEF AcquireEvict, Contended
    <2>4. CASE AcquireDeny(c)
        BY <1>1, <1>3, <1>4, <2>4 DEF AcquireDeny, Answer, Driving
    <2>5. CASE WaitVramGiveUp(c)
        <3>1. \/ slot'[c] = IdleSlot
              \/ slot'[c] = [slot[c] EXCEPT !.pc = "check", !.plan = NoPlan, !.age = 0]
            BY <1>1, <2>5 DEF WaitVramGiveUp
        <3>2. [slot[c] EXCEPT !.pc = "check", !.plan = NoPlan, !.age = 0].pc = "check"
            BY <1>1 DEF Slots
        <3>3. ~Driving(c)'
            BY <1>4, <3>1, <3>2 DEF Driving
        <3>4. slot'[e] = slot[e] /\ Driving(e)
            BY <1>1, <2>5, <3>3 DEF WaitVramGiveUp, Driving
        <3>5. row'.rt = row.rt /\ row'.tok = row.tok
            BY <1>1, <2>5 DEF WaitVramGiveUp, Rows
        <3>. QED BY <1>2, <3>4, <3>5
    <2>. QED BY <1>9, <2>1, <2>2, <2>3, <2>4, <2>5 DEF Acquire
<1>10. ASSUME NEW c \in Cmds, EvictCommand(c) PROVE Goal
    <2>1. [IdleSlot EXCEPT !.op = "evict"] \in Slots
        BY IdleTypes DEF Slots
    <2>. QED BY <1>1, <1>7, <1>10, <2>1 DEF EvictCommand
<1>11. ASSUME NEW d \in Dogs, Watchdog(d) PROVE Goal
    <2>1. [IdleSlot EXCEPT !.op = "watchdog"] \in Slots
        BY IdleTypes DEF Slots
    <2>2. CASE WatchdogClear(d)
        BY <1>1, <2>2, NoDriver DEF WatchdogClear, DrivenRow, Driving
    <2>3. CASE WatchdogEvict(d)
        BY <1>1, <1>7, <2>1, <2>3 DEF WatchdogEvict
    <2>. QED BY <1>11, <2>2, <2>3 DEF Watchdog
<1>12. ASSUME NEW c \in Actors, Finish(c) PROVE Goal
    <2>1. CASE FinishPost(c) \/ FinishKill(c) \/ FinishUnlink(c)
        <3>1. slot'[e].plan = slot[e].plan /\ Driving(e) /\ row' = row
            BY <1>1, <2>1
            DEF FinishPost, FinishKill, FinishUnlink, Slots, Driving, DrainSteps, EvictSteps
        <3>. QED BY <1>2, <3>1
    <2>2. CASE EvictComplete(c)
        BY <1>5, <2>2 DEF EvictComplete
    <2>3. CASE EvictLostRace(c)
        <3>1. slot'[c].pc \in {"check", "idle"} /\ row' = row
              /\ \A d \in Actors : d # c => slot'[d] = slot[d]
            BY <1>1, <2>3 DEF EvictLostRace, IdleSlot, Slots
        <3>. QED BY <1>3, <3>1 DEF Driving, DrainSteps, EvictSteps
    <2>. QED BY <1>12, <2>1, <2>2, <2>3 DEF Finish
<1>13. ASSUME NEW c \in Actors, Crash(c) PROVE Goal
    <2>1. CASE row' = row
        BY <1>1, <1>3, <1>4, <1>13, <2>1 DEF Crash, Answer, Driving
    <2>2. CASE Drives(c)
        BY <1>5, <1>13, <2>2 DEF Crash
    <2>. QED BY <1>13, <2>1, <2>2 DEF Crash
<1>14. ASSUME NEW r \in Runtimes, Touch(r) PROVE Goal
    BY <1>1, <1>2, <1>14 DEF Touch, Rows, Driving
<1>15. ASSUME NEW p \in Pids, StartRuntime(p) \/ ExitRuntime(p)
       PROVE  Goal
    BY <1>2, <1>15 DEF StartRuntime, ExitRuntime, Driving
<1>16. CASE Tick
    <2>1. slot'[e].pc = slot[e].pc /\ slot'[e].plan = slot[e].plan
        BY <1>1, <1>16 DEF Tick, Slots
    <2>. QED BY <1>1, <1>2, <1>16, <2>1 DEF Tick, Rows, Driving
<1>17. CASE UNCHANGED vars
    BY <1>2, <1>17 DEF vars, Driving
<1>18. ASSUME NEW r \in MayRelease, Release(r) PROVE Goal
    BY <1>18 DEF Release, DrivenRow, Driving
<1>. QED
    BY <1>8, <1>9, <1>10, <1>11, <1>12, <1>13, <1>14, <1>15, <1>16, <1>17,
       <1>18, RuntimesAssumption DEF Next

\* If the timeouts agree, the card is not granted while a command still waits for
\* an eviction, but where clients release the lease of the very victim; the run
\* release shows that this is all it takes.
THEOREM KeptDrainBlocksGrantAlways == ASSUME Timely PROVE Spec => KeptDrainBlocksGrant
<1>1. Init => DrivenRow
    BY DEF Init, DrivenRow, Driving, IdleSlot, DrainSteps, EvictSteps
<1>2. EvictionInv /\ DrivenRow /\ [Next]_vars => DrivenRow'
    BY DrivenStep DEF DrivenRow
<1>3. EvictionInv /\ DrivenRow /\ [Next]_vars =>
        [Held' /\ row'.tok # row.tok
         => \A c \in Actors : Driving(c)' => slot'[c].plan.rt \in MayRelease]_vars
    BY DrivenStep
<1>. QED BY <1>1, <1>2, <1>3, EvictionsExclusive, PTL DEF Spec, KeptDrainBlocksGrant

\* In particular, where no client releases, it is never granted beside one.
THEOREM DrainBlocksGrantAlways ==
    ASSUME Timely, MayRelease = {} PROVE Spec => DrainBlocksGrant
<1>1. [Held' /\ row'.tok # row.tok
       => \A c \in Actors : Driving(c)' => slot'[c].plan.rt \in MayRelease]_vars
      => [Held' /\ row'.tok # row.tok => \A c \in Actors : ~Driving(c)']_vars
    OBVIOUS
<1>. QED
    BY <1>1, KeptDrainBlocksGrantAlways, PTL DEF KeptDrainBlocksGrant, DrainBlocksGrant

=============================================================================
