------------------------ MODULE GpuBrokerRefinement ------------------------
(***************************************************************************)
(* Proof that the broker implements module Lease: under EvictionInv every  *)
(* step of GpuBroker is a step of Lease on the mapped variables.           *)
(***************************************************************************)
EXTENDS GpuBrokerProofs

USE DEF NoStamp, NoToken

\* A step of the abstract lease.
LeaseStep == L!LeaseNext

\* The evictor is the one command that drives, or nobody.
LEMMA EvictorIs ==
    ASSUME OneEvictor
    PROVE  /\ \A c \in Actors : Drives(c) => Evictor = c
           /\ (\A c \in Actors : ~Drives(c)) => Evictor = NoActor
           /\ Evictor \in Actors => Drives(Evictor)
    BY NoActorIsNoActor DEF OneEvictor, Evictor

\* The same in the next state.
LEMMA EvictorIsNext ==
    ASSUME OneEvictor'
    PROVE  /\ \A c \in Actors : Drives(c)' => Evictor' = c
           /\ (\A c \in Actors : ~Drives(c)') => Evictor' = NoActor
    BY NoActorIsNoActor DEF OneEvictor, Evictor

\* The evictor stays when the commands that drive stay the same.
LEMMA EvictorStays ==
    ASSUME OneEvictor, OneEvictor', \A c \in Actors : Drives(c)' <=> Drives(c)
    PROVE  Evictor' = Evictor
<1>1. CASE \E c \in Actors : Drives(c)
    BY <1>1, EvictorIs, EvictorIsNext
<1>2. CASE \A c \in Actors : ~Drives(c)
    BY <1>2, EvictorIs, EvictorIsNext
<1>. QED BY <1>1, <1>2

\* An acquire that ends has its claim answered; any other command has none.
LEMMA ClaimAnswer ==
    ASSUME EvictionInv, NEW c \in Actors, slot'[c].op # "acquire",
           \A d \in Actors : d # c => slot'[d] = slot[d]
    PROVE  L!Answered(c)
    BY DEF L!Answered, L!NoLease, Claim

\* Commands that keep their operation, token and runtime keep their claims.
LEMMA ClaimStays ==
    ASSUME \A d \in Actors :
               /\ slot'[d].op = slot[d].op
               /\ slot[d].op = "acquire" => slot'[d].tok = slot[d].tok /\ slot'[d].rt = slot[d].rt
    PROVE  Claim' = Claim
    BY DEF Claim

\* An acquire in flight claims a lease.
LEMMA ClaimMade ==
    ASSUME EvictionInv, NEW c \in Actors, slot[c].op = "acquire"
    PROVE  L!Claims(c)
<1>1. 0 < slot[c].tok
    BY DEF EvictionInv, TokensFresh
<1>2. Claim[c].tok = slot[c].tok
    BY DEF Claim
<1>3. slot[c].tok # 0
    BY <1>1
<1>. QED BY <1>2, <1>3 DEF L!Claims, L!NoLease

\* What Answer(c) does to the commands in flight.
LEMMA AnswerFacts ==
    ASSUME EvictionInv, NEW c \in Actors, Answer(c)
    PROVE  /\ slot'[c].op # "acquire" /\ ~Driving(c)'
           /\ \A d \in Actors : d # c => slot'[d] = slot[d]
    BY DEF EvictionInv, TypeOK, Answer, IdleSlot, Driving, DrainSteps, EvictSteps

\* A row that is held is a lease, and no other is.
LEMMA HeldLease ==
    ASSUME EvictionInv PROVE Held <=> [tok |-> row.tok, rt |-> row.rt] # L!NoLease
    BY DEF EvictionInv, Shape, Held, L!NoLease

\* The row that was just taken over is c's claim, and nobody drives it.
LEMMA NewRow ==
    ASSUME EvictionInv, EvictionInv', NEW c \in Actors, slot[c].op = "acquire",
           row' = NewFields(c, EmptyRow), Answer(c), issued' = issued
    PROVE  L!Granted(c)
<1>1. row'.tok = slot[c].tok /\ row'.rt = slot[c].rt /\ row'.state = "active"
    BY DEF NewFields, EmptyRow
<1>2. \A d \in Actors : ~Drives(d)'
    BY <1>1, AnswerFacts DEF EvictionInv, TokensFresh, Drives, Driving
<1>3. Evictor' = NoActor
    BY <1>2, EvictorIsNext DEF EvictionInv
<1>4. L!Answered(c) /\ L!Claims(c)
    BY AnswerFacts, ClaimAnswer, ClaimMade
<1>5. [tok |-> row'.tok, rt |-> row'.rt] = Claim[c]
    BY <1>1 DEF Claim
<1>6. (row'.state = "draining") = FALSE
    BY <1>1
<1>. QED BY <1>3, <1>4, <1>5, <1>6 DEF L!Granted

\* A step of c that is one of its steps in Lease.
LEMMA ActorStepRefines ==
    ASSUME NEW c \in Actors, L!ActorStep(c) PROVE LeaseStep
    BY DEF LeaseStep, L!LeaseNext

\* A step that leaves row, claims and drivers alone is Drift.
LEMMA DriftStep ==
    ASSUME EvictionInv, EvictionInv',
           row'.tok = row.tok, row'.rt = row.rt, row'.state = row.state, issued' = issued,
           Claim' = Claim, \A c \in Actors : Drives(c)' <=> Drives(c)
    PROVE  LeaseStep
    BY EvictorStays DEF EvictionInv, LeaseStep, L!LeaseNext, L!Drift

\* The same, but c's acquire is turned away.
LEMMA RefuseStep ==
    ASSUME EvictionInv, EvictionInv', NEW c \in Actors, slot[c].op = "acquire", ~Drives(c),
           row' = row, issued' = issued, L!Answered(c),
           \A d \in Actors : Drives(d)' <=> Drives(d)
    PROVE  LeaseStep
<1>1. Evictor' = Evictor /\ Evictor # c
    BY EvictorStays, EvictorIs DEF EvictionInv
<1>2. L!Refuse(c)
    BY <1>1, ClaimMade DEF L!Refuse
<1>. QED BY <1>2, ActorStepRefines DEF L!ActorStep

\* A mark on a row that nobody drains is Doom.
LEMMA DoomStep ==
    ASSUME EvictionInv, EvictionInv', NEW c \in Actors, \A d \in Actors : ~Drives(d), Held,
           row'.tok = row.tok, row'.rt = row.rt, row'.state = "draining", issued' = issued,
           Claim' = Claim, Drives(c)'
    PROVE  LeaseStep
<1>1. Evictor = NoActor /\ Evictor' = c
    BY EvictorIs, EvictorIsNext DEF EvictionInv
<1>2. (row'.state = "draining") = TRUE
    OBVIOUS
<1>3. L!Doom(c)
    BY <1>1, <1>2, HeldLease DEF L!Doom
<1>. QED BY <1>3, ActorStepRefines DEF L!ActorStep

\* The end of an eviction by c: the lease goes, the mark goes, or c dies.
LEMMA SettleStep ==
    ASSUME EvictionInv, EvictionInv', NEW c \in Actors, Drives(c), ~Drives(c)',
           issued' = issued, \A d \in Actors : d # c => slot'[d] = slot[d],
           \/ row' = EmptyRow /\ L!Answered(c)
           \/ /\ row'.tok = row.tok /\ row'.rt = row.rt /\ row'.state = "active"
              /\ Claim' = Claim \/ L!Answered(c)
           \/ row' = row /\ L!Answered(c)
    PROVE  LeaseStep
<1>1. Evictor = c
    BY EvictorIs DEF EvictionInv
<1>2. \A d \in Actors : ~Drives(d)'
    <2>1. \A d \in Actors : d # c => ~Drives(d)
        BY DEF EvictionInv, OneEvictor
    <2>2. EmptyRow.rt = NoRuntime
        BY DEF EmptyRow
    <2>. QED BY <2>1, <2>2 DEF Drives, Driving, Held
<1>3. Evictor' = NoActor
    BY <1>2, EvictorIsNext DEF EvictionInv
<1>4. CASE row' = EmptyRow /\ L!Answered(c)
    <2>1. [tok |-> row'.tok, rt |-> row'.rt] = L!NoLease /\ (row'.state = "draining") = FALSE
        BY <1>4 DEF EmptyRow, L!NoLease
    <2>2. L!Drop(c)
        BY <1>1, <1>3, <1>4, <2>1 DEF L!Drop, L!Ended
    <2>. QED BY <2>2, ActorStepRefines DEF L!ActorStep
<1>5. CASE /\ row'.tok = row.tok /\ row'.rt = row.rt /\ row'.state = "active"
           /\ Claim' = Claim \/ L!Answered(c)
    <2>1. (row'.state = "draining") = FALSE
        BY <1>5
    <2>2. L!Spare(c)
        BY <1>1, <1>3, <1>5, <2>1 DEF L!Spare
    <2>. QED BY <2>2, ActorStepRefines DEF L!ActorStep
<1>6. CASE row' = row /\ L!Answered(c)
    <2>1. L!Abandon(c)
        BY <1>1, <1>3, <1>6 DEF L!Abandon
    <2>. QED BY <2>1, ActorStepRefines DEF L!ActorStep
<1>. QED BY <1>4, <1>5, <1>6

\* c hands the lease that it evicted to itself.
LEMMA HandOverStep ==
    ASSUME EvictionInv, EvictionInv', NEW c \in Actors, Drives(c), slot[c].op = "acquire",
           row' = NewFields(c, EmptyRow), Answer(c), issued' = issued
    PROVE  LeaseStep
<1>1. Evictor = c /\ Held
    BY EvictorIs DEF EvictionInv, Drives
<1>2. L!HandOver(c)
    BY <1>1, NewRow, HeldLease DEF L!HandOver
<1>. QED BY <1>2, ActorStepRefines DEF L!ActorStep

\* c takes a card that is free, or whose holder is dead and not being evicted.
LEMMA GrantStep ==
    ASSUME EvictionInv, EvictionInv', NEW c \in Actors, slot[c].op = "acquire",
           row' = NewFields(c, EmptyRow), Answer(c), issued' = issued,
           Held => (~holder_alive /\ \A d \in Actors : ~Drives(d))
    PROVE  LeaseStep
<1>1. CASE Held
    <2>1. Evictor = NoActor
        BY <1>1, EvictorIs DEF EvictionInv
    <2>2. L!GrantOverDead(c)
        BY <1>1, <2>1, NewRow, HeldLease DEF L!GrantOverDead
    <2>. QED BY <2>2, ActorStepRefines DEF L!ActorStep
<1>2. CASE ~Held
    <2>1. L!GrantFree(c)
        BY <1>2, NewRow, HeldLease DEF L!GrantFree
    <2>. QED BY <2>1, ActorStepRefines DEF L!ActorStep
<1>. QED BY <1>1, <1>2

\* start_evict on a row that nobody drains.
LEMMA StartEvictRefines ==
    ASSUME Timely, EvictionInv, EvictionInv', NEW c \in Actors, NEW s \in Slots,
           StartEvict(c, s), Held, ~DrainingFor(c), issued' = issued,
           \/ s = slot[c]
           \/ slot[c].pc = "idle" /\ s.op \in {"evict", "watchdog"}
    PROVE  LeaseStep
<1>1. \A d \in Actors : ~Drives(d)
    BY NoDriver
<1>2. /\ slot'[c].pc \in DrainSteps /\ slot'[c].plan.tok = row.tok
      /\ slot'[c].op = s.op /\ slot'[c].tok = s.tok /\ slot'[c].rt = s.rt
      /\ \A d \in Actors : d # c => slot'[d] = slot[d]
    BY DEF StartEvict, EvictionInv, TypeOK, Slots, DrainSteps, EvictSteps
<1>3. row'.tok = row.tok /\ row'.rt = row.rt /\ row'.state = "draining"
    BY DEF StartEvict, MarkDraining, EvictionInv, TypeOK, Rows
<1>4. Drives(c)'
    BY <1>2, <1>3 DEF Drives, Driving, Held
<1>5. Claim' = Claim
    <2>1. CASE s = slot[c]
        BY <1>2, <2>1, ClaimStays
    <2>2. CASE slot[c].pc = "idle" /\ s.op \in {"evict", "watchdog"}
        <3>1. slot[c].op # "acquire"
            BY <2>2 DEF EvictionInv, Shape
        <3>. QED BY <1>2, <2>2, <3>1 DEF Claim
    <2>. QED BY <2>1, <2>2
<1>. QED BY <1>1, <1>3, <1>4, <1>5, DoomStep

-----------------------------------------------------------------------------
\* A new acquire is Ask.
LEMMA AcquireBeginRefines ==
    ASSUME EvictionInv, EvictionInv', NEW c \in Cmds, AcquireBegin(c) PROVE LeaseStep
<1>1. c \in Actors /\ slot[c].op # "acquire"
    BY DEF Actors, AcquireBegin, EvictionInv, Shape
<1>2. /\ row' = row /\ issued' = issued + 1 /\ issued < MaxAcquires
      /\ slot'[c].pc = "check" /\ slot'[c].op = "acquire" /\ slot'[c].tok = issued + 1
      /\ slot'[c].rt \in Runtimes
      /\ \A d \in Actors : d # c => slot'[d] = slot[d]
    BY <1>1 DEF AcquireBegin, EvictionInv, TypeOK, IdleSlot
<1>3. Claim' = [Claim EXCEPT ![c] = [tok |-> issued', rt |-> slot'[c].rt]]
    BY <1>1, <1>2 DEF Claim
<1>4. ~L!Claims(c)
    BY <1>1 DEF L!Claims, L!NoLease, Claim
<1>5. \A d \in Actors : Drives(d)' <=> Drives(d)
    <2>1. ~Driving(c) /\ ~Driving(c)'
        BY <1>2 DEF AcquireBegin, Driving, DrainSteps, EvictSteps
    <2>. QED BY <1>2, <2>1 DEF Drives, Driving, Held
<1>6. Evictor' = Evictor
    BY <1>5, EvictorStays DEF EvictionInv
<1>7. L!Ask(c, slot'[c].rt)
    BY <1>2, <1>3, <1>4, <1>6 DEF L!Ask
<1>. QED BY <1>1, <1>2, <1>7, ActorStepRefines DEF L!ActorStep

\* A lease that is confirmed to its own runtime is Confirm.
LEMMA ReassertRefines ==
    ASSUME Timely, EvictionInv, EvictionInv', NEW c \in Actors, Reassert(c)
    PROVE  LeaseStep
<1>1. /\ Held /\ row'.tok = row.tok /\ row'.rt = row.rt /\ row.rt = slot[c].rt
      /\ row'.state = "active" /\ issued' = issued
    BY DEF Reassert, NewFields, EvictionInv, Shape, Held
<1>2. slot[c].op = "acquire"
    BY DEF Reassert, EvictionInv, Shape
<1>3. L!Claims(c) /\ L!Answered(c)
    BY <1>2, AnswerFacts, ClaimAnswer, ClaimMade DEF Reassert
<1>4. \A d \in Actors : ~Drives(d)
    BY NoDriver DEF Reassert
<1>5. \A d \in Actors : ~Drives(d)'
    BY <1>1, <1>4, AnswerFacts DEF Reassert, Drives, Driving, Held
<1>6. Evictor = NoActor /\ Evictor' = NoActor
    BY <1>4, <1>5, EvictorIs, EvictorIsNext DEF EvictionInv
<1>7. Claim[c].rt = row.rt /\ (row'.state = "draining") = FALSE
    BY <1>1, <1>2 DEF Claim
<1>8. L!Confirm(c)
    BY <1>1, <1>3, <1>6, <1>7 DEF L!Confirm
<1>. QED BY <1>8, ActorStepRefines DEF L!ActorStep

\* Each outcome of the loop of cmd_acquire is a step of the lease.
LEMMA AcquireRefines ==
    ASSUME Timely, EvictionInv, EvictionInv', NEW c \in Cmds, Acquire(c) PROVE LeaseStep
<1>. c \in Actors
    BY DEF Actors
<1>1. slot \in [Actors -> Slots] /\ slot[c] \in Slots
    BY DEF EvictionInv, TypeOK
<1>2. slot[c].pc \in {"check", "vram"} => slot[c].op = "acquire"
    BY DEF EvictionInv, Shape
<1>3. CASE GrantFree(c)
    BY <1>2, <1>3, GrantStep DEF GrantFree
<1>4. CASE GrantStale(c)
    BY <1>2, <1>4, GrantStep, NoDriver DEF GrantStale, Contended, Stale
<1>5. CASE WaitVramGrant(c)
    BY <1>2, <1>5, HandOverStep DEF WaitVramGrant
<1>6. CASE Reassert(c)
    BY <1>6, ReassertRefines
<1>7. CASE WaitVramBegin(c)
    <2>1. Held /\ ~DrainingFor(c) /\ issued' = issued
        BY <1>7 DEF WaitVramBegin, Contended
    <2>2. row'.tok = row.tok /\ row'.rt = row.rt /\ row'.state = "draining"
        BY <1>7 DEF WaitVramBegin, MarkDraining, EvictionInv, TypeOK, Rows
    <2>3. /\ slot'[c].pc = "vram" /\ slot'[c].plan.tok = row.tok
          /\ slot'[c].op = slot[c].op /\ slot'[c].tok = slot[c].tok /\ slot'[c].rt = slot[c].rt
          /\ \A d \in Actors : d # c => slot'[d] = slot[d]
        BY <1>1, <1>7 DEF WaitVramBegin, Slots
    <2>4. Drives(c)' /\ Claim' = Claim
        BY <2>1, <2>2, <2>3, ClaimStays DEF Drives, Driving, DrainSteps, Held
    <2>. QED BY <2>1, <2>2, <2>4, NoDriver, DoomStep
<1>8. CASE AcquireEvict(c)
    BY <1>1, <1>8, StartEvictRefines DEF AcquireEvict, Contended
<1>9. CASE AcquireDeny(c)
    <2>1. slot[c].pc = "check" /\ row' = row /\ issued' = issued /\ Answer(c)
        BY <1>9 DEF AcquireDeny, MustWait
    <2>2. L!Answered(c) /\ ~Drives(c)
        BY <2>1, AnswerFacts, ClaimAnswer DEF Drives, Driving, DrainSteps, EvictSteps
    <2>3. \A d \in Actors : Drives(d)' <=> Drives(d)
        BY <2>1, AnswerFacts DEF Drives, Driving, DrainSteps, EvictSteps, Held
    <2>. QED BY <1>2, <2>1, <2>2, <2>3, RefuseStep
<1>10. CASE WaitVramGiveUp(c)
    <2>1. /\ slot[c].op = "acquire" /\ issued' = issued
          /\ Drives(c) => row'.rt = row.rt /\ row'.tok = row.tok /\ row'.state = "active"
          /\ ~Drives(c) => row' = row
        BY <1>2, <1>10 DEF WaitVramGiveUp, EvictionInv, TypeOK, Rows
    <2>2. /\ \A d \in Actors : d # c => slot'[d] = slot[d]
          /\ slot'[c].pc \in {"idle", "check"}
          /\ \/ slot'[c].op # "acquire"
             \/ /\ slot'[c].op = slot[c].op /\ slot'[c].tok = slot[c].tok
                /\ slot'[c].rt = slot[c].rt
        BY <1>1, <1>10 DEF WaitVramGiveUp, Slots, IdleSlot
    <2>3. Claim' = Claim \/ L!Answered(c)
        BY <2>1, <2>2, ClaimStays, ClaimAnswer
    <2>4. ~Driving(c)' /\ ~Drives(c)'
        BY <2>2 DEF Drives, Driving, DrainSteps, EvictSteps
    <2>5. CASE Drives(c)
        BY <2>1, <2>2, <2>3, <2>4, <2>5, SettleStep
    <2>6. CASE ~Drives(c)
        <3>1. \A d \in Actors : Drives(d)' <=> Drives(d)
            BY <2>1, <2>2, <2>4, <2>6 DEF Drives, Driving, Held
        <3>. QED BY <2>1, <2>3, <2>6, <3>1, DriftStep, RefuseStep
    <2>. QED BY <2>5, <2>6
<1>. QED BY <1>3, <1>4, <1>5, <1>6, <1>7, <1>8, <1>9, <1>10 DEF Acquire

\* Each step of finish_evict and complete_evict is a step of the lease.
LEMMA FinishRefines ==
    ASSUME EvictionInv, EvictionInv', NEW c \in Actors, Finish(c) PROVE LeaseStep
<1>1. slot \in [Actors -> Slots] /\ slot[c] \in Slots
    BY DEF EvictionInv, TypeOK
<1>2. CASE FinishPost(c) \/ FinishKill(c) \/ FinishUnlink(c)
    <2>1. /\ slot[c].pc \in EvictSteps /\ slot'[c].pc \in EvictSteps
          /\ slot'[c].plan = slot[c].plan
          /\ slot'[c].op = slot[c].op /\ slot'[c].tok = slot[c].tok /\ slot'[c].rt = slot[c].rt
          /\ \A d \in Actors : d # c => slot'[d] = slot[d]
        BY <1>1, <1>2 DEF FinishPost, FinishKill, FinishUnlink, EvictSteps, Slots
    <2>2. row' = row /\ issued' = issued
        BY <1>2 DEF FinishPost, FinishKill, FinishUnlink
    <2>3. \A d \in Actors : Drives(d)' <=> Drives(d)
        BY <2>1, <2>2 DEF Drives, Driving, DrainSteps, Held
    <2>. QED BY <2>1, <2>2, <2>3, ClaimStays, DriftStep
<1>3. CASE EvictComplete(c) /\ slot[c].op = "acquire"
    BY <1>3, HandOverStep DEF EvictComplete
<1>4. CASE EvictComplete(c) /\ slot[c].op # "acquire"
    <2>1. Drives(c) /\ Answer(c) /\ row' = EmptyRow /\ issued' = issued
        BY <1>4 DEF EvictComplete
    <2>2. ~Drives(c)' /\ L!Answered(c)
        BY <2>1, AnswerFacts, ClaimAnswer DEF Drives
    <2>. QED BY <2>1, <2>2, AnswerFacts, SettleStep
<1>5. CASE EvictLostRace(c)
    <2>1. /\ row' = row /\ issued' = issued /\ ~Drives(c)
          /\ slot'[c].pc \in {"check", "idle"}
          /\ \A d \in Actors : d # c => slot'[d] = slot[d]
          /\ slot[c].op = "acquire" => /\ slot'[c].op = "acquire"
                                       /\ slot'[c].tok = slot[c].tok
                                       /\ slot'[c].rt = slot[c].rt
          /\ slot[c].op # "acquire" => slot'[c].op # "acquire"
        BY <1>1, <1>5 DEF EvictLostRace, Slots, IdleSlot
    <2>2. Claim' = Claim
        BY <2>1 DEF Claim
    <2>3. \A d \in Actors : Drives(d)' <=> Drives(d)
        BY <2>1 DEF Drives, Driving, DrainSteps, EvictSteps, Held
    <2>. QED BY <2>1, <2>2, <2>3, DriftStep
<1>. QED BY <1>2, <1>3, <1>4, <1>5 DEF Finish

\* A command that is killed spares the lease, or drops it between its two statements.
LEMMA CrashRefines ==
    ASSUME EvictionInv, EvictionInv', NEW c \in Actors, Crash(c) PROVE LeaseStep
<1>1. /\ Answer(c) /\ issued' = issued
      /\ row' = row \/ (Drives(c) /\ row' = EmptyRow)
    BY DEF Crash
<1>2. L!Answered(c)
    BY <1>1, AnswerFacts, ClaimAnswer
<1>3. ~Drives(c)'
    BY <1>1, AnswerFacts DEF Drives
<1>4. CASE Drives(c)
    BY <1>1, <1>2, <1>3, <1>4, AnswerFacts, SettleStep
<1>5. CASE ~Drives(c)
    <2>1. \A d \in Actors : Drives(d)' <=> Drives(d)
        BY <1>1, <1>3, <1>5, AnswerFacts DEF Drives, Driving, Held
    <2>2. CASE slot[c].op = "acquire"
        BY <1>1, <1>2, <1>5, <2>1, <2>2, RefuseStep
    <2>3. CASE slot[c].op # "acquire"
        <3>1. Claim' = Claim
            BY <1>1, <2>3, AnswerFacts DEF Claim
        <3>. QED BY <1>1, <1>5, <2>1, <3>1, DriftStep
    <2>. QED BY <2>2, <2>3
<1>. QED BY <1>4, <1>5

\* The row is emptied by a client that may, or because its holder is dead and
\* nobody is evicting it.
LEMMA EmptyRowRefines ==
    ASSUME EvictionInv, EvictionInv', Held, row' = EmptyRow, slot' = slot, issued' = issued,
           \/ row.rt \in MayRelease
           \/ ~holder_alive /\ \A d \in Actors : ~Drives(d)
    PROVE  LeaseStep
<1>1. \A d \in Actors : ~Drives(d)'
    BY DEF Drives, Held, EmptyRow
<1>2. Evictor' = NoActor
    BY <1>1, EvictorIsNext DEF EvictionInv
<1>3. Claim' = Claim
    BY ClaimStays
<1>4. [tok |-> row'.tok, rt |-> row'.rt] = L!NoLease /\ (row'.state = "draining") = FALSE
    BY DEF EmptyRow, L!NoLease
<1>5. CASE row.rt \in MayRelease
    <2>1. L!Leave
        BY <1>2, <1>3, <1>4, <1>5 DEF L!Leave, L!Ended
    <2>. QED BY <2>1 DEF LeaseStep, L!LeaseNext
<1>6. CASE ~holder_alive /\ \A d \in Actors : ~Drives(d)
    <2>1. Evictor = NoActor
        BY <1>6, EvictorIs DEF EvictionInv
    <2>2. L!Clear
        BY <1>2, <1>3, <1>4, <1>6, <2>1, HeldLease DEF L!Clear, L!Ended
    <2>. QED BY <2>2 DEF LeaseStep, L!LeaseNext
<1>. QED BY <1>5, <1>6

\* Every step of the broker is a step of the lease.
LEMMA StepRefines ==
    ASSUME Timely, EvictionInv, EvictionInv', [Next]_vars
    PROVE  LeaseStep
<1>1. ASSUME NEW c \in Cmds, EvictCommand(c) PROVE LeaseStep
    <2>1. c \in Actors /\ [IdleSlot EXCEPT !.op = "evict"] \in Slots
        BY IdleTypes DEF Actors, Slots
    <2>2. [IdleSlot EXCEPT !.op = "evict"].op = "evict"
        BY DEF IdleSlot
    <2>. QED BY <1>1, <2>1, <2>2, StartEvictRefines DEF EvictCommand
<1>2. ASSUME NEW d \in Dogs, Watchdog(d) PROVE LeaseStep
    <2>1. d \in Actors /\ [IdleSlot EXCEPT !.op = "watchdog"] \in Slots
        BY IdleTypes DEF Actors, Slots
    <2>2. [IdleSlot EXCEPT !.op = "watchdog"].op = "watchdog"
        BY DEF IdleSlot
    <2>3. CASE WatchdogClear(d)
        BY <2>1, <2>3, EmptyRowRefines, NoDriver DEF WatchdogClear, Stale
    <2>4. CASE WatchdogEvict(d)
        BY <2>1, <2>2, <2>4, StartEvictRefines DEF WatchdogEvict
    <2>. QED BY <1>2, <2>3, <2>4 DEF Watchdog
<1>3. ASSUME NEW r \in MayRelease, Release(r) PROVE LeaseStep
    BY <1>3, EmptyRowRefines DEF Release
<1>4. ASSUME row'.tok = row.tok, row'.rt = row.rt, row'.state = row.state,
             issued' = issued, slot' = slot
      PROVE  LeaseStep
    <2>1. \A d \in Actors : Drives(d)' <=> Drives(d)
        BY <1>4 DEF Drives, Driving, Held
    <2>. QED BY <1>4, <2>1, ClaimStays, DriftStep
<1>5. ASSUME NEW r \in Runtimes, Touch(r) PROVE LeaseStep
    BY <1>4, <1>5 DEF Touch, EvictionInv, TypeOK, Rows
<1>6. ASSUME NEW p \in Pids, StartRuntime(p) \/ ExitRuntime(p) PROVE LeaseStep
    BY <1>4, <1>6 DEF StartRuntime, ExitRuntime
<1>7. CASE Tick
    <2>1. /\ row'.rt = row.rt /\ row'.tok = row.tok /\ row'.state = row.state
          /\ issued' = issued
        BY <1>7 DEF Tick, EvictionInv, TypeOK, Rows
    <2>2. \A d \in Actors : /\ slot'[d].pc = slot[d].pc /\ slot'[d].op = slot[d].op
                            /\ slot'[d].tok = slot[d].tok /\ slot'[d].plan = slot[d].plan
                            /\ slot'[d].rt = slot[d].rt
        <3>1. \A d \in Actors : slot[d] \in Slots
            BY DEF EvictionInv, TypeOK
        <3>2. \A d \in Actors : slot'[d] =
                  [slot[d] EXCEPT !.acq = Older(slot[d].acq),
                             !.age = IF Driving(d) THEN slot[d].age + 1 ELSE slot[d].age]
            BY <1>7 DEF Tick
        <3>. QED BY <3>1, <3>2 DEF Slots
    <2>3. \A d \in Actors : Drives(d)' <=> Drives(d)
        BY <2>1, <2>2 DEF Drives, Driving, Held
    <2>. QED BY <2>1, <2>2, <2>3, ClaimStays, DriftStep
<1>8. CASE UNCHANGED vars
    BY <1>4, <1>8 DEF vars
<1>. QED
    BY <1>1, <1>2, <1>3, <1>5, <1>6, <1>7, <1>8, AcquireBeginRefines, AcquireRefines,
       FinishRefines, CrashRefines, RuntimesAssumption DEF Next

\* The broker keeps the promise of Lease: one lease with a token of its own; one
\* evictor at a time, which alone ends a live client's lease or hands it to its
\* own acquire, and whose mark nobody takes off by having the lease confirmed.
THEOREM BrokerImplementsLease == ASSUME Timely PROVE Spec => ImplementsLease
<1>1. Init => L!LeaseInit
    <2>. SUFFICES ASSUME Init PROVE L!LeaseInit
        OBVIOUS
    <2>1. \A c \in Actors : ~Drives(c)
        BY DEF Init, Drives, Held, EmptyRow
    <2>2. Evictor = NoActor
        BY <2>1 DEF Evictor
    <2>3. Claim = [c \in Actors |-> L!NoLease]
        BY DEF Init, Claim, IdleSlot, L!NoLease
    <2>. QED BY <2>2, <2>3 DEF Init, L!LeaseInit, L!NoLease, EmptyRow, Held
<1>2. EvictionInv /\ EvictionInv' /\ [Next]_vars => [L!LeaseNext]_(L!leaseVars)
    BY StepRefines DEF LeaseStep
<1>. QED BY <1>1, <1>2, EvictionsExclusive, PTL DEF Spec, ImplementsLease, L!LeaseSpec

=============================================================================
