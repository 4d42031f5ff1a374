-------------------------- MODULE LeaseClientProofs --------------------------
(***************************************************************************)
(* Proofs about the clients of the broker, for any runtimes, clients,      *)
(* faults and bounds.  What the broker does to the row keeps the lease of  *)
(* every server that still runs and of every client about to start one     *)
(* (Keeps); the steps of the clients follow from that.                     *)
(***************************************************************************)
EXTENDS LeaseClient, TLAPS

\* Whoever was told that the lease is its own, and starts next, has it.
GrantHeld(c) == answer[c] = "granted" /\ pc[c] \in {"answered", "start"}
                    => holder = Of[c] \/ Of[c] \in lost

\* A denial stops a load; an acquire is asked once more at most.
Decided(c) == /\ pc[c] = "start" /\ answer[c] = "denied" => mode[c] = "keep"
              /\ pc[c] \in {"install", "write", "upload", "verify", "installed", "acquire"}
                    => tries[c] \in 0..1

LeaseInv == TypeOK /\ LeaseHeld /\ \A c \in Clients : GrantHeld(c) /\ Decided(c)

\* What the row says of the runtimes that need it is kept.
Needed(r) == r \in server' \/ Fresh(r)
Keeps == /\ holder' \in Runtimes \cup {Nobody} /\ lost' \subseteq Runtimes
         /\ server' \subseteq server
         /\ \A r \in Runtimes : Needed(r) /\ (holder = r \/ r \in lost) => holder' = r \/ r \in lost'

\* An acquire keeps the lease of everybody but a holder it evicts, whose server
\* it stops and who is not about to start; a forced one is the exception.
LEMMA AcquireKeeps ==
    ASSUME TypeOK, NEW r \in Runtimes, NEW no_evict \in BOOLEAN, NEW force \in BOOLEAN,
           NEW result \in {"granted", "denied"}, AcquireRuns(r, no_evict, force, result)
    PROVE  Keeps /\ (result = "granted" => holder' = r)
BY ClientsAssumption DEF TypeOK, AcquireRuns, Grant, Keeps, Needed

\* A release that takes the lease from a server, or from a process of the
\* runtime that works, is recorded as such.
LEMMA ReleaseKeeps ==
    ASSUME TypeOK, NEW r \in Runtimes, NEW others \in SUBSET Clients, ReleaseRuns(r, others),
           \A c \in Peers(r) : c \in others \/ pc[c] = "release"
    PROVE  Keeps
<1>1. Fresh(r) => others \cap Working # {}
  BY DEF Fresh, Working, Peers
<1>. QED BY <1>1 DEF TypeOK, ReleaseRuns, Keeps, Needed

LEMMA LeaseInit == Init => LeaseInv
BY ClientsAssumption DEF Init, LeaseInv, TypeOK, LeaseHeld, GrantHeld, Decided

\* A step that keeps the row's promises and touches no client keeps the invariant.
LEMMA BrokerStep ==
    ASSUME LeaseInv, Keeps, UNCHANGED <<script, warned, client, loads>>,
           late' \in SUBSET ({"acquire", "force", "reassert", "release"} \X Runtimes),
           faults' \in 0..MaxFaults, excused' \subseteq Clients
    PROVE  LeaseInv'
<1>1. TypeOK'
  BY DEF LeaseInv, TypeOK, Keeps, client
<1>2. LeaseHeld'
  BY DEF LeaseInv, TypeOK, LeaseHeld, Keeps, Needed, client
<1>3. ASSUME NEW c \in Clients PROVE GrantHeld(c)' /\ Decided(c)'
  <2>1. answer[c] = "granted" /\ pc[c] \in {"answered", "start"} => Fresh(Of[c])
    BY DEF Fresh, Peers
  <2>2. Of[c] \in Runtimes
    BY ClientsAssumption
  <2>. QED BY <2>1, <2>2 DEF LeaseInv, GrantHeld, Decided, Keeps, Needed, client
<1>. QED BY <1>1, <1>2, <1>3 DEF LeaseInv

\* What becomes of the broker in an acquire, whatever befalls the call.
LEMMA CallKeeps ==
    ASSUME TypeOK, NEW c \in Clients, NEW no_evict \in BOOLEAN, NEW force \in BOOLEAN,
           AcquireCall(c, no_evict, force)
    PROVE  /\ Keeps
           /\ \E a \in {"none", "granted", "denied", "timeout"} :
                 /\ answer' = [answer EXCEPT ![c] = a]
                 /\ a = "granted" => holder' = Of[c]
           /\ late' \in SUBSET ({"acquire", "force", "reassert", "release"} \X Runtimes)
           /\ faults' \in 0..MaxFaults /\ excused' \subseteq Clients
<1>. Of[c] \in Runtimes
  BY ClientsAssumption
<1>1. ASSUME NEW result \in {"granted", "denied"}, AcquireRuns(Of[c], no_evict, force, result)
      PROVE  Keeps /\ (result = "granted" => holder' = Of[c])
  BY <1>1, AcquireKeeps
<1>2. ASSUME UNCHANGED <<holder, server, lost>> PROVE Keeps
  BY <1>2 DEF TypeOK, Keeps, Needed
<1>3. \A kind : Hit(kind) => faults' \in 0..MaxFaults
  BY ClientsAssumption DEF Hit, TypeOK
<1>4. NoFault => faults' \in 0..MaxFaults /\ excused' \subseteq Clients
  BY DEF NoFault, TypeOK
<1>5. Excuse => excused' \subseteq Clients
  BY DEF Excuse
<1>6. CASE /\ script_works /\ NoFault
           /\ \E result \in {"granted", "denied"} :
                 AcquireRuns(Of[c], no_evict, force, result) /\ answer' = [answer EXCEPT ![c] = result]
           /\ UNCHANGED late
  BY <1>6, <1>1, <1>4 DEF TypeOK
<1>7. CASE /\ NoFault \/ (Hit("unreach") /\ Excuse)
           /\ answer' = [answer EXCEPT ![c] = "none"]
           /\ UNCHANGED broker
  BY <1>7, <1>2, <1>3, <1>4, <1>5 DEF TypeOK, broker
<1>8. CASE /\ script_works /\ Hit("lost") /\ Excuse
           /\ \E result \in {"granted", "denied"} : AcquireRuns(Of[c], no_evict, force, result)
           /\ answer' = [answer EXCEPT ![c] = "none"]
           /\ UNCHANGED late
  BY <1>8, <1>1, <1>3, <1>5 DEF TypeOK
<1>9. CASE /\ Hit("timeout") /\ Excuse
           /\ answer' = [answer EXCEPT ![c] = "timeout"]
           /\ late' = late \cup {<<Left(no_evict, force), Of[c]>>}
           /\ UNCHANGED <<holder, server, lost>>
  BY <1>9, <1>2, <1>3, <1>5 DEF TypeOK, Left
<1>. QED BY <1>6, <1>7, <1>8, <1>9 DEF AcquireCall

LEMMA AcquireStep == ASSUME LeaseInv, NEW c \in Clients, Acquire(c) PROVE LeaseInv'
<1>. USE DEF LeaseInv
<1>1. PICK no_evict \in BOOLEAN, force \in BOOLEAN : AcquireCall(c, no_evict, force)
  BY DEF Acquire
<1>2. PICK a \in {"none", "granted", "denied", "timeout"} :
         answer' = [answer EXCEPT ![c] = a] /\ (a = "granted" => holder' = Of[c])
  BY <1>1, CallKeeps
<1>3. /\ Keeps /\ late' \in SUBSET ({"acquire", "force", "reassert", "release"} \X Runtimes)
      /\ faults' \in 0..MaxFaults /\ excused' \subseteq Clients
  BY <1>1, CallKeeps
<1>4. TypeOK'
  BY <1>2, <1>3 DEF TypeOK, Acquire, Go, Keeps, Decided
<1>5. LeaseHeld'
  BY <1>3 DEF TypeOK, LeaseHeld, Keeps, Needed, Acquire
<1>6. ASSUME NEW d \in Clients PROVE GrantHeld(d)' /\ Decided(d)'
  <2>1. CASE d = c
    BY <1>2, <2>1 DEF TypeOK, GrantHeld, Decided, Acquire, Go
  <2>2. CASE d # c
    <3>1. /\ answer'[d] = answer[d] /\ pc'[d] = pc[d]
          /\ mode'[d] = mode[d] /\ tries'[d] = tries[d]
      BY <1>2, <2>2 DEF TypeOK, Acquire, Go
    <3>2. answer[d] = "granted" /\ pc[d] \in {"answered", "start"} => Fresh(Of[d])
      BY DEF Fresh, Peers
    <3>3. Of[d] \in Runtimes
      BY ClientsAssumption
    <3>. QED BY <1>3, <3>1, <3>2, <3>3 DEF GrantHeld, Decided, Keeps, Needed
  <2>. QED BY <2>1, <2>2
<1>. QED BY <1>4, <1>5, <1>6

LEMMA ReleaseStep == ASSUME LeaseInv, NEW c \in Clients, Release(c) PROVE LeaseInv'
<1>. USE DEF LeaseInv
<1>1. Keeps
  <2>1. CASE ReleaseRuns(Of[c], Peers(Of[c]) \ {c})
    <3>1. Of[c] \in Runtimes /\ Peers(Of[c]) \ {c} \in SUBSET Clients
      BY ClientsAssumption DEF Peers
    <3>2. \A d \in Peers(Of[c]) : d \in Peers(Of[c]) \ {c} \/ pc[d] = "release"
      BY DEF Release
    <3>. QED BY <2>1, <3>1, <3>2, ReleaseKeeps
  <2>2. CASE UNCHANGED <<holder, server, lost>>
    BY <2>2 DEF TypeOK, Keeps, Needed
  <2>. QED BY <2>1, <2>2 DEF Release, broker
<1>2. faults' \in 0..MaxFaults /\ excused' \subseteq Clients
  BY ClientsAssumption DEF TypeOK, Release, Hit, Excuse
<1>3. late' \in SUBSET ({"acquire", "force", "reassert", "release"} \X Runtimes)
  BY ClientsAssumption DEF TypeOK, Release, broker
<1>4. TypeOK'
  BY <1>1, <1>2, <1>3 DEF TypeOK, Release, Go, Keeps
<1>5. LeaseHeld'
  BY <1>1 DEF TypeOK, LeaseHeld, Keeps, Needed, Release
<1>6. ASSUME NEW d \in Clients PROVE GrantHeld(d)' /\ Decided(d)'
  <2>1. answer[d] = "granted" /\ pc[d] \in {"answered", "start"} => Fresh(Of[d])
    BY DEF Fresh, Peers
  <2>2. Of[d] \in Runtimes
    BY ClientsAssumption
  <2>. QED BY <1>1, <2>1, <2>2 DEF TypeOK, GrantHeld, Decided, Keeps, Needed, Release, Go
<1>. QED BY <1>4, <1>5, <1>6

\* The watchdog spares whoever was granted the card just now.
LEMMA ReclaimStep == ASSUME LeaseInv, Reclaim PROVE LeaseInv'
<1>1. Keeps
  BY DEF LeaseInv, TypeOK, Reclaim, Keeps, Needed
<1>. QED BY <1>1, BrokerStep DEF LeaseInv, TypeOK, Reclaim, client

\* A call that arrives after its caller has given up.
LEMMA LateStep == ASSUME LeaseInv, LateCall PROVE LeaseInv'
<1>1. PICK call \in late :
         \/ \E result \in {"granted", "denied"}, no_evict \in BOOLEAN, force \in BOOLEAN :
               AcquireRuns(call[2], no_evict, force, result)
         \/ ReleaseRuns(call[2], Peers(call[2]))
  BY DEF LateCall
<1>2. call[2] \in Runtimes
  BY DEF LeaseInv, TypeOK
<1>3. Keeps
  BY <1>1, <1>2, AcquireKeeps, ReleaseKeeps DEF LeaseInv, Peers
<1>. QED BY <1>3, BrokerStep DEF LeaseInv, TypeOK, LateCall

LEMMA DiesStep == ASSUME LeaseInv, ServerDies PROVE LeaseInv'
<1>1. Keeps
  BY DEF LeaseInv, TypeOK, ServerDies, Keeps, Needed
<1>. QED BY <1>1, BrokerStep DEF LeaseInv, TypeOK, ServerDies

\* The steps of a client that leave the broker alone.
LEMMA InstallStep == ASSUME LeaseInv, NEW c \in Clients, Install(c) PROVE LeaseInv'
<1>. USE DEF LeaseInv, TypeOK, LeaseHeld, GrantHeld, Decided, Go, broker, NoFault, Hit, Excuse
<1>1. CASE EnsureInstalled(c)
  BY <1>1, ClientsAssumption DEF EnsureInstalled
<1>2. CASE WriteBegin(c)
  BY <1>2 DEF WriteBegin
<1>3. CASE WriteEnd(c)
  BY <1>3, ClientsAssumption DEF WriteEnd
<1>4. CASE Verify(c)
  BY <1>4, ClientsAssumption DEF Verify
<1>. QED BY <1>1, <1>2, <1>3, <1>4 DEF Install

LEMMA LoadStep == ASSUME LeaseInv, NEW c \in Clients, Load(c) PROVE LeaseInv'
<1>. USE DEF LeaseInv, TypeOK, LeaseHeld, GrantHeld, Decided, Go, broker
<1>1. CASE Installed(c)
  BY <1>1 DEF Installed
<1>2. CASE Refused(c)
  BY <1>2 DEF Refused
<1>3. CASE Answered(c)
  BY <1>3 DEF Answered, Denied, Retries
<1>4. CASE Start(c)
  BY <1>4, ClientsAssumption DEF Start, Warns
<1>5. CASE Failed(c)
  BY <1>5 DEF Failed
<1>. QED BY <1>1, <1>2, <1>3, <1>4, <1>5, AcquireStep DEF Load

LEMMA BeginStep ==
    ASSUME LeaseInv, NEW c \in Clients, WingpuLoad(c) \/ SiblingLoad(c) \/ Unload(c) PROVE LeaseInv'
<1>. USE DEF LeaseInv, TypeOK, LeaseHeld, GrantHeld, Decided, Go, broker
<1>1. CASE WingpuLoad(c)
  BY <1>1, ClientsAssumption DEF WingpuLoad, NewLoad, Stopped, StopFails, StopRaises, Hit
<1>2. CASE SiblingLoad(c)
  BY <1>2, ClientsAssumption DEF SiblingLoad, NewLoad
<1>3. CASE Unload(c)
  BY <1>3, ClientsAssumption DEF Unload, Stopped, StopFails, StopRaises, Hit
<1>. QED BY <1>1, <1>2, <1>3

LEMMA LeaseStep == LeaseInv /\ [Next]_vars => LeaseInv'
<1>. SUFFICES ASSUME LeaseInv, [Next]_vars PROVE LeaseInv'
  OBVIOUS
<1>1. CASE UNCHANGED vars
  BY <1>1 DEF vars, broker, client, LeaseInv, TypeOK, LeaseHeld, GrantHeld, Decided
<1>. QED
  BY <1>1, InstallStep, LoadStep, BeginStep, ReleaseStep, ReclaimStep, LateStep, DiesStep DEF Next

\* For any clients, runtimes, faults and bounds, what a client was told of the
\* lease stays true until it has started on it, and after that for as long as
\* its server runs, with the exceptions that LeaseHeld names.
THEOREM LeaseKept == Spec => []LeaseInv
BY LeaseInit, LeaseStep, PTL DEF Spec

\* Every variable of the clients has its type; a load asks twice at most.
THEOREM ClientTypeCorrect == Spec => []TypeOK
<1>1. LeaseInv => TypeOK
  BY DEF LeaseInv
<1>. QED BY <1>1, LeaseKept, PTL

\* A server that runs without a warning has the lease, whatever calls are lost,
\* late or repeated, unless it was forced away, or released under the server by
\* another, by a late call, or after a stop that failed unnoticed.
THEOREM LeaseHeldAlways == Spec => []LeaseHeld
<1>1. LeaseInv => LeaseHeld
  BY DEF LeaseInv
<1>. QED BY <1>1, LeaseKept, PTL

-----------------------------------------------------------------------------
(* Why wingpu goes without a lease *)

\* While nothing has excused wingpu, nobody else uploads, a broker it has
\* installed works, and only the first call of a load may come to nothing.
Reason(c) ==
    c \in Wingpu \ excused /\ pc[c] \notin {"idle", "release", "failed"} =>
        /\ \A o \in Clients : pc[o] = "upload" => o = c
        /\ pc[c] # "refused"
        /\ pc[c] \in {"verify", "installed"} => script_works
        /\ pc[c] = "acquire" /\ (mode[c] = "keep" \/ tries[c] = 1) => script_works
        /\ pc[c] = "answered" /\ answer[c] = "none" => mode[c] = "load" /\ tries[c] = 1
        /\ pc[c] \in {"answered", "start"} => answer[c] # "timeout"
        /\ pc[c] = "start" => answer[c] # "none"

ReasonInv == LeaseInv /\ \A c \in Clients : Reason(c)

\* Nothing is claimed after a step that excuses everybody.
LEMMA ExcusedReason == ASSUME NEW c \in Clients, Excuse PROVE Reason(c)'
BY ClientsAssumption DEF Reason, Excuse

LEMMA ReasonInstall ==
    ASSUME ReasonInv, NEW c \in Clients, Install(c), NEW d \in Clients PROVE Reason(d)'
<1>. USE DEF ReasonInv, LeaseInv, TypeOK, Go, broker
<1>1. CASE Excuse
  BY <1>1, ExcusedReason
<1>2. CASE NoFault /\ EnsureInstalled(c)
  <2>1. PICK to \in {"installed", "write", "refused"} :
           /\ pc' = [pc EXCEPT ![c] = to]
           /\ to = "installed" => script = "current"
           /\ c \in Wingpu => to # "refused"
    BY <1>2 DEF EnsureInstalled, NoFault, Hit
  <2>2. UNCHANGED <<script, mode, tries, answer, excused>>
    BY <1>2 DEF EnsureInstalled, NoFault
  <2>3. CASE d = c
    BY <1>2, <2>1, <2>2, <2>3 DEF EnsureInstalled, Reason, script_works
  <2>4. CASE d # c
    BY <2>1, <2>2, <2>4 DEF Reason, script_works
  <2>. QED BY <2>3, <2>4
<1>3. CASE WriteBegin(c)
  <2>1. CASE d = c
    BY <1>3, <2>1 DEF WriteBegin, Reason, Uploading
  <2>2. CASE d # c
    BY <1>3, <2>2 DEF WriteBegin, Reason
  <2>. QED BY <2>1, <2>2
<1>4. CASE NoFault /\ WriteEnd(c)
  <2>1. /\ pc[c] = "upload" /\ pc' = [pc EXCEPT ![c] = "verify"]
        /\ UNCHANGED <<mode, tries, answer, excused>>
        /\ (\A o \in Clients : pc[o] = "upload" => o = c) => script' = "current"
    BY <1>4 DEF NoFault, Hit, WriteEnd, Uploading
  <2>2. CASE d = c
    BY <2>1, <2>2 DEF Reason, script_works
  <2>3. CASE d # c
    BY <2>1, <2>3 DEF Reason
  <2>. QED BY <2>2, <2>3
<1>5. CASE NoFault /\ Verify(c)
  <2>1. /\ pc[c] = "verify" /\ pc' = [pc EXCEPT ![c] = IF script_works THEN "installed" ELSE "refused"]
        /\ UNCHANGED <<script, mode, tries, answer, excused>>
    BY <1>5, ClientsAssumption DEF NoFault, Hit, Verify
  <2>2. CASE d = c
    BY <2>1, <2>2 DEF Reason, script_works
  <2>3. CASE d # c
    BY <2>1, <2>3 DEF Reason, script_works
  <2>. QED BY <2>2, <2>3
<1>. QED BY <1>1, <1>2, <1>3, <1>4, <1>5 DEF Install, EnsureInstalled, WriteEnd, Verify

LEMMA ReasonAcquire ==
    ASSUME ReasonInv, NEW c \in Clients, Acquire(c), NEW d \in Clients PROVE Reason(d)'
<1>. USE DEF ReasonInv, LeaseInv, TypeOK
<1>1. PICK no_evict \in BOOLEAN, force \in BOOLEAN : AcquireCall(c, no_evict, force)
  BY DEF Acquire
<1>2. CASE Excuse
  BY <1>2, ExcusedReason
<1>3. CASE NoFault
  <2>1. PICK a \in {"none", "granted", "denied"} :
           answer' = [answer EXCEPT ![c] = a] /\ (a = "none" => ~script_works)
    BY <1>1, <1>3 DEF AcquireCall, NoFault, Hit
  <2>2. CASE d = c
    BY <1>3, <2>1, <2>2 DEF NoFault, Acquire, Go, Reason, Uploading, Decided
  <2>3. CASE d # c
    BY <1>3, <2>1, <2>3 DEF NoFault, Acquire, Go, Reason, Uploading, script_works
  <2>. QED BY <2>2, <2>3
<1>. QED BY <1>1, <1>2, <1>3 DEF AcquireCall

LEMMA ReasonRelease ==
    ASSUME ReasonInv, NEW c \in Clients, Release(c), NEW d \in Clients PROVE Reason(d)'
<1>. USE DEF ReasonInv, LeaseInv, TypeOK
<1>1. CASE Excuse
  BY <1>1, ExcusedReason
<1>2. CASE UNCHANGED excused
  BY <1>2 DEF Release, Go, Reason, Uploading, script_works
<1>. QED BY <1>1, <1>2 DEF Release, broker

LEMMA ReasonLoad ==
    ASSUME ReasonInv, NEW c \in Clients, Load(c), NEW d \in Clients PROVE Reason(d)'
<1>. USE DEF ReasonInv, LeaseInv, TypeOK, Go, broker
<1>1. CASE Installed(c)
  BY <1>1 DEF Installed, Reason, Uploading, script_works
<1>2. CASE Refused(c)
  BY <1>2 DEF Refused, Reason, Uploading, script_works
<1>3. CASE Answered(c)
  BY <1>3 DEF Answered, Retries, Reason, Uploading, script_works
<1>4. CASE Start(c)
  BY <1>4 DEF Start, Reason, Uploading, script_works
<1>5. CASE Failed(c)
  BY <1>5 DEF Failed, Reason, Uploading, script_works
<1>. QED BY <1>1, <1>2, <1>3, <1>4, <1>5, ReasonAcquire DEF Load

LEMMA ReasonBegin ==
    ASSUME ReasonInv, NEW c \in Clients, WingpuLoad(c) \/ SiblingLoad(c) \/ Unload(c),
           NEW d \in Clients
    PROVE  Reason(d)'
<1>. USE DEF ReasonInv, LeaseInv, TypeOK, Go, broker, Reason, Uploading, script_works
<1>1. CASE WingpuLoad(c)
  BY <1>1 DEF WingpuLoad, NewLoad, Stopped, StopFails, StopRaises, Hit
<1>2. CASE SiblingLoad(c)
  BY <1>2 DEF SiblingLoad, NewLoad
<1>3. CASE Unload(c)
  BY <1>3 DEF Unload
<1>. QED BY <1>1, <1>2, <1>3

LEMMA ReasonStep == ReasonInv /\ [Next]_vars => ReasonInv'
<1>. SUFFICES ASSUME ReasonInv, [Next]_vars, NEW d \in Clients PROVE Reason(d)'
  BY LeaseStep DEF ReasonInv
<1>1. CASE Reclaim \/ LateCall \/ ServerDies \/ UNCHANGED vars
  BY <1>1 DEF ReasonInv, Reclaim, LateCall, ServerDies, vars, client, Reason, Uploading, script_works
<1>. QED
  BY <1>1, ReasonInstall, ReasonLoad, ReasonBegin, ReasonRelease DEF Next

\* wingpu goes without a lease only if a call failed or somebody else was
\* uploading, for any clients, faults and bounds: a missing, old or half
\* uploaded broker is repaired, and asked.
THEOREM WarnedForReasonAlways == Spec => WarnedForReason
<1>1. Init => ReasonInv
  BY LeaseInit DEF ReasonInv, Init, Reason
<1>2. ReasonInv => \A c \in Wingpu : Start(c) /\ answer[c] \notin {"granted", "denied"} => c \in excused
  BY ClientsAssumption DEF ReasonInv, LeaseInv, TypeOK, Reason, Start
<1>3. ReasonInv /\ [Next]_vars
         => [\A c \in Wingpu : Start(c) /\ answer[c] \notin {"granted", "denied"} => c \in excused]_vars
  BY <1>2
<1>. QED BY <1>1, <1>3, ReasonStep, PTL DEF Spec, WarnedForReason
=============================================================================
