------------------------------ MODULE RelayProofs ------------------------------
(***************************************************************************)
(* Lemmas about the relay and its users, whatever program they belong to.  *)
(* A user's operations and a relay's own steps keep their types, and, as   *)
(* long as no operation begins in the middle of another or of what it left *)
(* behind, there is one relay at most and the pidfile names it when it     *)
(* listens for good.                                                       *)
(***************************************************************************)
EXTENDS Relay, TLAPS

-----------------------------------------------------------------------------
(* Types *)

\* What becomes of a relay's pidfile when a user writes it, and of a child.
LEMMA UserType ==
    ASSUME RelayTypeOK, NEW u \in Users,
           EnsureLook(u) \/ StopSignal(u) \/ Ensuring(u) \/ StopUnlink(u)
    PROVE  RelayTypeOK'
<1>. USE DEF RelayTypeOK, Step
<1>1. CASE EnsureLook(u)
  BY <1>1 DEF EnsureLook, Begins
<1>2. CASE StopSignal(u)
  <2>1. relay' \in [Relays -> {"unborn", "forked", "bound", "named", "serving", "told", "closing", "dead"}]
    BY <1>2 DEF StopSignal, AfterTerm
  <2>. QED BY <1>2, <2>1 DEF StopSignal, Begins
<1>3. CASE StopUnlink(u)
  BY <1>3 DEF StopUnlink
<1>4. CASE EnsureClear(u) \/ EnsurePort(u) \/ EnsureWait(u)
  BY <1>4 DEF EnsureClear, EnsurePort, EnsureWait
<1>5. CASE EnsureSpawn(u)
  BY <1>5 DEF EnsureSpawn, RelayGoes
<1>6. CASE EnsureWrite(u)
  BY <1>6 DEF EnsureWrite
<1>. QED BY <1>1, <1>2, <1>3, <1>4, <1>5, <1>6 DEF Ensuring

\* A relay's own steps, its end included.
LEMMA RelayType ==
    ASSUME RelayTypeOK, NEW r \in Relays, ServeRelay(r) \/ RelayCrash(r) PROVE RelayTypeOK'
BY DEF RelayTypeOK, ServeRelay, RelayBind, RelayWritePid, RelayReady, RelayUnlink, RelayExit,
       RelayCrash, RelayGoes

-----------------------------------------------------------------------------
(* One relay, and the pidfile names it *)

\* Relays that have the port, are about to take it or still write to the pidfile.
Active == {r \in Relays : relay[r] \in {"forked", "bound", "named", "serving", "told"}}

Looked == {"clear", "port", "spawn"}

\* The parts: one operation at a time; one relay at a time; none when an ensure
\* has looked; the child of the ensure that spawned it; told by the stop that
\* signalled it; and a relay that has written the pidfile is named there.
NamedInv ==
    ~crossed =>
        /\ \A u, v \in Users : at[u] # "idle" /\ at[v] # "idle" => u = v
        /\ \A r, s \in Active : r = s
        /\ \A u \in Users :
              /\ at[u] \in Looked => Active = {}
              /\ at[u] = "write" => Active \subseteq {child[u]}
              /\ at[u] = "unlink" => \A r \in Active : relay[r] = "told"
        /\ \A r \in Relays : relay[r] \in {"named", "serving"} => tunnel_pid = r

\* A relay goes on by itself, or dies.
LEMMA RelayKeepsNamed ==
    ASSUME RelayTypeOK, NamedInv, NEW r \in Relays, ServeRelay(r) \/ RelayCrash(r)
    PROVE  NamedInv'
<1>. SUFFICES ASSUME ~crossed PROVE NamedInv'
  BY DEF NamedInv, ServeRelay, RelayBind, RelayWritePid, RelayReady, RelayUnlink, RelayExit, RelayCrash
<1>1. UNCHANGED <<at, child>> /\ \A s \in Relays : s # r => relay'[s] = relay[s]
  BY DEF RelayTypeOK, ServeRelay, RelayBind, RelayWritePid, RelayReady, RelayUnlink, RelayExit,
         RelayCrash, RelayGoes
<1>2. /\ r \in Active \/ relay'[r] = "dead"
      /\ relay'[r] # "told"
  BY DEF Active, RelayTypeOK, ServeRelay, RelayBind, RelayWritePid, RelayReady, RelayUnlink, RelayExit,
         RelayCrash, RelayGoes
<1>3. Active' \subseteq Active
  BY <1>1, <1>2 DEF Active
<1>4. relay[r] = "told" => relay'[r] \in {"closing", "dead"}
  BY DEF RelayTypeOK, ServeRelay, RelayBind, RelayWritePid, RelayReady, RelayUnlink, RelayExit,
         RelayCrash, RelayGoes
<1>5. \A u \in Users :
          /\ at'[u] \in Looked => Active' = {}
          /\ at'[u] = "write" => Active' \subseteq {child'[u]}
          /\ at'[u] = "unlink" => \A s \in Active' : relay'[s] = "told"
  BY <1>1, <1>3, <1>4 DEF NamedInv, Active
<1>6. \A s \in Relays : relay'[s] \in {"named", "serving"} => tunnel_pid' = s
  <2>1. CASE RelayWritePid(r) \/ RelayUnlink(r)
    <3>1. r \in Active
      BY <2>1 DEF Active, RelayWritePid, RelayUnlink, RelayGoes
    <3>2. \A s \in Relays : s # r => relay'[s] \notin {"named", "serving"}
      BY <1>1, <3>1 DEF NamedInv, Active
    <3>. QED BY <2>1, <3>2 DEF RelayTypeOK, RelayWritePid, RelayUnlink, RelayGoes
  <2>2. CASE RelayBind(r) \/ RelayReady(r) \/ RelayExit(r) \/ RelayCrash(r)
    BY <1>1, <2>2 DEF NamedInv, RelayTypeOK, RelayBind, RelayReady, RelayExit, RelayCrash, RelayGoes
  <2>. QED BY <2>1, <2>2 DEF ServeRelay
<1>. QED BY <1>1, <1>3, <1>5, <1>6 DEF NamedInv

\* A user that begins, while nobody else is at work.
LEMMA BeginsAlone ==
    ASSUME RelayTypeOK, NamedInv, NEW u \in Users, Begins(u), ~crossed'
    PROVE  /\ ~crossed /\ \A v \in Users : at[v] = "idle"
           /\ \A r \in Active : relay[r] \in {"named", "serving"} /\ tunnel_pid = r
<1>1. ~crossed /\ InTransit = {} /\ \A v \in Users : at[v] = "idle"
  BY DEF Begins
<1>. QED BY <1>1 DEF NamedInv, InTransit, Active

\* A user's step.
LEMMA UserKeepsNamed ==
    ASSUME RelayTypeOK, NamedInv, NEW u \in Users,
           EnsureLook(u) \/ StopSignal(u) \/ Ensuring(u) \/ StopUnlink(u)
    PROVE  NamedInv'
<1>. SUFFICES ASSUME ~crossed' PROVE NamedInv'
  BY DEF NamedInv
<1>1. ~crossed
  BY DEF EnsureLook, StopSignal, Ensuring, StopUnlink, Begins, EnsureClear, EnsurePort, EnsureSpawn,
         EnsureWrite, EnsureWait
<1>2. \A v \in Users : v # u => at'[v] = at[v] /\ child'[v] = child[v]
  BY DEF RelayTypeOK, EnsureLook, StopSignal, Ensuring, StopUnlink, EnsureClear, EnsurePort, EnsureSpawn,
         EnsureWrite, EnsureWait, Step
<1>3. CASE EnsureLook(u)
  <2>1. \A v \in Users : at[v] = "idle"
    BY <1>3, BeginsAlone DEF EnsureLook
  <2>2. UNCHANGED <<relay, tunnel_pid, child>> /\ Active' = Active
    BY <1>3 DEF EnsureLook, Active
  <2>3. at'[u] \in Looked => Active = {}
    <3>1. at'[u] # "idle" => ~backend_relay_running
      BY <1>3, <2>1 DEF EnsureLook
    <3>2. \A r \in Active : r \in Listening /\ r \in RelaysAlive /\ tunnel_pid = r
      BY <1>3, BeginsAlone DEF EnsureLook, Listening, RelaysAlive, Active
    <3>3. Active # {} => backend_relay_running
      BY <3>2 DEF backend_relay_running, backend_port_in_use
    <3>. QED BY <3>1, <3>3 DEF Looked
  <2>4. at'[u] \in {"idle", "clear"}
    BY <1>3, <2>1 DEF EnsureLook, Step, RelayTypeOK
  <2>. QED BY <1>1, <1>2, <2>1, <2>2, <2>3, <2>4 DEF NamedInv, Looked
<1>4. CASE StopSignal(u)
  <2>1. /\ \A v \in Users : at[v] = "idle"
        /\ \A r \in Active : relay[r] \in {"named", "serving"} /\ tunnel_pid = r
    BY <1>4, BeginsAlone DEF StopSignal
  <2>2. /\ UNCHANGED <<tunnel_pid, child>>
        /\ \A r \in Relays : relay'[r] = IF r = tunnel_pid THEN AfterTerm(relay[r]) ELSE relay[r]
    BY <1>4 DEF StopSignal
  <2>3. Active' \subseteq Active /\ \A r \in Active' : relay'[r] = "told"
    BY <2>1, <2>2 DEF Active, AfterTerm, RelayTypeOK
  <2>4. at'[u] \in {"idle", "unlink"}
    BY <1>4 DEF StopSignal, Step, RelayTypeOK
  <2>5. \A r \in Relays : relay'[r] \notin {"named", "serving"}
    BY <2>3 DEF Active
  <2>6. \A r, s \in Active' : r = s
    BY <1>1, <2>3 DEF NamedInv
  <2>. QED BY <1>2, <2>1, <2>2, <2>3, <2>4, <2>5, <2>6 DEF NamedInv, Looked
<1>5. ASSUME at[u] # "idle" PROVE \A v \in Users : v # u => at[v] = "idle"
  BY <1>1, <1>5 DEF NamedInv
<1>6. CASE StopUnlink(u)
  <2>1. /\ UNCHANGED <<relay, child>> /\ Active' = Active /\ at[u] = "unlink"
        /\ at'[u] = "idle"
    BY <1>6 DEF StopUnlink, Active, Step, RelayTypeOK
  <2>2. \A r \in Relays : relay[r] \notin {"named", "serving"}
    BY <1>1, <2>1 DEF NamedInv, Active
  <2>. QED BY <1>1, <1>2, <1>5, <2>1, <2>2 DEF NamedInv, Looked
<1>7. CASE EnsureClear(u) \/ EnsurePort(u)
  <2>1. /\ UNCHANGED <<relay, child>> /\ Active' = Active /\ at[u] \in Looked /\ at[u] # "idle"
        /\ at'[u] \in {"idle", "port", "spawn"}
    BY <1>7 DEF EnsureClear, EnsurePort, Active, Looked, Step, RelayTypeOK
  <2>2. Active = {}
    BY <1>1, <2>1 DEF NamedInv
  <2>3. \A r \in Relays : relay[r] \notin {"named", "serving"}
    BY <2>2 DEF Active
  <2>. QED BY <1>1, <1>2, <1>5, <2>1, <2>2, <2>3 DEF NamedInv, Looked
<1>8. CASE EnsureSpawn(u)
  <2>1. PICK f \in Relays : RelayGoes(f, "unborn", "forked") /\ child' = [child EXCEPT ![u] = f]
    BY <1>8 DEF EnsureSpawn
  <2>2. at[u] = "spawn" /\ at'[u] = "write" /\ UNCHANGED tunnel_pid /\ child'[u] = f
    BY <1>8, <2>1 DEF EnsureSpawn, Step, RelayTypeOK
  <2>3. Active = {}
    BY <1>1, <2>2 DEF NamedInv, Looked
  <2>4. Active' = {f} /\ \A r \in Relays : relay'[r] \notin {"named", "serving"}
    BY <2>1, <2>3 DEF Active, RelayGoes, RelayTypeOK
  <2>. QED BY <1>2, <1>5, <2>2, <2>4 DEF NamedInv, Looked
<1>9. CASE EnsureWrite(u)
  <2>1. /\ UNCHANGED <<relay, child>> /\ Active' = Active /\ at[u] = "write" /\ at'[u] = "wait"
        /\ tunnel_pid' = child[u]
    BY <1>9 DEF EnsureWrite, Active, Step, RelayTypeOK
  <2>2. Active \subseteq {child[u]}
    BY <1>1, <2>1 DEF NamedInv
  <2>3. \A r \in Relays : relay[r] \in {"named", "serving"} => r = child[u]
    BY <2>2 DEF Active
  <2>. QED BY <1>1, <1>2, <1>5, <2>1, <2>2, <2>3 DEF NamedInv, Looked
<1>10. CASE EnsureWait(u)
  <2>1. UNCHANGED <<relay, tunnel_pid>> /\ Active' = Active /\ at[u] = "wait" /\ at'[u] = "idle"
    BY <1>10 DEF EnsureWait, Active, Step, RelayTypeOK
  <2>. QED BY <1>1, <1>2, <1>5, <2>1 DEF NamedInv, Looked
<1>. QED BY <1>3, <1>4, <1>6, <1>7, <1>8, <1>9, <1>10 DEF Ensuring

\* The invariant says what a user may rely on.
LEMMA NamedSuffices == NamedInv => RelayNamed
BY DEF NamedInv, RelayNamed, InTransit, Listening
=============================================================================
