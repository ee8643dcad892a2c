---------------------------- MODULE DebugProfile ----------------------------
(***************************************************************************)
(* The profiling services of debug_profile/debug_profile.go.               *)
(*                                                                         *)
(* A service (profileMux) serves HTTP.  A request to /rp starts one worker *)
(* per profile kind it asks for, waits for all of them and replies.  The   *)
(* service's started word lets one such session run at a time.  A worker   *)
(* creates its file, turns its profile on, waits for a timer or for the    *)
(* service's context, and turns it off again.  What the workers turn on    *)
(* and off (samplers and rates) belongs to the whole process, so services  *)
(* and DoTrace share it.  log.Fatalf ends the process.                     *)
(***************************************************************************)
EXTENDS Integers, FiniteSets

CONSTANTS
  Services,     \* the profileMux values
  CtxServices,  \* those made by StartProfileWithContxt, which have no timer
  Outputs,      \* service -> the kinds it has an output path for
  Requests,     \* goroutines net/http runs ServeHTTP on
  Queries,      \* the mode lists requests come with, as sets of numbers
  Tracers,      \* application goroutines that call DoTrace
  AppRate,      \* the MemProfileRate the application runs with
  AppBlockRate, \* the rate it has given to SetBlockProfileRate, 0 if none
  Nobody        \* no owner

\* The MODE_DEBUG_PROFILE_ constants; the last four are the kinds.
ALL == 0
CPU == 1
MEM == 2
BLOCK == 3
TRACE == 4

Kinds == {CPU, MEM, BLOCK, TRACE}

\* cpu and trace profiles are started and stopped, and write to their file in
\* between.  mem and block ones set a rate and write when the time is over.
Sampled == {CPU, TRACE}
Rated == {MEM, BLOCK}

ASSUME ProfileAssumption ==
  /\ CtxServices \subseteq Services
  /\ Outputs \in [Services -> SUBSET Kinds]
  /\ Queries \subseteq SUBSET Nat
  /\ AppRate \in Nat /\ AppBlockRate \in Nat
  /\ Nobody \notin Requests \union Tracers
  /\ Requests \intersect Tracers = {}

\* MemProfileRate while a session samples the heap, SetBlockProfileRate(1).
SessionRate == [k \in Rated |-> IF k = MEM THEN 4096 ELSE 1]

-----------------------------------------------------------------------------
VARIABLES
  serving,    \* services whose ListenAndServe has begun
  cancelled,  \* services whose context is done
  started,    \* service -> p.started
  hpc,        \* request -> where ServeHTTP is
  svc,        \* request -> its service
  todo,       \* request -> the modes it has not looked at yet
  wg,         \* request -> the counter of its WaitGroup
  wpc,        \* request -> kind -> where that worker is
  old,        \* request -> old, in ProfileMEM
  sampler,    \* cpu and trace -> who started the profile that is running
  rate,       \* mem and block -> the runtime's rate
  tpc,        \* tracer -> where DoTrace or the function it returned is
  crashed     \* log.Fatalf was called

handlers == <<started, hpc, svc, todo>>
globals == <<sampler, rate>>
vars == <<serving, cancelled, handlers, wg, wpc, old, globals, tpc, crashed>>

Init ==
  /\ serving = {}
  /\ cancelled = {}
  /\ started = [s \in Services |-> 0]
  /\ hpc = [r \in Requests |-> "idle"]
  /\ svc = [r \in Requests |-> Nobody]
  /\ todo = [r \in Requests |-> {}]
  /\ wg = [r \in Requests |-> 0]
  /\ wpc = [r \in Requests |-> [k \in Kinds |-> "none"]]
  /\ old = [r \in Requests |-> 0]
  /\ sampler = [k \in Sampled |-> Nobody]
  /\ rate = [k \in Rated |-> IF k = MEM THEN AppRate ELSE AppBlockRate]
  /\ tpc = [t \in Tracers |-> "idle"]
  /\ crashed = FALSE

Crash ==
  /\ crashed' = TRUE
  /\ UNCHANGED <<serving, cancelled, handlers, wg, wpc, old, globals, tpc>>

-----------------------------------------------------------------------------
(* Services and the context.                                               *)

Listen(s) ==
  /\ s \notin serving
  /\ serving' = serving \union {s}
  /\ UNCHANGED <<cancelled, handlers, wg, wpc, old, globals, tpc, crashed>>

\* ListenAndServe returns, at once since the port is taken or later on:
\* "Profile  Server Failed".
ListenFails(s) == s \in Services /\ Crash

Cancel(s) ==
  /\ s \in CtxServices \ cancelled
  /\ cancelled' = cancelled \union {s}
  /\ UNCHANGED <<serving, handlers, wg, wpc, old, globals, tpc, crashed>>

-----------------------------------------------------------------------------
(* ServeHTTP, on path /rp.  (Any other path is not found and changes       *)
(* nothing.)                                                               *)

\* Seeded fault: started is set without the compare.
AcceptAnyway(r, s, q) ==
  /\ hpc[r] = "idle"
  /\ s \in serving
  /\ started' = [started EXCEPT ![s] = 1]
  /\ hpc' = [hpc EXCEPT ![r] = "spawn"]
  /\ svc' = [svc EXCEPT ![r] = s]
  /\ todo' = [todo EXCEPT ![r] = q]
  /\ UNCHANGED <<serving, cancelled, wg, wpc, old, globals, tpc, crashed>>

\* CompareAndSwapUint32(&p.started, 0, 1) wins; the store of 1 after it
\* changes nothing.
Accept(r, s, q) ==
  /\ hpc[r] = "idle"
  /\ s \in serving
  /\ started[s] = 0
  /\ started' = [started EXCEPT ![s] = 1]
  /\ hpc' = [hpc EXCEPT ![r] = "spawn"]
  /\ svc' = [svc EXCEPT ![r] = s]
  /\ todo' = [todo EXCEPT ![r] = q]
  /\ UNCHANGED <<serving, cancelled, wg, wpc, old, globals, tpc, crashed>>

\* "profile service already called".
Refuse(r, s) ==
  /\ hpc[r] = "idle"
  /\ s \in serving
  /\ started[s] # 0
  /\ UNCHANGED vars

\* The kinds the request asks for, the first one first.
Wanted(r) == todo[r] \intersect Kinds
IsFirst(r, k) == k \in Wanted(r) /\ \A j \in Wanted(r) : k <= j

\* Seeded fault: wg.Add(1) is missing.
SpawnUncounted(r, k) ==
  /\ hpc[r] = "spawn"
  /\ IsFirst(r, k)
  /\ wpc' = [wpc EXCEPT ![r][k] = "start"]
  /\ todo' = [todo EXCEPT ![r] = @ \ {k}]
  /\ UNCHANGED <<serving, cancelled, started, hpc, svc, wg, old, globals, tpc,
                 crashed>>

\* wg.Add(1) and the go statement.
Spawn(r, k) ==
  /\ hpc[r] = "spawn"
  /\ IsFirst(r, k)
  /\ wg' = [wg EXCEPT ![r] = @ + 1]
  /\ wpc' = [wpc EXCEPT ![r][k] = "start"]
  /\ todo' = [todo EXCEPT ![r] = @ \ {k}]
  /\ UNCHANGED <<serving, cancelled, started, hpc, svc, old, globals, tpc,
                 crashed>>

\* wg.Wait returns: every kind asked for was spawned and the counter is 0.
Wait(r) ==
  /\ hpc[r] = "spawn"
  /\ Wanted(r) = {}
  /\ wg[r] = 0
  /\ hpc' = [hpc EXCEPT ![r] = "waited"]
  /\ UNCHANGED <<serving, cancelled, started, svc, todo, wg, wpc, old, globals,
                 tpc, crashed>>

\* StoreUint32(&p.started, 0) and "profile finish".
Finish(r) ==
  /\ hpc[r] = "waited"
  /\ started' = [started EXCEPT ![svc[r]] = 0]
  /\ hpc' = [hpc EXCEPT ![r] = "idle"]
  /\ svc' = [svc EXCEPT ![r] = Nobody]
  /\ todo' = [todo EXCEPT ![r] = {}]
  /\ UNCHANGED <<serving, cancelled, wg, wpc, old, globals, tpc, crashed>>

-----------------------------------------------------------------------------
(* The workers: ProfileCPU, ProfileMEM, ProfileBlock, ProfileTrace.        *)

\* Worker k of r moves from one place to another, in its own frame.
Move(r, k, from, to) ==
  /\ wpc[r][k] = from
  /\ wpc' = [wpc EXCEPT ![r][k] = to]
  /\ UNCHANGED <<serving, cancelled, handlers, tpc, crashed>>

Done(r) == wg' = [wg EXCEPT ![r] = @ - 1]

\* Seeded fault: the branch without a path forgets wg.Done().
SkipUncounted(r, k) ==
  /\ Move(r, k, "start", "none")
  /\ k \notin Outputs[svc[r]]
  /\ UNCHANGED <<wg, old, globals>>

\* The service has no path for this kind.
Skip(r, k) ==
  /\ Move(r, k, "start", "none")
  /\ k \notin Outputs[svc[r]]
  /\ Done(r)
  /\ UNCHANGED <<old, globals>>

Create(r, k) ==
  /\ Move(r, k, "start", "created")
  /\ k \in Outputs[svc[r]]
  /\ UNCHANGED <<wg, old, globals>>

\* "profile: could not create ... profile".
CreateFails(r, k) ==
  /\ wpc[r][k] = "start"
  /\ k \in Outputs[svc[r]]
  /\ Crash

\* pprof.StartCPUProfile or trace.Start, whose error when one is running
\* already is ignored.
StartSampler(r, k) ==
  /\ k \in Sampled
  /\ Move(r, k, "created", "armed")
  /\ sampler' = [sampler EXCEPT ![k] = IF @ = Nobody THEN r ELSE @]
  /\ UNCHANGED <<wg, old, rate>>

\* Seeded fault: old is read after the rate was set.
SaveRateLate(r) ==
  /\ Move(r, MEM, "created", "saved")
  /\ old' = [old EXCEPT ![r] = SessionRate[MEM]]
  /\ UNCHANGED <<wg, globals>>

\* old := runtime.MemProfileRate.
SaveRate(r) ==
  /\ Move(r, MEM, "created", "saved")
  /\ old' = [old EXCEPT ![r] = rate[MEM]]
  /\ UNCHANGED <<wg, globals>>

SetRate(r, k) ==
  /\ k \in Rated
  /\ Move(r, k, IF k = MEM THEN "saved" ELSE "created", "armed")
  /\ rate' = [rate EXCEPT ![k] = SessionRate[k]]
  /\ UNCHANGED <<wg, old, sampler>>

\* The timer of time.AfterFunc may fire, or <-p.ctx.Done() returns.
TimeIsUp(r) == svc[r] \in CtxServices => svc[r] \in cancelled

\* Seeded fault: the profile is not stopped.
LeaveSampler(r, k) ==
  /\ k \in Sampled
  /\ TimeIsUp(r)
  /\ Move(r, k, "armed", "written")
  /\ UNCHANGED <<wg, old, globals>>

\* pprof.StopCPUProfile or trace.Stop, which stops whatever is running.
StopSampler(r, k) ==
  /\ k \in Sampled
  /\ TimeIsUp(r)
  /\ Move(r, k, "armed", "written")
  /\ sampler' = [sampler EXCEPT ![k] = Nobody]
  /\ UNCHANGED <<wg, old, rate>>

\* pprof.Lookup(...).WriteTo(f, 0).
Dump(r, k) ==
  /\ k \in Rated
  /\ TimeIsUp(r)
  /\ Move(r, k, "armed", "written")
  /\ UNCHANGED <<wg, old, globals>>

Close(r, k) ==
  /\ Move(r, k, "written", "closed")
  /\ UNCHANGED <<wg, old, globals>>

\* MemProfileRate is set to what it was; SetBlockProfileRate(0), whatever the
\* block rate was.
RestoreRate(r, k) ==
  /\ k \in Rated
  /\ Move(r, k, "closed", "restored")
  /\ rate' = [rate EXCEPT ![k] = IF k = MEM THEN old[r] ELSE 0]
  /\ UNCHANGED <<wg, old, sampler>>

\* Seeded fault: wg.Done() is deferred and called as well.
EndTwice(r, k) ==
  /\ Move(r, k, IF k \in Rated THEN "restored" ELSE "closed", "none")
  /\ wg' = [wg EXCEPT ![r] = @ - 2]
  /\ UNCHANGED <<old, globals>>

\* wg.Done(), the worker's last statement.
End(r, k) ==
  /\ Move(r, k, IF k \in Rated THEN "restored" ELSE "closed", "none")
  /\ Done(r)
  /\ UNCHANGED <<old, globals>>

-----------------------------------------------------------------------------
(* DoTrace and the function it returns.                                    *)

TracerMove(t, from, to) ==
  /\ tpc[t] = from
  /\ tpc' = [tpc EXCEPT ![t] = to]
  /\ UNCHANGED <<serving, cancelled, handlers, wg, wpc, old, rate, crashed>>

TraceCreate(t) == TracerMove(t, "idle", "created") /\ UNCHANGED sampler

\* os.Create or, later, the flush or the close fails.
TraceFails(t) == tpc[t] \in {"idle", "tracing"} /\ Crash

TraceStart(t) ==
  /\ TracerMove(t, "created", "tracing")
  /\ sampler' = [sampler EXCEPT ![TRACE] = IF @ = Nobody THEN t ELSE @]

\* flush(): flushes the buffer and closes the file, with the trace still on.
TraceFlush(t) == TracerMove(t, "tracing", "flushed") /\ UNCHANGED sampler

TraceStop(t) ==
  /\ TracerMove(t, "flushed", "idle")
  /\ sampler' = [sampler EXCEPT ![TRACE] = Nobody]

-----------------------------------------------------------------------------
Handler(r) == (\E k \in Kinds : Spawn(r, k)) \/ Wait(r) \/ Finish(r)

Worker(r, k) ==
  \/ Skip(r, k) \/ Create(r, k) \/ CreateFails(r, k)
  \/ StartSampler(r, k) \/ StopSampler(r, k)
  \/ (k = MEM /\ SaveRate(r)) \/ SetRate(r, k) \/ Dump(r, k)
  \/ Close(r, k) \/ RestoreRate(r, k) \/ End(r, k)

Tracer(t) ==
  \/ TraceCreate(t) \/ TraceFails(t) \/ TraceStart(t)
  \/ TraceFlush(t) \/ TraceStop(t)

Client(r) == \E s \in Services : Refuse(r, s) \/ \E q \in Queries : Accept(r, s, q)

Environment == \E s \in Services : Listen(s) \/ ListenFails(s) \/ Cancel(s)

Next ==
  /\ ~ crashed
  /\ \/ Environment
     \/ \E r \in Requests : Client(r) \/ Handler(r) \/ \E k \in Kinds : Worker(r, k)
     \/ \E t \in Tracers : Tracer(t)

Spec == Init /\ [][Next]_vars

\* Goroutines that can go on do, and a timer fires when its time is over.
\* Nobody has to call or to cancel.
FairSpec ==
  /\ Spec
  /\ \A r \in Requests :
       /\ WF_vars(~ crashed /\ Handler(r))
       /\ \A k \in Kinds : WF_vars(~ crashed /\ Worker(r, k))

-----------------------------------------------------------------------------
(* Properties.                                                             *)

WorkerPlaces == {"none", "start", "created", "saved", "armed", "written",
                 "closed", "restored"}

TypeOK ==
  /\ serving \subseteq Services
  /\ cancelled \subseteq CtxServices
  /\ started \in [Services -> {0, 1}]
  /\ hpc \in [Requests -> {"idle", "spawn", "waited"}]
  /\ svc \in [Requests -> Services \union {Nobody}]
  /\ todo \in [Requests -> SUBSET Nat]
  /\ wg \in [Requests -> 0 .. Cardinality(Kinds)]
  /\ wpc \in [Requests -> [Kinds -> WorkerPlaces]]
  /\ old \in [Requests -> Nat]
  /\ sampler \in [Sampled -> Requests \union Tracers \union {Nobody}]
  /\ rate \in [Rated -> Nat]
  /\ tpc \in [Tracers -> {"idle", "created", "tracing", "flushed"}]
  /\ crashed \in BOOLEAN

Sessions(s) == {r \in Requests : hpc[r] # "idle" /\ svc[r] = s}

\* A service runs one session at a time, and answers "already called" exactly
\* while one is running.
OneSession ==
  \A s \in Services :
    /\ started[s] = 0 => Sessions(s) = {}
    /\ started[s] # 0 => \E r \in Requests : Sessions(s) = {r}

\* No worker outlives its session: when ServeHTTP replies "profile finish" all
\* files are closed and all profiles are off.
NoWorkerLeftBehind ==
  \A r \in Requests : hpc[r] # "spawn" => \A k \in Kinds : wpc[r][k] = "none"

\* The runtime hands a sampler's data to the file of the one who started it: a
\* worker's file is open as long as its sampler runs.  (DoTrace is left out:
\* the function it returns closes the file and then stops the trace.)
SamplerFileOpen ==
  \A k \in Sampled : sampler[k] \in Requests => wpc[sampler[k]][k] = "armed"

\* No kind has an output in two services, and DoTrace is not used where a
\* service traces: then nobody meets anybody else's profiles.
NothingShared ==
  /\ \A s, u \in Services : s # u => Outputs[s] \intersect Outputs[u] = {}
  /\ Tracers # {} => \A s \in Services : TRACE \notin Outputs[s]
  /\ \A t, u \in Tracers : t = u

\* A profile that is stopped is one's own: the worker's, or DoTrace's.
StopsItsOwn ==
  [][NothingShared =>
       /\ \A r \in Requests : \A k \in Sampled :
            StopSampler(r, k) => sampler[k] = r
       /\ \A t \in Tracers : TraceStop(t) => sampler[TRACE] = t]_vars

\* What a service that runs no session has left in the process: nothing is
\* sampled for it and the heap rate is the application's again.  The block rate
\* is never the session's; it is the application's until blocking is profiled,
\* and then off, since ProfileBlock saves no rate.
GlobalsRestored ==
  NothingShared =>
    \A s \in Services : started[s] = 0 =>
      /\ \A k \in Outputs[s] \intersect Sampled : sampler[k] = Nobody
      /\ MEM \in Outputs[s] => rate[MEM] = AppRate
      /\ BLOCK \in Outputs[s] => rate[BLOCK] \in {AppBlockRate, 0}

\* Every accepted request is answered, if its context is cancelled where it
\* has one, unless the process dies.
EveryRequestAnswered ==
  \A r \in Requests :
    (hpc[r] = "spawn" /\ TimeIsUp(r)) ~> (hpc[r] = "idle" \/ crashed)
=============================================================================
