------------------------- MODULE DebugProfileProofs -------------------------
(***************************************************************************)
(* Proofs about DebugProfile, for any number of services, requests and     *)
(* goroutines that trace.                                                  *)
(***************************************************************************)
EXTENDS DebugProfile, FiniteSetTheorems, TLAPS

-----------------------------------------------------------------------------
(* The inductive invariant.                                                *)

\* The workers of r that wg.Wait waits for.
Busy(r) == {k \in Kinds : wpc[r][k] # "none"}

CountOK == \A r \in Requests : wg[r] = Cardinality(Busy(r))

\* Workers belong to a session that is spawning or waiting, and a kind that the
\* request has not come to has none.
SessionOK ==
  \A r \in Requests :
    /\ hpc[r] # "idle" => svc[r] \in Services
    /\ \A k \in Kinds : wpc[r][k] # "none" => hpc[r] = "spawn" /\ k \notin todo[r]

\* A worker past its first statement has an output.
Working(r, k) == wpc[r][k] \notin {"none", "start"}
OutputOK == \A r \in Requests, k \in Kinds : Working(r, k) => k \in Outputs[svc[r]]

\* Where nothing is shared, who is about to stop a sampler is who started it.
Tracing(t) == tpc[t] \in {"tracing", "flushed"}
SamplerOK ==
  NothingShared =>
    /\ \A r \in Requests, k \in Sampled : wpc[r][k] = "armed" => sampler[k] = r
    /\ \A t \in Tracers : Tracing(t) => sampler[TRACE] = t
    /\ \A k \in Sampled : sampler[k] \in Tracers => k = TRACE /\ Tracing(sampler[k])

\* Where nothing is shared, the heap rate is the application's unless a worker
\* has set it and not yet restored it, and that one knows the application's; the
\* block rate is the application's or off unless a worker has set it.
Sets(r, k) == wpc[r][k] \in {"armed", "written", "closed"}
RateOK ==
  NothingShared =>
    /\ \A r \in Requests : wpc[r][MEM] = "saved" \/ Sets(r, MEM) => old[r] = AppRate
    /\ rate[MEM] # AppRate => \E r \in Requests : Sets(r, MEM)
    /\ rate[BLOCK] \notin {AppBlockRate, 0} => \E r \in Requests : Sets(r, BLOCK)

IInv == /\ TypeOK /\ CountOK /\ SessionOK /\ OneSession
        /\ OutputOK /\ SamplerFileOpen /\ SamplerOK /\ RateOK

-----------------------------------------------------------------------------
(* Kinds and counting.                                                     *)

LEMMA KindFacts ==
  /\ Sampled \subseteq Kinds /\ Rated \subseteq Kinds
  /\ Sampled \intersect Rated = {}
  /\ MEM \in Rated /\ BLOCK \in Rated /\ TRACE \in Sampled
  /\ MEM # BLOCK
  /\ \A k \in Rated : k = MEM \/ k = BLOCK
  /\ \A k \in Rated : SessionRate[k] \in Nat
  BY DEF Sampled, Rated, Kinds, CPU, MEM, BLOCK, TRACE, SessionRate

LEMMA FiniteKinds == IsFiniteSet(Kinds) /\ Cardinality(Kinds) \in Nat
  <1>1. IsFiniteSet({CPU, MEM, BLOCK, TRACE})
    <2>1. IsFiniteSet({}) BY FS_EmptySet
    <2>2. IsFiniteSet({} \union {CPU}) BY <2>1, FS_AddElement
    <2>3. IsFiniteSet(({} \union {CPU}) \union {MEM}) BY <2>2, FS_AddElement
    <2>4. IsFiniteSet((({} \union {CPU}) \union {MEM}) \union {BLOCK}) BY <2>3, FS_AddElement
    <2>5. IsFiniteSet(((({} \union {CPU}) \union {MEM}) \union {BLOCK}) \union {TRACE})
      BY <2>4, FS_AddElement
    <2>6. {CPU, MEM, BLOCK, TRACE} = ((({} \union {CPU}) \union {MEM}) \union {BLOCK}) \union {TRACE}
      OBVIOUS
    <2> QED BY <2>5, <2>6
  <1> QED BY <1>1, FS_CardinalityType DEF Kinds

LEMMA PartOfKinds ==
  \A S \in SUBSET Kinds :
    /\ IsFiniteSet(S)
    /\ Cardinality(S) \in 0 .. Cardinality(Kinds)
    /\ Cardinality(S) = 0 <=> S = {}
  <1> TAKE S \in SUBSET Kinds
  <1>1. IsFiniteSet(S) BY FiniteKinds, FS_Subset
  <1> QED BY <1>1, FiniteKinds, FS_Subset, FS_CardinalityType, FS_EmptySet

LEMMA BusyFacts ==
  ASSUME NEW r
  PROVE  /\ IsFiniteSet(Busy(r))
         /\ Cardinality(Busy(r)) \in Nat
         /\ Cardinality(Busy(r)) = 0 <=> Busy(r) = {}
  <1>1. Busy(r) \in SUBSET Kinds BY DEF Busy
  <1> QED BY <1>1, PartOfKinds

\* The counter of a WaitGroup stays within the kinds.
LEMMA CountBound ==
  ASSUME CountOK', wg' \in [Requests -> Int]
  PROVE  wg' \in [Requests -> 0 .. Cardinality(Kinds)]
  <1>1. \A r \in Requests : Busy(r)' \in SUBSET Kinds
    BY DEF Busy
  <1>2. \A r \in Requests : wg'[r] \in 0 .. Cardinality(Kinds)
    BY <1>1, PartOfKinds DEF CountOK
  <1> QED BY <1>2

-----------------------------------------------------------------------------
(* What a step of one worker does to the workers.                          *)

\* Worker k of r is now at place to.
Moved(r, k, to) ==
  /\ wpc' \in [Requests -> [Kinds -> WorkerPlaces]]
  /\ \A u \in Requests, j \in Kinds :
       wpc'[u][j] = IF u = r /\ j = k THEN to ELSE wpc[u][j]

LEMMA MovedFacts ==
  ASSUME TypeOK, NEW r \in Requests, NEW k \in Kinds, NEW to \in WorkerPlaces,
         wpc' = [wpc EXCEPT ![r][k] = to]
  PROVE  Moved(r, k, to)
  BY DEF TypeOK, Moved

\* A worker that goes on is still counted.
LEMMA CountSame ==
  ASSUME CountOK, NEW r \in Requests, NEW k \in Kinds, NEW to,
         Moved(r, k, to), wpc[r][k] # "none", to # "none", wg' = wg
  PROVE  CountOK'
  <1>1. \A u \in Requests : Busy(u)' = Busy(u)
    BY DEF Busy, Moved
  <1> QED BY <1>1 DEF CountOK

\* wg.Add(1) and a new worker.
LEMMA CountUp ==
  ASSUME TypeOK, CountOK, NEW r \in Requests, NEW k \in Kinds, NEW to,
         Moved(r, k, to), wpc[r][k] = "none", to # "none", wg' = [wg EXCEPT ![r] = @ + 1]
  PROVE  CountOK'
  <1>1. \A u \in Requests : u # r => Busy(u)' = Busy(u)
    BY DEF Busy, Moved
  <1>2. Busy(r)' = Busy(r) \union {k} /\ k \notin Busy(r)
    BY DEF Busy, Moved
  <1>3. Cardinality(Busy(r)') = Cardinality(Busy(r)) + 1
    BY <1>2, BusyFacts, FS_AddElement
  <1>4. wg'[r] = wg[r] + 1 /\ \A u \in Requests : u # r => wg'[u] = wg[u]
    BY DEF TypeOK
  <1> QED BY <1>1, <1>3, <1>4 DEF CountOK

\* A worker that ends and wg.Done().
LEMMA CountDown ==
  ASSUME TypeOK, CountOK, NEW r \in Requests, NEW k \in Kinds,
         Moved(r, k, "none"), wpc[r][k] # "none", Done(r)
  PROVE  CountOK'
  <1>1. \A u \in Requests : u # r => Busy(u)' = Busy(u)
    BY DEF Busy, Moved
  <1>2. Busy(r)' = Busy(r) \ {k} /\ k \in Busy(r)
    BY DEF Busy, Moved
  <1>3. Cardinality(Busy(r)') = Cardinality(Busy(r)) - 1
    BY <1>2, BusyFacts, FS_RemoveElement
  <1>4. wg'[r] = wg[r] - 1 /\ \A u \in Requests : u # r => wg'[u] = wg[u]
    BY DEF TypeOK, Done
  <1> QED BY <1>1, <1>3, <1>4 DEF CountOK

-----------------------------------------------------------------------------
(* Nobody else works for a kind in a service, nor where nothing is shared. *)

LEMMA OneUser ==
  ASSUME IInv, NothingShared,
         NEW r \in Requests, NEW u \in Requests, NEW k \in Kinds,
         Working(r, k), Working(u, k)
  PROVE  r = u
  <1>1. /\ hpc[r] # "idle" /\ svc[r] \in Services /\ k \in Outputs[svc[r]]
        /\ hpc[u] # "idle" /\ svc[u] \in Services /\ k \in Outputs[svc[u]]
    BY DEF IInv, SessionOK, OutputOK, Working
  <1>2. svc[r] = svc[u]
    BY <1>1 DEF NothingShared
  <1>3. r \in Sessions(svc[r]) /\ u \in Sessions(svc[r])
    BY <1>1, <1>2 DEF Sessions
  <1>4. started[svc[r]] # 0
    BY <1>1, <1>3 DEF IInv, OneSession
  <1> QED BY <1>1, <1>3, <1>4 DEF IInv, OneSession

\* No worker traces where somebody calls DoTrace.
LEMMA NoTraceWorker ==
  ASSUME IInv, NothingShared, Tracers # {}, NEW r \in Requests
  PROVE  ~ Working(r, TRACE)
  BY KindFacts DEF IInv, SessionOK, OutputOK, Working, NothingShared

\* A sampler that a worker finds running, of a kind nobody shares, does not exist.
LEMMA SamplerFree ==
  ASSUME IInv, NothingShared, NEW r \in Requests, NEW k \in Sampled,
         Working(r, k), wpc[r][k] # "armed"
  PROVE  sampler[k] = Nobody
  <1>1. sampler[k] \in Requests \union Tracers \union {Nobody}
    BY DEF IInv, TypeOK
  <1>2. ASSUME sampler[k] \in Requests PROVE FALSE
    <2>1. wpc[sampler[k]][k] = "armed"
      BY <1>2 DEF IInv, SamplerFileOpen
    <2>2. sampler[k] = r
      BY <1>2, <2>1, OneUser, KindFacts DEF Working
    <2> QED BY <2>1, <2>2
  <1>3. ASSUME sampler[k] \in Tracers PROVE FALSE
    BY <1>3, NoTraceWorker DEF IInv, SamplerOK
  <1> QED BY <1>1, <1>2, <1>3

-----------------------------------------------------------------------------
(* The workers' steps.                                                     *)

\* A worker that goes on leaves the sessions as they are.
LEMMA MoveFacts ==
  ASSUME IInv, NEW r \in Requests, NEW k \in Kinds, NEW from, NEW to,
         Move(r, k, from, to), from # "none",
         to \in WorkerPlaces \ {"start"}
  PROVE  /\ Moved(r, k, to)
         /\ wpc[r][k] = from
         /\ hpc[r] = "spawn" /\ svc[r] \in Services
         /\ SessionOK' /\ OneSession'
  <1>1. Moved(r, k, to)
    BY MovedFacts DEF Move, IInv
  <1>2. wpc[r][k] = from BY DEF Move
  <1>3. hpc[r] = "spawn" /\ k \notin todo[r] /\ svc[r] \in Services
    BY <1>2 DEF IInv, SessionOK
  <1>4. SessionOK'
    BY <1>1, <1>2, <1>3 DEF IInv, SessionOK, Moved, Move, handlers
  <1>5. OneSession'
    BY DEF IInv, OneSession, Sessions, Move, handlers
  <1> QED BY <1>1, <1>2, <1>3, <1>4, <1>5

LEMMA MoveOutput ==
  ASSUME IInv, NEW r \in Requests, NEW k \in Kinds, NEW from, NEW to,
         Move(r, k, from, to), Moved(r, k, to),
         from \in {"none", "start"} => to = "none" \/ k \in Outputs[svc[r]]
  PROVE  OutputOK'
  BY DEF IInv, OutputOK, Working, Moved, Move, handlers

\* What is left to show of a step in which a worker moves and its WaitGroup
\* does not change.
LEMMA MoveStep ==
  ASSUME IInv, NEW r \in Requests, NEW k \in Kinds, NEW from, NEW to,
         Move(r, k, from, to), from # "none",
         to \in WorkerPlaces \ {"none", "start"},
         from = "start" => k \in Outputs[svc[r]],
         wg' = wg,
         old' \in [Requests -> Nat],
         sampler' \in [Sampled -> Requests \union Tracers \union {Nobody}],
         rate' \in [Rated -> Nat],
         SamplerFileOpen', SamplerOK', RateOK'
  PROVE  IInv'
  <1>1. Moved(r, k, to) /\ wpc[r][k] = from /\ SessionOK' /\ OneSession'
    BY MoveFacts
  <1>2. CountOK' BY <1>1, CountSame DEF IInv
  <1>3. OutputOK' BY <1>1, MoveOutput
  <1>4. TypeOK'
    BY <1>1 DEF IInv, TypeOK, Move, Moved, handlers
  <1> QED BY <1>1, <1>2, <1>3, <1>4 DEF IInv

\* Moves that touch neither samplers nor rates.
LEMMA PlainStep ==
  ASSUME IInv, NEW r \in Requests, NEW k \in Kinds, NEW from, NEW to,
         Move(r, k, from, to), from # "none",
         to \in WorkerPlaces \ {"none", "start"},
         from = "start" => k \in Outputs[svc[r]],
         wg' = wg, sampler' = sampler, rate' = rate,
         old' \in [Requests -> Nat],
         k \in Sampled => from # "armed" /\ to # "armed",
         from \in {"armed", "written"} => to \in {"armed", "written", "closed"},
         to = "armed" => from = "armed",
         from = "closed" => to = "closed",
         NothingShared =>
           \A u \in Requests : u # r => old'[u] = old[u],
         NothingShared /\ k = MEM /\ to \in {"saved", "armed", "written", "closed"} =>
           old'[r] = AppRate,
         k # MEM => old' = old
  PROVE  IInv'
  <1>1. Moved(r, k, to) /\ wpc[r][k] = from
    BY MoveFacts
  <1>2. SamplerFileOpen'
    BY <1>1 DEF IInv, SamplerFileOpen, Moved, TypeOK, Sampled, Kinds
  <1>3. SamplerOK'
    BY <1>1, KindFacts DEF IInv, SamplerOK, Moved, Move, Tracing
  <1>4. RateOK'
    <2> SUFFICES ASSUME NothingShared PROVE RateOK'
      BY DEF RateOK, NothingShared
    <2>1. \A u \in Requests, j \in Rated : Sets(u, j) => Sets(u, j)'
      BY <1>1, KindFacts DEF Sets, Moved
    <2>2. \A u \in Requests :
            (wpc[u][MEM] = "saved" \/ Sets(u, MEM))' => old'[u] = AppRate
      BY <1>1, KindFacts DEF IInv, RateOK, Sets, Moved
    <2> QED BY <2>1, <2>2, KindFacts DEF IInv, RateOK
  <1>5. /\ sampler' \in [Sampled -> Requests \union Tracers \union {Nobody}]
        /\ rate' \in [Rated -> Nat]
    BY DEF IInv, TypeOK
  <1> QED BY <1>2, <1>3, <1>4, <1>5, MoveStep

LEMMA CreateStep ==
  ASSUME IInv, NEW r \in Requests, NEW k \in Kinds, Create(r, k)
  PROVE  IInv'
  <1>1. Move(r, k, "start", "created") /\ wg' = wg /\ old' = old
        /\ sampler' = sampler /\ rate' = rate /\ k \in Outputs[svc[r]]
    BY DEF Create, globals
  <1>2. old' \in [Requests -> Nat] BY <1>1 DEF IInv, TypeOK
  <1> QED BY <1>1, <1>2, PlainStep DEF WorkerPlaces

\* A rate that nobody has set is the application's.
LEMMA RateIsAppRate ==
  ASSUME IInv, NothingShared, NEW r \in Requests, wpc[r][MEM] = "created"
  PROVE  rate[MEM] = AppRate
  <1>1. ASSUME NEW u \in Requests, Sets(u, MEM) PROVE FALSE
    <2>1. Working(r, MEM) /\ Working(u, MEM) BY <1>1 DEF Working, Sets
    <2>2. r = u BY <2>1, OneUser, KindFacts
    <2> QED BY <1>1, <2>2 DEF Sets
  <1> QED BY <1>1 DEF IInv, RateOK

LEMMA SaveRateStep ==
  ASSUME IInv, NEW r \in Requests, SaveRate(r)
  PROVE  IInv'
  <1>1. Move(r, MEM, "created", "saved") /\ wg' = wg /\ old' = [old EXCEPT ![r] = rate[MEM]]
        /\ sampler' = sampler /\ rate' = rate
    BY DEF SaveRate, globals
  <1>2. wpc[r][MEM] = "created" BY <1>1 DEF Move
  <1>3. /\ old' \in [Requests -> Nat]
        /\ old'[r] = rate[MEM] /\ \A u \in Requests : u # r => old'[u] = old[u]
    BY <1>1, KindFacts DEF IInv, TypeOK
  <1>4. NothingShared => old'[r] = AppRate
    BY <1>2, <1>3, RateIsAppRate
  <1>5. MEM \in Kinds /\ MEM \notin Sampled BY KindFacts
  <1> QED BY <1>1, <1>3, <1>4, <1>5, PlainStep DEF WorkerPlaces

LEMMA DumpStep ==
  ASSUME IInv, NEW r \in Requests, NEW k \in Kinds, Dump(r, k)
  PROVE  IInv'
  <1>1. Move(r, k, "armed", "written") /\ wg' = wg /\ old' = old
        /\ sampler' = sampler /\ rate' = rate /\ k \notin Sampled
    BY KindFacts DEF Dump, globals
  <1>2. old' \in [Requests -> Nat] BY <1>1 DEF IInv, TypeOK
  <1>3. NothingShared /\ k = MEM => old'[r] = AppRate
    BY <1>1 DEF Move, IInv, RateOK, Sets
  <1> QED BY <1>1, <1>2, <1>3, PlainStep DEF WorkerPlaces

LEMMA CloseStep ==
  ASSUME IInv, NEW r \in Requests, NEW k \in Kinds, Close(r, k)
  PROVE  IInv'
  <1>1. Move(r, k, "written", "closed") /\ wg' = wg /\ old' = old
        /\ sampler' = sampler /\ rate' = rate
    BY DEF Close, globals
  <1>2. old' \in [Requests -> Nat] BY <1>1 DEF IInv, TypeOK
  <1>3. NothingShared /\ k = MEM => old'[r] = AppRate
    BY <1>1 DEF Move, IInv, RateOK, Sets
  <1> QED BY <1>1, <1>2, <1>3, PlainStep DEF WorkerPlaces

-----------------------------------------------------------------------------
(* The steps that change a sampler or a rate.                              *)

\* A worker's step that leaves the rates and their workers alone.
LEMMA RatesAlone ==
  ASSUME IInv, NEW r \in Requests, NEW k \in Kinds \ Rated, NEW to,
         Moved(r, k, to), old' = old, rate' = rate
  PROVE  RateOK'
  <1>1. \A u \in Requests, j \in Rated : wpc'[u][j] = wpc[u][j]
    BY KindFacts DEF Moved
  <1> QED BY <1>1, KindFacts DEF IInv, RateOK, Sets, NothingShared

\* A worker's step that leaves the samplers and their workers alone.
LEMMA SamplersAlone ==
  ASSUME IInv, NEW r \in Requests, NEW k \in Kinds \ Sampled, NEW to,
         Moved(r, k, to), sampler' = sampler, tpc' = tpc
  PROVE  SamplerFileOpen' /\ SamplerOK'
  <1>1. \A u \in Requests, j \in Sampled : wpc'[u][j] = wpc[u][j]
    BY KindFacts DEF Moved
  <1>2. SamplerFileOpen'
    BY <1>1 DEF IInv, SamplerFileOpen
  <1>3. SamplerOK'
    BY <1>1 DEF IInv, SamplerOK, Tracing, NothingShared
  <1> QED BY <1>2, <1>3

LEMMA StartSamplerStep ==
  ASSUME IInv, NEW r \in Requests, NEW k \in Kinds, StartSampler(r, k)
  PROVE  IInv'
  <1>1. /\ Move(r, k, "created", "armed") /\ wg' = wg /\ old' = old /\ rate' = rate
        /\ k \in Sampled /\ k \notin Rated /\ tpc' = tpc
        /\ sampler' = [sampler EXCEPT ![k] = IF @ = Nobody THEN r ELSE @]
    BY KindFacts DEF StartSampler, Move
  <1>2. Moved(r, k, "armed") /\ wpc[r][k] = "created"
    BY <1>1, MoveFacts DEF WorkerPlaces
  <1>3. /\ sampler' \in [Sampled -> Requests \union Tracers \union {Nobody}]
        /\ sampler'[k] = IF sampler[k] = Nobody THEN r ELSE sampler[k]
        /\ \A j \in Sampled : j # k => sampler'[j] = sampler[j]
    BY <1>1 DEF IInv, TypeOK
  <1>4. SamplerFileOpen'
    BY <1>2, <1>3, KindFacts, ProfileAssumption DEF IInv, SamplerFileOpen, Moved
  <1>5. SamplerOK'
    <2> SUFFICES ASSUME NothingShared PROVE SamplerOK'
      BY DEF SamplerOK, NothingShared
    <2>1. sampler[k] = Nobody
      BY <1>1, <1>2, SamplerFree DEF Working
    <2>2. \A u \in Requests, j \in Sampled : wpc'[u][j] = "armed" => sampler'[j] = u
      <3> SUFFICES ASSUME NEW u \in Requests, NEW j \in Sampled, wpc'[u][j] = "armed"
                   PROVE  sampler'[j] = u
        OBVIOUS
      <3>1. CASE j = k
        <4>1. u # r => Working(u, k) /\ Working(r, k)
          BY <1>1, <1>2, <3>1 DEF Moved, Working
        <4> QED BY <1>1, <1>3, <2>1, <3>1, <4>1, OneUser, KindFacts
      <3>2. CASE j # k
        BY <1>2, <1>3, <3>2, KindFacts DEF Moved, IInv, SamplerOK
      <3> QED BY <3>1, <3>2
    <2>3. \A t \in Tracers : Tracing(t) => k # TRACE
      BY <1>2, NoTraceWorker DEF Working
    <2>4. \A t \in Tracers : Tracing(t)' => sampler'[TRACE] = t
      BY <1>1, <1>3, <2>3, KindFacts DEF Tracing, IInv, SamplerOK
    <2>5. \A j \in Sampled : (sampler[j] \in Tracers => j = TRACE /\ Tracing(sampler[j]))'
      BY <1>1, <1>3, <2>1, ProfileAssumption DEF Tracing, IInv, SamplerOK
    <2> QED BY <2>2, <2>4, <2>5 DEF SamplerOK, Tracing
  <1>6. RateOK' BY <1>1, <1>2, RatesAlone
  <1>7. old' \in [Requests -> Nat] /\ rate' \in [Rated -> Nat]
    BY <1>1 DEF IInv, TypeOK
  <1> QED BY <1>1, <1>3, <1>4, <1>5, <1>6, <1>7, MoveStep DEF WorkerPlaces

LEMMA StopSamplerStep ==
  ASSUME IInv, NEW r \in Requests, NEW k \in Kinds, StopSampler(r, k)
  PROVE  IInv'
  <1>1. /\ Move(r, k, "armed", "written") /\ wg' = wg /\ old' = old /\ rate' = rate
        /\ k \in Sampled /\ k \notin Rated /\ tpc' = tpc
        /\ sampler' = [sampler EXCEPT ![k] = Nobody]
    BY KindFacts DEF StopSampler, Move
  <1>2. Moved(r, k, "written") /\ wpc[r][k] = "armed"
    BY <1>1, MoveFacts DEF WorkerPlaces
  <1>3. /\ sampler' \in [Sampled -> Requests \union Tracers \union {Nobody}]
        /\ sampler'[k] = Nobody
        /\ \A j \in Sampled : j # k => sampler'[j] = sampler[j]
    BY <1>1 DEF IInv, TypeOK
  <1>4. SamplerFileOpen'
    BY <1>2, <1>3, KindFacts, ProfileAssumption DEF IInv, SamplerFileOpen, Moved
  <1>5. SamplerOK'
    <2> SUFFICES ASSUME NothingShared PROVE SamplerOK'
      BY DEF SamplerOK, NothingShared
    <2>1. \A u \in Requests : wpc[u][k] = "armed" => u = r
      BY <1>1, <1>2, OneUser DEF Working
    <2>2. \A u \in Requests, j \in Sampled : wpc'[u][j] = "armed" => sampler'[j] = u
      BY <1>2, <1>3, <2>1, KindFacts DEF Moved, IInv, SamplerOK
    <2>3. \A t \in Tracers : Tracing(t) => k # TRACE
      BY <1>2, NoTraceWorker DEF Working
    <2>4. \A t \in Tracers : Tracing(t)' => sampler'[TRACE] = t
      BY <1>1, <1>3, <2>3, KindFacts DEF Tracing, IInv, SamplerOK
    <2>5. \A j \in Sampled : (sampler[j] \in Tracers => j = TRACE /\ Tracing(sampler[j]))'
      BY <1>1, <1>3, ProfileAssumption DEF Tracing, IInv, SamplerOK
    <2> QED BY <2>2, <2>4, <2>5 DEF SamplerOK, Tracing
  <1>6. RateOK' BY <1>1, <1>2, RatesAlone
  <1>7. old' \in [Requests -> Nat] /\ rate' \in [Rated -> Nat]
    BY <1>1 DEF IInv, TypeOK
  <1> QED BY <1>1, <1>3, <1>4, <1>5, <1>6, <1>7, MoveStep DEF WorkerPlaces

LEMMA SetRateStep ==
  ASSUME IInv, NEW r \in Requests, NEW k \in Kinds, SetRate(r, k)
  PROVE  IInv'
  <1> DEFINE from == IF k = MEM THEN "saved" ELSE "created"
  <1>1. /\ Move(r, k, from, "armed") /\ wg' = wg /\ old' = old /\ sampler' = sampler
        /\ k \in Rated /\ k \notin Sampled /\ tpc' = tpc
        /\ rate' = [rate EXCEPT ![k] = SessionRate[k]]
    BY KindFacts DEF SetRate, Move
  <1>2. Moved(r, k, "armed") /\ wpc[r][k] = from
    BY <1>1, MoveFacts DEF WorkerPlaces
  <1>3. SamplerFileOpen' /\ SamplerOK' BY <1>1, <1>2, SamplersAlone
  <1>4. /\ rate' \in [Rated -> Nat]
        /\ \A j \in Rated : j # k => rate'[j] = rate[j]
    BY <1>1, KindFacts DEF IInv, TypeOK
  <1>5. RateOK'
    <2> SUFFICES ASSUME NothingShared PROVE RateOK'
      BY DEF RateOK, NothingShared
    <2>1. \A u \in Requests, j \in Rated :
            Sets(u, j)' <=> Sets(u, j) \/ (u = r /\ j = k)
      BY <1>2, KindFacts DEF Sets, Moved
    <2>2. \A u \in Requests : (wpc[u][MEM] = "saved" \/ Sets(u, MEM))' => old'[u] = AppRate
      BY <1>1, <1>2, <2>1, KindFacts DEF IInv, RateOK, Moved
    <2> QED BY <1>1, <1>4, <2>1, <2>2, KindFacts DEF IInv, RateOK
  <1>6. /\ old' \in [Requests -> Nat]
        /\ sampler' \in [Sampled -> Requests \union Tracers \union {Nobody}]
    BY <1>1 DEF IInv, TypeOK
  <1> QED BY <1>1, <1>3, <1>4, <1>5, <1>6, MoveStep DEF WorkerPlaces

LEMMA RestoreRateStep ==
  ASSUME IInv, NEW r \in Requests, NEW k \in Kinds, RestoreRate(r, k)
  PROVE  IInv'
  <1>1. /\ Move(r, k, "closed", "restored") /\ wg' = wg /\ old' = old /\ sampler' = sampler
        /\ k \in Rated /\ k \notin Sampled /\ tpc' = tpc
        /\ rate' = [rate EXCEPT ![k] = IF k = MEM THEN old[r] ELSE 0]
    BY KindFacts DEF RestoreRate, Move
  <1>2. Moved(r, k, "restored") /\ wpc[r][k] = "closed"
    BY <1>1, MoveFacts DEF WorkerPlaces
  <1>3. SamplerFileOpen' /\ SamplerOK' BY <1>1, <1>2, SamplersAlone
  <1>4. /\ rate' \in [Rated -> Nat]
        /\ rate'[k] = IF k = MEM THEN old[r] ELSE 0
        /\ \A j \in Rated : j # k => rate'[j] = rate[j]
    BY <1>1, KindFacts DEF IInv, TypeOK
  <1>5. RateOK'
    <2> SUFFICES ASSUME NothingShared PROVE RateOK'
      BY DEF RateOK, NothingShared
    <2>1. k = MEM => old[r] = AppRate
      BY <1>2 DEF IInv, RateOK, Sets
    <2>2. \A u \in Requests, j \in Rated :
            Sets(u, j)' <=> Sets(u, j) /\ ~ (u = r /\ j = k)
      BY <1>2, KindFacts DEF Sets, Moved
    <2>3. \A u \in Requests : (wpc[u][MEM] = "saved" \/ Sets(u, MEM))' => old'[u] = AppRate
      BY <1>1, <1>2, <2>2, KindFacts DEF IInv, RateOK, Moved
    <2> QED BY <1>1, <1>4, <2>1, <2>2, <2>3, KindFacts DEF IInv, RateOK
  <1>6. /\ old' \in [Requests -> Nat]
        /\ sampler' \in [Sampled -> Requests \union Tracers \union {Nobody}]
    BY <1>1 DEF IInv, TypeOK
  <1> QED BY <1>1, <1>3, <1>4, <1>5, <1>6, MoveStep DEF WorkerPlaces

\* The two ways a worker ends: without an output, or at its last statement.
LEMMA EndStep ==
  ASSUME IInv, NEW r \in Requests, NEW k \in Kinds, Skip(r, k) \/ End(r, k)
  PROVE  IInv'
  <1>1. PICK from \in {"start", "closed", "restored"} :
          /\ Move(r, k, from, "none")
          /\ Done(r) /\ old' = old /\ sampler' = sampler /\ rate' = rate /\ tpc' = tpc
          /\ from = "closed" => k \notin Rated
    BY DEF Skip, End, globals, Move
  <1>2. Moved(r, k, "none") /\ wpc[r][k] = from /\ SessionOK' /\ OneSession'
    BY <1>1, MoveFacts DEF WorkerPlaces
  <1>3. CountOK' BY <1>1, <1>2, CountDown DEF IInv
  <1>4. OutputOK' BY <1>1, <1>2, MoveOutput
  <1>5. SamplerFileOpen'
    <2> SUFFICES ASSUME NEW j \in Sampled, NEW u \in Requests, sampler'[j] = u
                 PROVE  wpc'[u][j] = "armed"
      BY DEF SamplerFileOpen
    <2>1. wpc[u][j] = "armed" BY <1>1 DEF IInv, SamplerFileOpen
    <2>2. ~ (u = r /\ j = k) BY <1>1, <1>2, <2>1
    <2>3. j \in Kinds BY KindFacts
    <2> QED BY <1>2, <2>1, <2>2, <2>3 DEF Moved
  <1>6. SamplerOK'
    BY <1>1, <1>2, KindFacts DEF IInv, SamplerOK, Tracing, NothingShared, Moved
  <1>7. RateOK'
    <2>1. \A u \in Requests, j \in Rated : Sets(u, j)' <=> Sets(u, j)
      BY <1>1, <1>2, KindFacts DEF Sets, Moved
    <2> QED BY <1>1, <1>2, <2>1, KindFacts DEF IInv, RateOK, NothingShared, Moved
  <1>8. wg' \in [Requests -> 0 .. Cardinality(Kinds)]
    BY <1>1, <1>3, FiniteKinds, CountBound DEF IInv, TypeOK, Done
  <1>9. TypeOK'
    BY <1>1, <1>2, <1>8 DEF IInv, TypeOK, Move, Moved, handlers
  <1> QED BY <1>2, <1>3, <1>4, <1>5, <1>6, <1>7, <1>9 DEF IInv

LEMMA WorkerStep ==
  ASSUME IInv, NEW r \in Requests, NEW k \in Kinds, Worker(r, k), ~ CreateFails(r, k)
  PROVE  IInv'
  BY CreateStep, StartSamplerStep, StopSamplerStep, SaveRateStep, SetRateStep,
     DumpStep, CloseStep, RestoreRateStep, EndStep DEF Worker

-----------------------------------------------------------------------------
(* ServeHTTP.                                                              *)

LEMMA AcceptStep ==
  ASSUME IInv, NEW r \in Requests, NEW s \in Services, NEW q \in Queries, Accept(r, s, q)
  PROVE  IInv'
  <1>1. hpc[r] = "idle" /\ started[s] = 0 /\ Sessions(s) = {}
    BY DEF Accept, IInv, OneSession
  <1>2. \A u \in Requests :
          /\ hpc'[u] = IF u = r THEN "spawn" ELSE hpc[u]
          /\ svc'[u] = IF u = r THEN s ELSE svc[u]
          /\ todo'[u] = IF u = r THEN q ELSE todo[u]
    BY DEF Accept, IInv, TypeOK
  <1>3. \A u \in Services : started'[u] = IF u = s THEN 1 ELSE started[u]
    BY DEF Accept, IInv, TypeOK
  <1>4. \A k \in Kinds : wpc[r][k] = "none"
    BY <1>1 DEF IInv, SessionOK
  <1>5. TypeOK' BY ProfileAssumption DEF Accept, IInv, TypeOK, globals
  <1>6. SessionOK' BY <1>2, <1>4 DEF Accept, IInv, SessionOK
  <1>7. OneSession'
    <2>1. Sessions(s)' = {r} BY <1>1, <1>2 DEF Sessions
    <2>2. \A u \in Services : u # s => Sessions(u)' = Sessions(u)
      BY <1>1, <1>2 DEF Sessions
    <2> QED BY <1>3, <2>1, <2>2 DEF IInv, OneSession
  <1>8. OutputOK' BY <1>2, <1>4 DEF Accept, IInv, OutputOK, Working
  <1>9. CountOK' /\ SamplerFileOpen' /\ SamplerOK' /\ RateOK'
    BY DEF Accept, IInv, globals, CountOK, Busy, SamplerFileOpen, SamplerOK, Tracing, RateOK, Sets,
           NothingShared
  <1> QED BY <1>5, <1>6, <1>7, <1>8, <1>9 DEF IInv

LEMMA SpawnStep ==
  ASSUME IInv, NEW r \in Requests, NEW k \in Kinds, Spawn(r, k)
  PROVE  IInv'
  <1>1. /\ hpc[r] = "spawn" /\ k \in todo[r]
        /\ wg' = [wg EXCEPT ![r] = @ + 1]
        /\ UNCHANGED <<serving, cancelled, started, hpc, svc, old, sampler, rate, tpc, crashed>>
    BY DEF Spawn, IsFirst, Wanted, globals
  <1>2. wpc[r][k] = "none" BY <1>1 DEF IInv, SessionOK
  <1>3. Moved(r, k, "start")
    BY MovedFacts DEF Spawn, IInv, WorkerPlaces
  <1>4. \A u \in Requests : todo'[u] = IF u = r THEN todo[r] \ {k} ELSE todo[u]
    BY DEF Spawn, IInv, TypeOK
  <1>5. CountOK' BY <1>1, <1>2, <1>3, CountUp DEF IInv
  <1>6. wg' \in [Requests -> 0 .. Cardinality(Kinds)]
    BY <1>1, <1>5, FiniteKinds, CountBound DEF IInv, TypeOK
  <1>7. TypeOK'
    <2>1. todo' \in [Requests -> SUBSET Nat]
      BY DEF Spawn, IInv, TypeOK
    <2> QED BY <1>1, <1>3, <1>6, <2>1 DEF IInv, TypeOK, Moved
  <1>8. SessionOK' BY <1>1, <1>2, <1>3, <1>4 DEF IInv, SessionOK, Moved
  <1>9. OneSession' BY <1>1 DEF IInv, OneSession, Sessions
  <1>10. OutputOK' BY <1>1, <1>2, <1>3 DEF IInv, OutputOK, Working, Moved
  <1>11. SamplerFileOpen'
    BY <1>1, <1>2, <1>3, KindFacts DEF IInv, SamplerFileOpen, Moved, TypeOK
  <1>12. SamplerOK'
    BY <1>1, <1>2, <1>3, KindFacts DEF IInv, SamplerOK, Tracing, NothingShared, Moved
  <1>13. RateOK'
    <2>1. \A u \in Requests, j \in Rated : Sets(u, j)' <=> Sets(u, j)
      BY <1>2, <1>3, KindFacts DEF Sets, Moved
    <2> QED BY <1>1, <1>2, <1>3, <2>1, KindFacts DEF IInv, RateOK, NothingShared, Moved
  <1> QED BY <1>5, <1>7, <1>8, <1>9, <1>10, <1>11, <1>12, <1>13 DEF IInv

\* The counter is 0 only when no worker is left.
LEMMA WaitStep ==
  ASSUME IInv, NEW r \in Requests, Wait(r)
  PROVE  IInv'
  <1>1. \A k \in Kinds : wpc[r][k] = "none"
    BY BusyFacts DEF Wait, IInv, CountOK, Busy
  <1>2. \A u \in Requests : hpc'[u] = IF u = r THEN "waited" ELSE hpc[u]
    BY DEF Wait, IInv, TypeOK
  <1>3. TypeOK' BY DEF Wait, IInv, TypeOK, globals
  <1>4. SessionOK' BY <1>1, <1>2 DEF Wait, IInv, SessionOK
  <1>5. OneSession'
    <2>1. \A s \in Services : Sessions(s)' = Sessions(s)
      BY <1>2 DEF Wait, Sessions
    <2> QED BY <2>1 DEF Wait, IInv, OneSession
  <1>6. CountOK' /\ OutputOK' /\ SamplerFileOpen' /\ SamplerOK' /\ RateOK'
    BY DEF Wait, IInv, globals, CountOK, Busy, OutputOK, Working, SamplerFileOpen, SamplerOK, Tracing,
           RateOK, Sets, NothingShared
  <1> QED BY <1>3, <1>4, <1>5, <1>6 DEF IInv

LEMMA FinishStep ==
  ASSUME IInv, NEW r \in Requests, Finish(r)
  PROVE  IInv'
  <1>1. hpc[r] = "waited" /\ svc[r] \in Services
    BY DEF Finish, IInv, SessionOK
  <1>2. \A k \in Kinds : wpc[r][k] = "none"
    BY <1>1 DEF IInv, SessionOK
  <1>3. \A u \in Requests :
          /\ hpc'[u] = IF u = r THEN "idle" ELSE hpc[u]
          /\ svc'[u] = IF u = r THEN Nobody ELSE svc[u]
          /\ todo'[u] = IF u = r THEN {} ELSE todo[u]
    BY DEF Finish, IInv, TypeOK
  <1>4. \A s \in Services : started'[s] = IF s = svc[r] THEN 0 ELSE started[s]
    BY DEF Finish, IInv, TypeOK
  <1>5. TypeOK' BY DEF Finish, IInv, TypeOK, globals
  <1>6. SessionOK' BY <1>2, <1>3 DEF Finish, IInv, SessionOK
  <1>7. OneSession'
    <2>1. Sessions(svc[r]) = {r}
      BY <1>1 DEF IInv, OneSession, Sessions
    <2>2. \A s \in Services : s = svc[r] => Sessions(s)' = {}
      BY <1>1, <1>3, <2>1 DEF Sessions
    <2>3. \A s \in Services : s # svc[r] => Sessions(s)' = Sessions(s)
      BY <1>1, <1>3 DEF Sessions
    <2> QED BY <1>4, <2>2, <2>3 DEF IInv, OneSession
  <1>8. OutputOK' BY <1>2, <1>3 DEF Finish, IInv, OutputOK, Working
  <1>9. CountOK' /\ SamplerFileOpen' /\ SamplerOK' /\ RateOK'
    BY DEF Finish, IInv, globals, CountOK, Busy, SamplerFileOpen, SamplerOK, Tracing, RateOK, Sets,
           NothingShared
  <1> QED BY <1>5, <1>6, <1>7, <1>8, <1>9 DEF IInv

-----------------------------------------------------------------------------
(* DoTrace, and all the steps together.                                    *)

\* Steps that change none of the variables that IInv relates.
LEMMA QuietStep ==
  ASSUME IInv, TypeOK', UNCHANGED <<handlers, wg, wpc, old, globals>>,
         \A t \in Tracers : Tracing(t)' = Tracing(t)
  PROVE  IInv'
  BY DEF IInv, handlers, globals, CountOK, Busy, SessionOK, OneSession, Sessions, OutputOK, Working,
         SamplerFileOpen, SamplerOK, RateOK, Sets, NothingShared

\* A tracer's step that may change the tracer of the process.
LEMMA TracerStep ==
  ASSUME IInv, NEW t \in Tracers, NEW from, NEW to \in {"idle", "tracing"},
         TracerMove(t, from, to),
         sampler' = [sampler EXCEPT ![TRACE] = IF to = "idle" THEN Nobody
                                               ELSE IF @ = Nobody THEN t ELSE @],
         to = "idle" => from = "flushed",
         to = "tracing" => from = "created"
  PROVE  IInv'
  <1>1. /\ UNCHANGED <<serving, cancelled, started, hpc, svc, todo, wg, wpc, old, rate, crashed>>
        /\ tpc[t] = from
        /\ \A u \in Tracers : tpc'[u] = IF u = t THEN to ELSE tpc[u]
    BY DEF TracerMove, handlers, IInv, TypeOK
  <1>2. /\ sampler'[TRACE] = IF to = "idle" THEN Nobody
                             ELSE IF sampler[TRACE] = Nobody THEN t ELSE sampler[TRACE]
        /\ \A k \in Sampled : k # TRACE => sampler'[k] = sampler[k]
    BY KindFacts DEF IInv, TypeOK
  <1>3. TypeOK' BY <1>1, <1>2 DEF TracerMove, IInv, TypeOK
  <1>4. SamplerFileOpen'
    BY <1>1, <1>2, ProfileAssumption DEF IInv, SamplerFileOpen
  <1>5. SamplerOK'
    <2> SUFFICES ASSUME NothingShared PROVE SamplerOK'
      BY DEF SamplerOK, NothingShared
    <2>1. \A u \in Tracers : u = t BY DEF NothingShared
    <2>2. to = "tracing" => sampler[TRACE] = Nobody
      <3>1. sampler[TRACE] \in Requests => Working(sampler[TRACE], TRACE)
        BY KindFacts DEF IInv, SamplerFileOpen, Working
      <3>2. sampler[TRACE] \notin Requests BY <3>1, NoTraceWorker
      <3>3. sampler[TRACE] \in Tracers => Tracing(t)
        BY <2>1, KindFacts DEF IInv, SamplerOK
      <3> QED BY <1>1, <3>2, <3>3, KindFacts DEF IInv, TypeOK, Tracing
    <2>3. \A r \in Requests, k \in Sampled : wpc'[r][k] = "armed" => sampler'[k] = r
      <3>1. \A r \in Requests : wpc[r][TRACE] # "armed"
        BY NoTraceWorker DEF Working
      <3> QED BY <1>1, <1>2, <3>1 DEF IInv, SamplerOK
    <2>4. \A u \in Tracers : Tracing(u)' => sampler'[TRACE] = u
      BY <1>1, <1>2, <2>1, <2>2 DEF Tracing
    <2>5. \A k \in Sampled : (sampler[k] \in Tracers => k = TRACE /\ Tracing(sampler[k]))'
      BY <1>1, <1>2, <2>1, <2>2, ProfileAssumption DEF Tracing, IInv, SamplerOK
    <2> QED BY <2>3, <2>4, <2>5 DEF SamplerOK
  <1>6. CountOK' /\ SessionOK' /\ OneSession' /\ OutputOK' /\ RateOK'
    BY <1>1 DEF IInv, CountOK, Busy, SessionOK, OneSession, Sessions, OutputOK, Working, RateOK, Sets,
                NothingShared
  <1> QED BY <1>3, <1>4, <1>5, <1>6 DEF IInv

LEMMA DoTraceStep ==
  ASSUME IInv, NEW t \in Tracers, Tracer(t), ~ TraceFails(t)
  PROVE  IInv'
  <1>1. CASE TraceCreate(t) \/ TraceFlush(t)
    <2>1. PICK from \in {"idle", "tracing"}, to \in {"created", "flushed"} :
            TracerMove(t, from, to) /\ (from = "idle" <=> to = "created") /\ UNCHANGED sampler
      BY <1>1 DEF TraceCreate, TraceFlush
    <2>2. /\ tpc[t] = from
          /\ tpc' \in [Tracers -> {"idle", "created", "tracing", "flushed"}]
          /\ \A u \in Tracers : tpc'[u] = IF u = t THEN to ELSE tpc[u]
      BY <2>1 DEF TracerMove, IInv, TypeOK
    <2>3. \A u \in Tracers : Tracing(u)' = Tracing(u)
      BY <2>1, <2>2 DEF Tracing
    <2>4. UNCHANGED <<serving, cancelled, handlers, wg, wpc, old, globals, crashed>>
      BY <2>1 DEF TracerMove, globals
    <2>5. TypeOK' BY <2>2, <2>4 DEF IInv, TypeOK, handlers, globals
    <2> QED BY <2>3, <2>4, <2>5, QuietStep
  <1>2. CASE TraceStart(t)
    BY <1>2, TracerStep DEF TraceStart
  <1>3. CASE TraceStop(t)
    BY <1>3, TracerStep DEF TraceStop
  <1> QED BY <1>1, <1>2, <1>3 DEF Tracer

LEMMA CrashStep ==
  ASSUME IInv, Crash
  PROVE  IInv'
  <1>1. UNCHANGED <<serving, cancelled, handlers, wg, wpc, old, globals, tpc>> /\ crashed' = TRUE
    BY DEF Crash
  <1>2. TypeOK' BY <1>1 DEF IInv, TypeOK, handlers, globals
  <1>3. \A t \in Tracers : Tracing(t)' = Tracing(t) BY <1>1 DEF Tracing
  <1> QED BY <1>1, <1>2, <1>3, QuietStep

LEMMA EnvironmentStep ==
  ASSUME IInv, NEW s \in Services, Listen(s) \/ Cancel(s)
  PROVE  IInv'
  <1>1. UNCHANGED <<handlers, wg, wpc, old, globals, tpc>>
    BY DEF Listen, Cancel
  <1>2. TypeOK'
    BY DEF Listen, Cancel, IInv, TypeOK, handlers, globals
  <1>3. \A t \in Tracers : Tracing(t)' = Tracing(t) BY <1>1 DEF Tracing
  <1> QED BY <1>1, <1>2, <1>3, QuietStep

LEMMA StutterStep ==
  ASSUME IInv, UNCHANGED vars
  PROVE  IInv'
  <1>1. UNCHANGED <<handlers, wg, wpc, old, globals>> BY DEF vars
  <1>2. TypeOK' BY DEF vars, handlers, globals, IInv, TypeOK
  <1>3. \A t \in Tracers : Tracing(t)' = Tracing(t) BY DEF vars, Tracing
  <1> QED BY <1>1, <1>2, <1>3, QuietStep

\* At first nobody works and nothing is set.
LEMMA InitIInv == Init => IInv
  <1> SUFFICES ASSUME Init PROVE IInv
    OBVIOUS
  <1>1. \A r \in Requests : Busy(r) = {} BY DEF Init, Busy
  <1>2. CountOK BY <1>1, FS_EmptySet DEF CountOK, Init
  <1>3. 0 \in 0 .. Cardinality(Kinds) BY FiniteKinds
  <1>4. TypeOK
    BY <1>3, ProfileAssumption DEF Init, TypeOK, WorkerPlaces
  <1>5. SessionOK BY DEF Init, SessionOK
  <1>6. OneSession BY DEF Init, OneSession, Sessions
  <1>7. OutputOK BY DEF Init, OutputOK, Working
  <1>8. SamplerFileOpen BY ProfileAssumption DEF Init, SamplerFileOpen
  <1>9. SamplerOK BY KindFacts, ProfileAssumption DEF Init, SamplerOK, Tracing
  <1>10. RateOK BY KindFacts DEF Init, RateOK, Sets
  <1> QED BY <1>2, <1>4, <1>5, <1>6, <1>7, <1>8, <1>9, <1>10 DEF IInv

LEMMA IInvStep == IInv /\ [Next]_vars => IInv'
  <1> SUFFICES ASSUME IInv, [Next]_vars PROVE IInv'
    OBVIOUS
  <1>1. CASE Environment
    BY <1>1, EnvironmentStep, CrashStep DEF Environment, ListenFails
  <1>2. CASE \E r \in Requests : Client(r)
    BY <1>2, StutterStep, AcceptStep DEF Client, Refuse
  <1>3. CASE \E r \in Requests : Handler(r)
    BY <1>3, SpawnStep, WaitStep, FinishStep DEF Handler
  <1>4. CASE \E r \in Requests, k \in Kinds : Worker(r, k)
    BY <1>4, WorkerStep, CrashStep DEF CreateFails
  <1>5. CASE \E t \in Tracers : Tracer(t)
    BY <1>5, DoTraceStep, CrashStep DEF TraceFails
  <1>6. CASE UNCHANGED vars
    BY <1>6, StutterStep
  <1> QED BY <1>1, <1>2, <1>3, <1>4, <1>5, <1>6 DEF Next

-----------------------------------------------------------------------------
(* The theorems.                                                           *)

\* The invariant holds in every state of every behaviour.
THEOREM Invariance == Spec => []IInv
  BY InitIInv, IInvStep, PTL DEF Spec

\* Every variable keeps its type; above all no WaitGroup counts below 0, which
\* would panic, or above the number of kinds.
THEOREM TypeCorrect == Spec => []TypeOK
  <1>1. IInv => TypeOK BY DEF IInv
  <1> QED BY <1>1, Invariance, PTL

\* A service runs one session at a time, however many requests arrive.
THEOREM Exclusion == Spec => []OneSession
  <1>1. IInv => OneSession BY DEF IInv
  <1> QED BY <1>1, Invariance, PTL

\* When ServeHTTP replies, all the workers of its session have ended.
THEOREM WorkersEnd == Spec => []NoWorkerLeftBehind
  <1>1. IInv => NoWorkerLeftBehind
    BY DEF IInv, SessionOK, NoWorkerLeftBehind
  <1> QED BY <1>1, Invariance, PTL

\* The file of a running sampler is open, even where services share kinds.
THEOREM FilesOpen == Spec => []SamplerFileOpen
  <1>1. IInv => SamplerFileOpen BY DEF IInv
  <1> QED BY <1>1, Invariance, PTL

\* Where no kind is shared, a service without a session has left nothing on, the
\* heap rate as the application has it, and no block rate but the application's
\* or none.
THEOREM GlobalsBack == Spec => []GlobalsRestored
  <1>1. IInv => GlobalsRestored
    <2> SUFFICES ASSUME IInv, NothingShared, NEW s \in Services, started[s] = 0
                 PROVE  /\ \A k \in Outputs[s] \intersect Sampled : sampler[k] = Nobody
                        /\ MEM \in Outputs[s] => rate[MEM] = AppRate
                        /\ BLOCK \in Outputs[s] => rate[BLOCK] \in {AppBlockRate, 0}
      BY DEF GlobalsRestored
    <2>1. \A r \in Requests, k \in Outputs[s] \intersect Kinds : ~ Working(r, k)
      <3> SUFFICES ASSUME NEW r \in Requests, NEW k \in Outputs[s] \intersect Kinds, Working(r, k)
                   PROVE  FALSE
        OBVIOUS
      <3>1. hpc[r] # "idle" /\ svc[r] \in Services /\ k \in Outputs[svc[r]]
        BY DEF IInv, SessionOK, OutputOK, Working
      <3>2. svc[r] = s BY <3>1 DEF NothingShared
      <3> QED BY <3>1, <3>2 DEF IInv, OneSession, Sessions
    <2>2. ASSUME NEW k \in Outputs[s] \intersect Sampled PROVE sampler[k] = Nobody
      <3>1. sampler[k] \notin Requests
        BY <2>1, KindFacts DEF IInv, SamplerFileOpen, Working
      <3>2. sampler[k] \in Tracers => k = TRACE /\ Tracers # {}
        BY DEF IInv, SamplerOK
      <3> QED BY <3>1, <3>2 DEF NothingShared, IInv, TypeOK
    <2>3. MEM \in Outputs[s] => rate[MEM] = AppRate
      BY <2>1, KindFacts DEF IInv, RateOK, Sets, Working
    <2>4. BLOCK \in Outputs[s] => rate[BLOCK] \in {AppBlockRate, 0}
      BY <2>1, KindFacts DEF IInv, RateOK, Sets, Working
    <2> QED BY <2>2, <2>3, <2>4
  <1> QED BY <1>1, Invariance, PTL

\* Where no kind is shared, each profile is stopped by who started it.
THEOREM OwnStops == Spec => StopsItsOwn
  <1>1. IInv /\ [Next]_vars =>
          [NothingShared =>
             /\ \A r \in Requests : \A k \in Sampled : StopSampler(r, k) => sampler[k] = r
             /\ \A t \in Tracers : TraceStop(t) => sampler[TRACE] = t]_vars
    <2> SUFFICES ASSUME IInv, NothingShared
                 PROVE  /\ \A r \in Requests : \A k \in Sampled : StopSampler(r, k) => sampler[k] = r
                        /\ \A t \in Tracers : TraceStop(t) => sampler[TRACE] = t
      OBVIOUS
    <2>1. \A r \in Requests : \A k \in Sampled : StopSampler(r, k) => wpc[r][k] = "armed"
      BY DEF StopSampler, Move
    <2>2. \A t \in Tracers : TraceStop(t) => Tracing(t)
      BY DEF TraceStop, TracerMove, Tracing
    <2> QED BY <2>1, <2>2 DEF IInv, SamplerOK
  <1> QED BY <1>1, Invariance, PTL DEF Spec, StopsItsOwn
=============================================================================
