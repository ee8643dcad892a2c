-------------------------- MODULE BytesPoolProofs --------------------------
(***************************************************************************)
(* Proofs about BytesPool, for every number of goroutines, every block     *)
(* sizes and every memory size.                                            *)
(***************************************************************************)
EXTENDS BytesPool, IntervalLemmas

-----------------------------------------------------------------------------
(* Arithmetic of offsets.                                                  *)

\* Integer division finds the block that an offset lies in.
LEMMA BlockOfOffset ==
  ASSUME NEW e \in Nat \ {0}, NEW i \in Nat, NEW k \in 0 .. (e - 1)
  PROVE  (i * e + k) \div e = i
  OBVIOUS

LEMMA EntityFacts ==
  ASSUME NEW e \in EntitySizes
  PROVE  /\ e \in Nat \ {0}
         /\ ChunkLen(e) \in Nat
         /\ ChunkLen(e) >= 1
         /\ ChunkLen(e) <= MemorySize
  <1>1. e \in InitSize .. MaxSize /\ e <= MemorySize
    BY Zenon DEF EntitySizes
  <1>2. e \in Nat \ {0}
    BY <1>1, PoolAssumption
  <1>3. MemorySize \in Nat
    BY PoolAssumption
  <1> QED
    BY <1>1, <1>2, <1>3, Z3 DEF ChunkLen

LEMMA ChunkFacts ==
  /\ \A e \in EntitySizes : \A i \in 1 .. ChunkLen(e) : <<e, i>> \in Chunk
  /\ \A c \in Chunk : /\ c[1] \in EntitySizes
                      /\ c[2] \in 1 .. ChunkLen(c[1])
                      /\ c = <<c[1], c[2]>>
  BY EntityFacts, PoolAssumption DEF Chunk

\* What the slices of the pool's memory that the callers hold look like: the
\* end of a chunk, all of it unless its caller has resliced it.
GoodSlice(d) ==
  /\ d \in [mem : EntitySizes, off : Nat, cap : Nat]
  /\ d.cap \in 1 .. d.mem
  /\ \E i \in 1 .. ChunkLen(d.mem) : d.off = (i - 1) * d.mem + (d.mem - d.cap)

LEMMA GoodSliceChunk ==
  ASSUME NEW d, GoodSlice(d),
         NEW i \in 1 .. ChunkLen(d.mem),
         d.off = (i - 1) * d.mem + (d.mem - d.cap)
  PROVE  PosIndex(d, d.mem) = i
  <1>1. d.mem \in Nat \ {0} /\ d.cap \in 1 .. d.mem
    BY EntityFacts DEF GoodSlice
  <1>2. i - 1 \in Nat
    BY EntityFacts DEF GoodSlice
  <1>3. d.mem - d.cap \in 0 .. (d.mem - 1)
    BY <1>1
  <1>4. ((i - 1) * d.mem + (d.mem - d.cap)) \div d.mem = i - 1
    BY <1>1, <1>2, <1>3, BlockOfOffset
  <1> QED
    BY <1>2, <1>4 DEF PosIndex
 
LEMMA GoodSliceFacts ==
  ASSUME NEW d, GoodSlice(d)
  PROVE  /\ ChunkOf(d) \in Chunk
         /\ ChunkOf(d) = <<d.mem, PosIndex(d, d.mem)>>
         /\ PosIndex(d, d.mem) \in 1 .. ChunkLen(d.mem)
  <1>1. PICK i \in 1 .. ChunkLen(d.mem) :
               d.off = (i - 1) * d.mem + (d.mem - d.cap)
    BY DEF GoodSlice
  <1>2. PosIndex(d, d.mem) = i
    BY <1>1, GoodSliceChunk
  <1> QED
    BY <1>2, ChunkFacts DEF ChunkOf, GoodSlice

\* Alloc's result is such a slice, and is in the chunk it was cut from.
LEMMA ChunkSliceFacts ==
  ASSUME NEW c \in Chunk
  PROVE  /\ GoodSlice(ChunkSlice(c))
         /\ ChunkOf(ChunkSlice(c)) = c
         /\ ChunkSlice(c).mem # Heap
         /\ ChunkSlice(c).cap = ChunkSlice(c).mem
  <1> DEFINE d == ChunkSlice(c)
  <1>1. /\ c[1] \in EntitySizes
        /\ c[2] \in 1 .. ChunkLen(c[1])
        /\ c[1] \in Nat \ {0}
        /\ ChunkLen(c[1]) \in Nat
    BY ChunkFacts, EntityFacts
  <1>2. d.mem = c[1] /\ d.cap = c[1] /\ d.off = (c[2] - 1) * c[1]
    BY DEF ChunkSlice
  <1>3. (c[2] - 1) * c[1] \in Nat
    BY <1>1
  <1>4. d \in [mem : EntitySizes, off : Nat, cap : Nat]
    BY <1>1, <1>3 DEF ChunkSlice
  <1>5. d.off = (c[2] - 1) * d.mem + (d.mem - d.cap)
    BY <1>1, <1>2, <1>3
  <1>6. GoodSlice(d)
    BY <1>1, <1>2, <1>4, <1>5 DEF GoodSlice
  <1>7. PosIndex(d, d.mem) = c[2]
    BY <1>1, <1>2, <1>5, <1>6, GoodSliceChunk
  <1> QED
    BY <1>1, <1>2, <1>6, <1>7, ChunkFacts DEF ChunkOf, Heap

\* Reslicing stays in the chunk.
LEMMA ResliceFacts ==
  ASSUME NEW d, GoodSlice(d), NEW k \in 1 .. (d.cap - 1)
  PROVE  /\ GoodSlice(Suffix(d, k))
         /\ ChunkOf(Suffix(d, k)) = ChunkOf(d)
         /\ Suffix(d, k).mem = d.mem
  <1> DEFINE r == Suffix(d, k)
  <1>1. /\ d.mem \in EntitySizes
        /\ d.mem \in Nat \ {0}
        /\ d.cap \in 1 .. d.mem
        /\ d.off \in Nat
        /\ ChunkLen(d.mem) \in Nat
    BY EntityFacts DEF GoodSlice
  <1>2. r.mem = d.mem /\ r.off = d.off + k /\ r.cap = d.cap - k
    BY DEF Suffix
  <1>3. PICK i \in 1 .. ChunkLen(d.mem) :
               d.off = (i - 1) * d.mem + (d.mem - d.cap)
    BY DEF GoodSlice
  <1>4. (i - 1) * d.mem \in Nat
    BY <1>1, <1>3
  <1>5. r.off = (i - 1) * r.mem + (r.mem - r.cap)
    BY <1>1, <1>2, <1>3, <1>4
  <1>6. r \in [mem : EntitySizes, off : Nat, cap : Nat] /\ r.cap \in 1 .. r.mem
    BY <1>1, <1>2 DEF Suffix
  <1>7. GoodSlice(r)
    BY <1>1, <1>2, <1>5, <1>6 DEF GoodSlice
  <1>8. PosIndex(r, r.mem) = i /\ PosIndex(d, d.mem) = i
    BY <1>1, <1>2, <1>3, <1>5, <1>7, GoodSliceChunk
  <1> QED
    BY <1>2, <1>7, <1>8 DEF ChunkOf

-----------------------------------------------------------------------------
(* The inductive invariant.                                                *)

\* The positions an entity's list can start at.
HeadPositions(e) == [idx : 1 .. ChunkLen(e), flag : {0, 1}]

\* A head with flag 0 was never released to: it and all the chunks after it
\* are as NewBytesPool left them.  A head with flag 1 is a released chunk,
\* which is alone on the list.
HeadOK(e) ==
  /\ pos[e] \in HeadPositions(e) \union {NilPos}
  /\ pos[e] # NilPos /\ pos[e].flag = 0 =>
       \A j \in pos[e].idx .. ChunkLen(e) :
         chunks[<<e, j>>] = InitialChunk(<<e, j>>)
  /\ pos[e].flag = 1 => chunks[<<e, pos[e].idx>>].nextPos = NilPos

\* The indices the links can lead to from the head.
Reach(e) ==
  CASE pos[e] = NilPos -> {}
    [] pos[e] # NilPos /\ pos[e].flag = 0 -> pos[e].idx .. ChunkLen(e)
    [] pos[e] # NilPos /\ pos[e].flag # 0 -> {pos[e].idx}

OwnedUnreachable == \A c \in Owned : c[2] \notin Reach(c[1])

\* Only a chunk that is being popped may still have its link.
OwnedCleared ==
  /\ \A c \in LiveChunks : chunks[c].nextPos = NilPos
  /\ \A p \in Procs : pc[p] # "popClear" =>
       \A c \in Claim(p) : chunks[c].nextPos = NilPos

Popping == {"popNext", "popCas", "popClear"}
Pushing == {"pushCheck", "pushLoad", "pushCas"}

\* A pop's currentPos may be stale.  If its chunk was ever released it has no
\* link any more; if it is one of the initial ones the head can only have
\* moved past it.  So a head that is back at currentPos has the same link.
PopOK(p) ==
  /\ pc[p] \in Popping => cur[p] \in HeadPositions(ent[p])
  /\ pc[p] \in {"popNext", "popCas"} =>
       /\ cur[p].flag = 1 => chunks[Popped(p)].nextPos = NilPos
       /\ cur[p].flag = 0 /\ pos[ent[p]].flag = 0 /\ pos[ent[p]] # NilPos
            => cur[p].idx <= pos[ent[p]].idx
  /\ pc[p] = "popCas" =>
       /\ cur[p].flag = 1 => nxt[p] = NilPos
       /\ pos[ent[p]] = cur[p] => nxt[p] = chunks[Popped(p)].nextPos

PushOK(p) ==
  /\ pc[p] \in Pushing =>
       GoodSlice(data[p]) /\ data[p].mem = ent[p] /\ data[p].cap = ent[p]
  /\ pc[p] \in {"pushLoad", "pushCas"} => chk[p].flag = 1

LocalOK(p) ==
  /\ pc[p] # "panicked"
  /\ pc[p] # "idle" => ent[p] \in EntitySizes
  /\ PopOK(p)
  /\ PushOK(p)

IInv ==
  /\ TypeOK
  /\ \A c \in Chunk : chunks[c].flag = 0
  /\ \A e \in EntitySizes : HeadOK(e)
  /\ \A p \in Procs : LocalOK(p)
  /\ \A d \in PoolSlices : GoodSlice(d)
  /\ NoDoubleOwner
  /\ OwnedUnreachable
  /\ OwnedCleared

-----------------------------------------------------------------------------
(* Consequences of the invariant.                                          *)

\* Reach contains the head and is closed under the links.
LEMMA ReachFacts ==
  ASSUME IInv, NEW e \in EntitySizes
  PROVE  /\ Reach(e) \subseteq 1 .. ChunkLen(e)
         /\ pos[e].idx # 0 => pos[e].idx \in Reach(e)
         /\ LinkClosed(e, Reach(e))
  <1>1. HeadOK(e) /\ ChunkLen(e) \in Nat
    BY EntityFacts DEF IInv
  <1>2. CASE pos[e] = NilPos
    BY <1>2 DEF Reach, LinkClosed, NilPos
  <1>3. CASE pos[e] # NilPos /\ pos[e].flag = 0
    <2>1. /\ pos[e].idx \in 1 .. ChunkLen(e)
          /\ Reach(e) = pos[e].idx .. ChunkLen(e)
      BY <1>1, <1>3 DEF HeadOK, HeadPositions, Reach
    <2>2. ASSUME NEW j \in Reach(e)
          PROVE  chunks[<<e, j>>].nextPos.idx \in {0} \union Reach(e)
      <3>1. chunks[<<e, j>>] = InitialChunk(<<e, j>>)
        BY <1>1, <1>3, <2>1, <2>2 DEF HeadOK
      <3> QED
        BY <1>1, <2>1, <2>2, <3>1 DEF InitialChunk, NilPos
    <2> QED
      BY <1>1, <2>1, <2>2 DEF LinkClosed
  <1>4. CASE pos[e] # NilPos /\ pos[e].flag # 0
    BY <1>1, <1>4 DEF HeadOK, HeadPositions, Reach, LinkClosed, NilPos
  <1> QED
    BY <1>2, <1>3, <1>4

LEMMA FreeIsReachable ==
  ASSUME IInv, NEW e \in EntitySizes
  PROVE  FreeList(e) \subseteq Reach(e)
  BY ReachFacts DEF FreeList

LEMMA IInvOwnedNotFree == IInv => OwnedNotFree
  <1> SUFFICES ASSUME IInv, NEW c \in Owned, c \in FreeChunks
               PROVE  FALSE
    BY DEF OwnedNotFree
  <1>1. c[1] \in EntitySizes /\ c[2] \in FreeList(c[1])
    BY ChunkFacts DEF FreeChunks
  <1>2. c[2] \in Reach(c[1])
    BY <1>1, FreeIsReachable
  <1> QED
    BY <1>2 DEF IInv, OwnedUnreachable

LEMMA IInvNoFalsePanic == IInv => NoFalsePanic
  BY DEF IInv, LocalOK, NoFalsePanic

\* The claims are on chunks of the entity that the call works on.
LEMMA ClaimFacts ==
  ASSUME IInv, NEW p \in Procs
  PROVE  Claim(p) \subseteq Chunk
  <1>1. LocalOK(p)
    BY DEF IInv
  <1>2. CASE pc[p] = "popClear"
    BY <1>1, <1>2, ChunkFacts, EntityFacts
       DEF Claim, Popped, LocalOK, PopOK, Popping, HeadPositions
  <1>3. CASE pc[p] \in Pushing
    <2>1. /\ ent[p] \in EntitySizes
          /\ GoodSlice(data[p])
          /\ data[p].mem = ent[p]
      BY <1>1, <1>3 DEF LocalOK, PushOK, Pushing
    <2>2. PosIndex(data[p], ent[p]) \in 1 .. ChunkLen(ent[p])
      BY <2>1, GoodSliceFacts
    <2> QED
      BY <1>3, <2>1, <2>2, ChunkFacts DEF Claim, Pushed, Pushing
  <1>4. CASE pc[p] \notin Pushing \union {"popClear"}
    BY <1>4 DEF Claim, Pushing
  <1> QED
    BY <1>2, <1>3, <1>4

-----------------------------------------------------------------------------
(* Init.                                                                   *)

LEMMA InitTypeOK == Init => TypeOK
  BY EntityFacts, ChunkFacts DEF Init, TypeOK, InitialChunk, Positions,
     Calling, NilPos, NoSlice, HeapSlice, Heap, NoChunk

LEMMA InitIInv == Init => IInv
  <1> SUFFICES ASSUME Init PROVE IInv
    OBVIOUS
  <1>1. LiveChunks = {} /\ PoolSlices = {} /\ \A p \in Procs : Claim(p) = {}
    BY DEF Init, LiveChunks, PoolSlices, Claim
  <1>2. Owned = {}
    BY <1>1 DEF Owned
  <1>3. \A c \in Chunk : chunks[c].flag = 0
    BY DEF Init, InitialChunk
  <1>4. \A e \in EntitySizes : HeadOK(e)
    BY EntityFacts, ChunkFacts DEF Init, HeadOK, HeadPositions
  <1>5. \A p \in Procs : LocalOK(p)
    BY DEF Init, LocalOK, PopOK, PushOK, Popping, Pushing
  <1>6. NoDoubleOwner /\ OwnedUnreachable /\ OwnedCleared
    BY <1>1, <1>2 DEF NoDoubleOwner, OwnedUnreachable, OwnedCleared
  <1> QED
    BY <1>1, <1>3, <1>4, <1>5, <1>6, InitTypeOK DEF IInv

-----------------------------------------------------------------------------
(* Types.                                                                  *)

LEMMA TypeOKStep ==
  ASSUME IInv, NEW p \in Procs, Call(p) \/ Step(p)
  PROVE  TypeOK'
  <1> USE DEF TypeOK, Positions, Calling
  <1>1. TypeOK /\ LocalOK(p)
    BY DEF IInv
  <1>2. ASSUME NEW size \in Requests, AllocHeap(p, size) PROVE TypeOK'
    BY <1>1, <1>2, PoolAssumption DEF AllocHeap, HeapSlice, Heap
  <1>3. ASSUME NEW size \in Requests, AllocPop(p, size) PROVE TypeOK'
    BY <1>1, <1>3, PoolAssumption DEF AllocPop, Goto
  <1>4. ASSUME NEW d \in live, ReleaseIgnored(p, d) PROVE TypeOK'
    BY <1>1, <1>4 DEF ReleaseIgnored
  <1>5. ASSUME NEW d \in live, ReleasePush(p, d) PROVE TypeOK'
    BY <1>1, <1>5 DEF ReleasePush, BeginPush, Accepted, Goto
  <1>6. ASSUME PopLoad(p) PROVE TypeOK'
    BY <1>1, <1>6 DEF PopLoad, Goto, LocalOK
  <1>7. ASSUME PopEmpty(p) PROVE TypeOK'
    BY <1>1, <1>7 DEF PopEmpty, Goto, Return, HeapSlice, Heap, NilPos, NoSlice,
       NoChunk
  <1>8. ASSUME PopNext(p) PROVE TypeOK'
    <2>1. Popped(p) \in Chunk
      BY <1>1, <1>8, ChunkFacts, EntityFacts
         DEF PopNext, LocalOK, PopOK, Popping, Popped, HeadPositions
    <2> QED
      BY <1>1, <1>8, <2>1 DEF PopNext, Goto
  <1>9. ASSUME PopCas(p) PROVE TypeOK'
    <2>1. /\ ent[p] \in EntitySizes
          /\ Popped(p) \in Chunk
          /\ Popped(p)[1] = ent[p]
          /\ nxt[p] = chunks[Popped(p)].nextPos
      BY <1>1, <1>9, ChunkFacts, EntityFacts
         DEF PopCas, Swap, LocalOK, PopOK, Popping, Popped, HeadPositions
    <2>2. nxt[p].idx <= ChunkLen(ent[p])
      BY <1>1, <2>1
    <2> QED
      BY <1>1, <1>9, <2>1, <2>2 DEF PopCas, Swap, Goto
  <1>10. ASSUME PopRetry(p) PROVE TypeOK'
    BY <1>1, <1>10 DEF PopRetry, Goto
  <1>11. ASSUME PopClear(p) PROVE TypeOK'
    <2>1. Claim(p) = {Popped(p)} /\ Popped(p) \in Chunk
      BY <1>11, ClaimFacts DEF PopClear, Claim
    <2>2. ChunkSlice(Popped(p)) \in [mem : Nat, off : Nat, cap : Nat]
      BY <2>1, ChunkSliceFacts, EntityFacts DEF GoodSlice
    <2>3. chunks' = [chunks EXCEPT ![Popped(p)].nextPos = NilPos]
      BY <1>11 DEF PopClear
    <2>4. \A c \in Chunk : ChunkLen(c[1]) >= 0
      BY ChunkFacts, EntityFacts
    <2>5. /\ chunks' \in [Chunk -> [nextPos : Positions, flag : Nat]]
          /\ \A c \in Chunk : chunks'[c].nextPos.idx <= ChunkLen(c[1])
      BY <1>1, <2>1, <2>3, <2>4, SMTT(30) DEF NilPos
    <2>6. live' \subseteq [mem : Nat, off : Nat, cap : Nat]
      BY <1>1, <1>11, <2>2 DEF PopClear
    <2> QED
      BY <1>1, <1>11, <2>5, <2>6
         DEF PopClear, Return, Goto, NilPos, NoSlice, NoChunk, HeapSlice, Heap
  <1>12. ASSUME PushCheck(p) PROVE TypeOK'
    <2>1. Pushed(p) \in Chunk
      BY <1>12, ClaimFacts DEF PushCheck, Claim
    <2>2. chunks[Pushed(p)].nextPos = NilPos
      BY <1>1, <1>12 DEF IInv, OwnedCleared, PushCheck, Claim
    <2>3. pc' = [pc EXCEPT ![p] = "pushLoad"]
      BY <1>12, <2>2 DEF PushCheck, Goto
    <2>4. /\ chunks[Pushed(p)] \in [nextPos : Positions, flag : Nat]
          /\ chk' = [chk EXCEPT ![p] =
                        [chunks[Pushed(p)] EXCEPT !.flag = @ + 1]]
      BY <1>1, <1>12, <2>1 DEF PushCheck
    <2> DEFINE copy == [chunks[Pushed(p)] EXCEPT !.flag = @ + 1]
    <2>5. chk' \in [Procs -> [nextPos : Positions, flag : Nat]]
      <3> HIDE DEF Positions
      <3>1. copy \in [nextPos : Positions, flag : Nat]
        BY <2>4
      <3>2. chk' = [chk EXCEPT ![p] = copy]
        BY <2>4
      <3> HIDE DEF copy
      <3> QED
        BY <1>1, <3>1, <3>2
    <2>6. UNCHANGED <<pos, chunks, live, ent, req, data, cur, nxt>>
      BY <1>12 DEF PushCheck
    <2> QED
      BY <1>1, <2>3, <2>5, <2>6
  <1>13. ASSUME PushLoad(p) PROVE TypeOK'
    BY <1>1, <1>13 DEF PushLoad, Goto, LocalOK
  <1>14. ASSUME PushCas(p) PROVE TypeOK'
    <2>1. /\ Pushed(p) \in Chunk
          /\ Pushed(p)[1] = ent[p]
          /\ chk[p].flag = 1
      BY <1>1, <1>14, ClaimFacts DEF PushCas, Claim, LocalOK, PushOK, Pushed
    <2>2. UpdatePos(p) \in Positions /\ UpdatePos(p).idx <= ChunkLen(ent[p])
      BY <2>1, ChunkFacts, EntityFacts DEF UpdatePos
    <2> QED
      BY <1>1, <1>14, <2>2
         DEF PushCas, Swap, Return, Goto, NilPos, NoSlice, NoChunk, HeapSlice,
             Heap
  <1>15. ASSUME PushRetry(p) PROVE TypeOK'
    BY <1>1, <1>15 DEF PushRetry, Goto
  <1> QED
    BY <1>2, <1>3, <1>4, <1>5, <1>6, <1>7, <1>8, <1>9, <1>10, <1>11, <1>12,
       <1>13, <1>14, <1>15 DEF Call, Step

-----------------------------------------------------------------------------
(* The steps that move no chunk.                                           *)

\* p's step leaves the other goroutines' locals alone.
Others(p) ==
  \A q \in Procs \ {p} :
    /\ pc'[q] = pc[q] /\ ent'[q] = ent[q] /\ data'[q] = data[q]
    /\ cur'[q] = cur[q] /\ nxt'[q] = nxt[q] /\ chk'[q] = chk[q]

LEMMA OthersStep ==
  ASSUME TypeOK, NEW p \in Procs, Call(p) \/ Step(p)
  PROVE  Others(p)
  <1> USE DEF Others, Goto, Return
  <1>1. CASE Call(p)
    BY <1>1, Zenon DEF Call, AllocHeap, AllocPop, ReleaseIgnored, ReleasePush,
       BeginPush, TypeOK
  <1>2. CASE Step(p)
    <2>1. CASE PopLoad(p) \/ PopNext(p) \/ PopCas(p) \/ PopRetry(p)
      BY <2>1, Zenon DEF PopLoad, PopNext, PopCas, PopRetry, TypeOK
    <2>2. CASE PopEmpty(p) \/ PopClear(p)
      BY <2>2, Zenon DEF PopEmpty, PopClear, TypeOK
    <2>3. CASE PushCheck(p) \/ PushLoad(p) \/ PushRetry(p)
      BY <2>3, Zenon DEF PushCheck, PushLoad, PushRetry, TypeOK
    <2>4. CASE PushCas(p)
      BY <2>4, Zenon DEF PushCas, TypeOK
    <2> QED
      BY <1>2, <2>1, <2>2, <2>3, <2>4 DEF Step
  <1> QED
    BY <1>1, <1>2

LEMMA OthersClaim ==
  ASSUME NEW p \in Procs, Others(p), NEW q \in Procs \ {p}
  PROVE  Claim(q)' = Claim(q)
  BY DEF Others, Claim, Popped, Pushed, PosIndex

\* A step that moves no chunk between the pool and its callers.
Still == Owned' = Owned /\ UNCHANGED <<pos, chunks>>

\* If the list and the chunks keep still, and the callers' chunks and p's
\* claim too, only p's own locals are left to look at.
LEMMA QuietStep ==
  ASSUME IInv, TypeOK', NEW p \in Procs, Others(p), LocalOK(p)',
         UNCHANGED <<pos, chunks>>,
         PoolSlices' = PoolSlices,
         Claim(p)' = Claim(p),
         pc[p] # "popClear",
         pc'[p] # "popClear"
  PROVE  IInv' /\ Still
  <1>1. \A q \in Procs : Claim(q)' = Claim(q)
    BY OthersClaim
  <1>2. LiveChunks' = LiveChunks
    BY DEF LiveChunks, ChunkOf, PosIndex
  <1>3. Owned' = Owned
    BY <1>1, <1>2 DEF Owned
  <1>4. (\A c \in Chunk : chunks[c].flag = 0)'
    BY DEF IInv
  <1>5. \A e \in EntitySizes : HeadOK(e)'
    BY DEF IInv, HeadOK
  <1>6. \A q \in Procs : LocalOK(q)'
    <2> SUFFICES ASSUME NEW q \in Procs \ {p} PROVE LocalOK(q)'
      OBVIOUS
    <2>1. LocalOK(q)
      BY DEF IInv
    <2> QED
      BY <2>1 DEF Others, LocalOK, PopOK, PushOK, Popped
  <1>7. (\A d \in PoolSlices : GoodSlice(d))'
    BY DEF IInv, GoodSlice
  <1>8. NoDoubleOwner'
    <2>1. NoDoubleOwner
      BY DEF IInv
    <2>2. \A d1, d2 \in PoolSlices' : d1 # d2 => ChunkOf(d1) # ChunkOf(d2)
      BY <2>1 DEF NoDoubleOwner
    <2> QED
      BY <1>1, <1>2, <2>1, <2>2 DEF NoDoubleOwner, ChunkOf, PosIndex
  <1>9. OwnedUnreachable'
    <2>1. \A e : Reach(e)' = Reach(e)
      BY DEF Reach
    <2> QED
      BY <1>3, <2>1 DEF IInv, OwnedUnreachable
  <1>10. OwnedCleared'
    <2>1. \A q \in Procs : pc'[q] # "popClear" => pc[q] # "popClear"
      BY DEF Others
    <2> QED
      BY <1>1, <1>2, <2>1 DEF IInv, OwnedCleared
  <1>11. Still
    BY <1>3 DEF Still
  <1> QED
    BY <1>4, <1>5, <1>6, <1>7, <1>8, <1>9, <1>10, <1>11 DEF IInv

LEMMA AllocHeapStep ==
  ASSUME IInv, NEW p \in Procs, NEW size \in Requests, AllocHeap(p, size)
  PROVE  IInv' /\ Still
  <1>1. TypeOK' /\ Others(p)
    BY TypeOKStep, OthersStep DEF Call, IInv
  <1>2. PoolSlices' = PoolSlices
    BY DEF AllocHeap, PoolSlices, HeapSlice
  <1>3. UNCHANGED <<pos, chunks, pc, ent, req, data, cur, nxt, chk>>
    BY DEF AllocHeap
  <1>4. LocalOK(p)'
    BY <1>3 DEF IInv, LocalOK, PopOK, PushOK, Popped, GoodSlice
  <1>5. Claim(p)' = Claim(p) /\ pc[p] # "popClear" /\ pc'[p] # "popClear"
    BY <1>3 DEF AllocHeap, Claim, Popped, Pushed
  <1> QED
    BY <1>1, <1>2, <1>3, <1>4, <1>5, QuietStep

LEMMA AllocPopStep ==
  ASSUME IInv, NEW p \in Procs, NEW size \in Requests, AllocPop(p, size)
  PROVE  IInv' /\ Still
  <1>1. TypeOK /\ TypeOK' /\ Others(p)
    BY TypeOKStep, OthersStep DEF Call, IInv
  <1>2. pc[p] = "idle" /\ pc'[p] = "popLoad" /\ ent'[p] \in EntitySizes
    BY <1>1 DEF AllocPop, Goto, TypeOK
  <1>3. UNCHANGED <<pos, chunks>> /\ PoolSlices' = PoolSlices
    BY DEF AllocPop, PoolSlices
  <1>4. LocalOK(p)'
    BY <1>2 DEF LocalOK, PopOK, PushOK, Popping, Pushing
  <1>5. Claim(p)' = Claim(p)
    BY <1>2 DEF Claim
  <1> QED
    BY <1>1, <1>2, <1>3, <1>4, <1>5, QuietStep

LEMMA PopLoadStep ==
  ASSUME IInv, NEW p \in Procs, PopLoad(p)
  PROVE  IInv' /\ Still
  <1>1. TypeOK /\ TypeOK' /\ Others(p)
    BY TypeOKStep, OthersStep DEF Step, IInv
  <1>2. /\ pc[p] = "popLoad" /\ pc'[p] = "popNext"
        /\ ent' = ent
        /\ cur'[p] = pos[ent[p]]
        /\ pos[ent[p]] # NilPos
    BY <1>1 DEF PopLoad, Goto, TypeOK
  <1>3. UNCHANGED <<pos, chunks>> /\ PoolSlices' = PoolSlices
    BY DEF PopLoad, PoolSlices
  <1>4. ent[p] \in EntitySizes
    BY <1>2 DEF IInv, LocalOK
  <1>5. HeadOK(ent[p])
    BY <1>4 DEF IInv
  <1>6. PopOK(p)'
    BY <1>2, <1>3, <1>4, <1>5, EntityFacts
       DEF PopOK, Popping, HeadOK, HeadPositions, Popped
  <1>7. LocalOK(p)'
    BY <1>2, <1>4, <1>6 DEF LocalOK, PushOK, Pushing
  <1>8. Claim(p)' = Claim(p)
    BY <1>2 DEF Claim
  <1> QED
    BY <1>1, <1>2, <1>3, <1>7, <1>8, QuietStep

LEMMA PopEmptyStep ==
  ASSUME IInv, NEW p \in Procs, PopEmpty(p)
  PROVE  IInv' /\ Still
  <1>1. TypeOK /\ TypeOK' /\ Others(p)
    BY TypeOKStep, OthersStep DEF Step, IInv
  <1>2. pc[p] = "popLoad" /\ pc'[p] = "idle"
    BY <1>1 DEF PopEmpty, Return, Goto, TypeOK
  <1>3. UNCHANGED <<pos, chunks>> /\ PoolSlices' = PoolSlices
    BY DEF PopEmpty, PoolSlices, HeapSlice
  <1>4. LocalOK(p)'
    BY <1>2 DEF LocalOK, PopOK, PushOK, Popping, Pushing
  <1>5. Claim(p)' = Claim(p)
    BY <1>2 DEF Claim
  <1> QED
    BY <1>1, <1>2, <1>3, <1>4, <1>5, QuietStep

LEMMA PopNextStep ==
  ASSUME IInv, NEW p \in Procs, PopNext(p)
  PROVE  IInv' /\ Still
  <1>1. TypeOK /\ TypeOK' /\ Others(p)
    BY TypeOKStep, OthersStep DEF Step, IInv
  <1>2. /\ pc[p] = "popNext" /\ pc'[p] = "popCas"
        /\ ent' = ent /\ cur' = cur
        /\ nxt'[p] = chunks[Popped(p)].nextPos
    BY <1>1 DEF PopNext, Goto, TypeOK
  <1>3. UNCHANGED <<pos, chunks>> /\ PoolSlices' = PoolSlices
    BY DEF PopNext, PoolSlices
  <1>4. LocalOK(p) /\ PopOK(p)
    BY DEF IInv, LocalOK
  <1>5. PopOK(p)'
    BY <1>2, <1>3, <1>4 DEF PopOK, Popping, Popped
  <1>6. LocalOK(p)'
    BY <1>2, <1>4, <1>5 DEF LocalOK, PushOK, Pushing
  <1>7. Claim(p)' = Claim(p)
    BY <1>2 DEF Claim
  <1> QED
    BY <1>1, <1>2, <1>3, <1>6, <1>7, QuietStep

LEMMA PopRetryStep ==
  ASSUME IInv, NEW p \in Procs, PopRetry(p)
  PROVE  IInv' /\ Still
  <1>1. TypeOK /\ TypeOK' /\ Others(p)
    BY TypeOKStep, OthersStep DEF Step, IInv
  <1>2. pc[p] = "popCas" /\ pc'[p] = "popLoad" /\ ent' = ent
    BY <1>1 DEF PopRetry, Goto, TypeOK
  <1>3. UNCHANGED <<pos, chunks>> /\ PoolSlices' = PoolSlices
    BY DEF PopRetry, PoolSlices
  <1>4. LocalOK(p)'
    BY <1>2 DEF IInv, LocalOK, PopOK, PushOK, Popping, Pushing
  <1>5. Claim(p)' = Claim(p)
    BY <1>2 DEF Claim
  <1> QED
    BY <1>1, <1>2, <1>3, <1>4, <1>5, QuietStep

\* The three steps of push before its compare-and-swap succeeds.
LEMMA PushQuietStep ==
  ASSUME IInv, NEW p \in Procs, PushCheck(p) \/ PushLoad(p) \/ PushRetry(p)
  PROVE  IInv' /\ Still
  <1>1. TypeOK /\ TypeOK' /\ Others(p)
    BY TypeOKStep, OthersStep DEF Step, IInv
  <1>2. /\ pc[p] \in Pushing
        /\ UNCHANGED <<pos, chunks, live, ent, data>>
    BY DEF PushCheck, PushLoad, PushRetry, Pushing
  <1>3. LocalOK(p) /\ PushOK(p)
    BY DEF IInv, LocalOK
  <1>4. pc'[p] \in {"pushLoad", "pushCas"} /\ chk'[p].flag = 1
    <2>1. CASE PushCheck(p)
      <3>1. Pushed(p) \in Chunk /\ Claim(p) = {Pushed(p)}
        BY <2>1, ClaimFacts DEF PushCheck, Claim
      <3>2. /\ chunks[Pushed(p)].nextPos = NilPos
            /\ chunks[Pushed(p)].flag = 0
        BY <2>1, <3>1 DEF IInv, OwnedCleared, PushCheck
      <3>3. chunks[Pushed(p)] \in [nextPos : Positions, flag : Nat]
        BY <1>1, <3>1 DEF TypeOK
      <3>4. pc'[p] = "pushLoad"
        BY <1>1, <2>1, <3>2 DEF PushCheck, Goto, TypeOK
      <3>5. chk'[p] = [chunks[Pushed(p)] EXCEPT !.flag = @ + 1]
        BY <1>1, <2>1 DEF PushCheck, TypeOK
      <3>6. chk'[p].flag = chunks[Pushed(p)].flag + 1
        BY <3>3, <3>5
      <3> QED
        BY <3>2, <3>4, <3>6
    <2>2. CASE PushLoad(p)
      <3>1. pc[p] = "pushLoad" /\ chk[p].flag = 1
        BY <1>3, <2>2 DEF PushLoad, PushOK
      <3>2. chk[p] \in [nextPos : Positions, flag : Nat]
        BY <1>1 DEF TypeOK
      <3>3. pc'[p] = "pushCas"
        BY <1>1, <2>2 DEF PushLoad, Goto, TypeOK
      <3>4. chk'[p] = [chk[p] EXCEPT !.nextPos = pos[ent[p]]]
        BY <1>1, <2>2 DEF PushLoad, TypeOK
      <3> QED
        BY <3>1, <3>2, <3>3, <3>4
    <2>3. CASE PushRetry(p)
      BY <1>1, <1>3, <2>3 DEF PushRetry, Goto, TypeOK, PushOK
    <2> QED
      BY <2>1, <2>2, <2>3
  <1>5. LocalOK(p)'
    BY <1>2, <1>3, <1>4
       DEF LocalOK, PopOK, PushOK, Popping, Pushing, GoodSlice
  <1>6. Claim(p)' = Claim(p) /\ PoolSlices' = PoolSlices
    BY <1>2, <1>4 DEF Claim, Pushed, Pushing, PosIndex, PoolSlices
  <1> QED
    BY <1>1, <1>2, <1>4, <1>5, <1>6, QuietStep DEF Pushing

-----------------------------------------------------------------------------
(* The callers' slices: what Release and reslicing do.                     *)

\* With the list still, fewer owners are no harm to it.
LEMMA ListStill ==
  ASSUME IInv, UNCHANGED <<pos, chunks>>, Owned' \subseteq Owned
  PROVE  /\ (\A c \in Chunk : chunks[c].flag = 0)'
         /\ (\A e \in EntitySizes : HeadOK(e))'
         /\ OwnedUnreachable'
  <1>1. \A e : Reach(e)' = Reach(e)
    BY DEF Reach
  <1> QED
    BY <1>1 DEF IInv, HeadOK, OwnedUnreachable

LEMMA OthersStill ==
  ASSUME IInv, UNCHANGED <<pos, chunks>>, NEW p \in Procs, Others(p)
  PROVE  \A q \in Procs \ {p} : LocalOK(q)' /\ Claim(q)' = Claim(q)
  <1> SUFFICES ASSUME NEW q \in Procs \ {p} PROVE LocalOK(q)'
    BY OthersClaim
  <1>1. LocalOK(q)
    BY DEF IInv
  <1> QED
    BY <1>1 DEF Others, LocalOK, PopOK, PushOK, Popped

LEMMA ReleaseIgnoredStep ==
  ASSUME IInv, NEW p \in Procs, NEW d \in live, ReleaseIgnored(p, d)
  PROVE  /\ IInv'
         /\ UNCHANGED <<pos, chunks>>
         /\ Owned' = Owned \/ \E c \in Owned : Owned' = Owned \ {c}
  <1>1. TypeOK' /\ Others(p)
    BY TypeOKStep, OthersStep DEF Call, IInv
  <1>2. /\ UNCHANGED <<pos, chunks, pc, ent, req, data, cur, nxt, chk>>
        /\ live' \subseteq live
    BY DEF ReleaseIgnored
  <1>3. LocalOK(p)' /\ Claim(p)' = Claim(p)
    BY <1>2 DEF IInv, LocalOK, PopOK, PushOK, Popped, GoodSlice, Claim, Pushed,
       PosIndex
  <1>4. \A q \in Procs : LocalOK(q)' /\ Claim(q)' = Claim(q)
    BY <1>1, <1>2, <1>3, OthersStill
  <1>5. PoolSlices' \subseteq PoolSlices /\ LiveChunks' \subseteq LiveChunks
    BY <1>2 DEF PoolSlices, LiveChunks, ChunkOf, PosIndex
  <1>6. Owned' = Owned \/ \E c \in Owned : Owned' = Owned \ {c}
    <2>1. live' = live \ {d} /\ PoolSlices' = PoolSlices \ {d}
      BY DEF ReleaseIgnored, PoolSlices
    <2>2. \A g : ChunkOf(g)' = ChunkOf(g)
      BY DEF ChunkOf, PosIndex
    <2>3. CASE d \notin PoolSlices
      <3>1. LiveChunks' = LiveChunks
        BY <2>1, <2>2, <2>3 DEF LiveChunks
      <3> QED
        BY <1>4, <3>1 DEF Owned
    <2>4. CASE d \in PoolSlices
      <3>1. \A g \in PoolSlices \ {d} : ChunkOf(g) # ChunkOf(d)
        BY <2>4 DEF IInv, NoDoubleOwner
      <3>2. LiveChunks' = LiveChunks \ {ChunkOf(d)} /\ ChunkOf(d) \in LiveChunks
        BY <2>1, <2>2, <2>4, <3>1 DEF LiveChunks
      <3>3. \A q \in Procs : ChunkOf(d) \notin Claim(q)
        BY <3>2 DEF IInv, NoDoubleOwner
      <3>4. Owned' = Owned \ {ChunkOf(d)} /\ ChunkOf(d) \in Owned
        BY <1>4, <3>2, <3>3 DEF Owned
      <3> QED
        BY <3>4
    <2> QED
      BY <2>3, <2>4
  <1>7. (\A g \in PoolSlices : GoodSlice(g))'
    BY <1>5 DEF IInv, GoodSlice
  <1>8. NoDoubleOwner'
    <2>1. NoDoubleOwner
      BY DEF IInv
    <2>2. \A d1, d2 \in PoolSlices' : d1 # d2 => ChunkOf(d1) # ChunkOf(d2)
      BY <1>5, <2>1 DEF NoDoubleOwner
    <2>3. \A d1, d2 \in PoolSlices' : d1 # d2 => (ChunkOf(d1) # ChunkOf(d2))'
      BY <2>2 DEF ChunkOf, PosIndex
    <2> QED
      BY <1>4, <1>5, <2>1, <2>3 DEF NoDoubleOwner
  <1>9. OwnedCleared'
    BY <1>2, <1>4, <1>5 DEF IInv, OwnedCleared
  <1> QED
    BY <1>1, <1>2, <1>4, <1>6, <1>7, <1>8, <1>9, ListStill DEF IInv

LEMMA ReleasePushStep ==
  ASSUME IInv, NEW p \in Procs, NEW d \in live, ReleasePush(p, d)
  PROVE  IInv' /\ Still
  <1>1. TypeOK /\ TypeOK' /\ Others(p)
    BY TypeOKStep, OthersStep DEF Call, IInv
  <1>2. /\ UNCHANGED <<pos, chunks>>
        /\ pc[p] = "idle" /\ pc'[p] = "pushCheck"
        /\ data'[p] = d
        /\ ent'[p] = d.cap
        /\ live' = live \ {d}
    BY <1>1 DEF ReleasePush, BeginPush, Goto, TypeOK
  <1>3. d.mem = d.cap /\ d.cap \in EntitySizes /\ d.mem # Heap
    BY EntityFacts DEF ReleasePush, BeginPush, Accepted, InRange, Heap
  <1>4. d \in PoolSlices /\ GoodSlice(d)
    BY <1>3 DEF IInv, PoolSlices
  <1>5. LocalOK(p)'
    BY <1>2, <1>3, <1>4
       DEF LocalOK, PopOK, PushOK, Popping, Pushing, GoodSlice
  <1>6. Claim(p) = {} /\ Claim(p)' = {ChunkOf(d)}
    BY <1>2, <1>3 DEF Claim, Pushed, ChunkOf, PosIndex
  <1>7. \A q \in Procs \ {p} : LocalOK(q)' /\ Claim(q)' = Claim(q)
    BY <1>1, <1>2, OthersStill
  <1>8. PoolSlices' = PoolSlices \ {d}
    BY <1>2 DEF PoolSlices
  <1>9. LiveChunks' = LiveChunks \ {ChunkOf(d)}
    <2>1. \A g \in PoolSlices \ {d} : ChunkOf(g) # ChunkOf(d)
      BY <1>4 DEF IInv, NoDoubleOwner
    <2>2. \A g : ChunkOf(g)' = ChunkOf(g)
      BY DEF ChunkOf, PosIndex
    <2> QED
      BY <1>8, <2>1, <2>2 DEF LiveChunks
  <1>10. ChunkOf(d) \in LiveChunks
    BY <1>4 DEF LiveChunks
  <1>11. Owned' = Owned
    BY <1>6, <1>7, <1>9, <1>10 DEF Owned
  <1>12. (\A g \in PoolSlices : GoodSlice(g))'
    BY <1>8 DEF IInv, GoodSlice
  <1>13. NoDoubleOwner'
    <2>1. NoDoubleOwner
      BY DEF IInv
    <2>2. \A g1, g2 \in PoolSlices' :
            g1 # g2 => (ChunkOf(g1) # ChunkOf(g2))'
      BY <1>8, <2>1 DEF NoDoubleOwner, ChunkOf, PosIndex
    <2>3. \A q \in Procs : Claim(q)' \intersect LiveChunks' = {}
      BY <1>6, <1>7, <1>9, <2>1 DEF NoDoubleOwner
    <2>4. \A q, r \in Procs : q # r => Claim(q)' \intersect Claim(r)' = {}
      BY <1>6, <1>7, <1>10, <2>1 DEF NoDoubleOwner
    <2> QED
      BY <2>2, <2>3, <2>4 DEF NoDoubleOwner
  <1>14. OwnedCleared'
    <2>1. OwnedCleared
      BY DEF IInv
    <2>2. \A q \in Procs \ {p} : pc'[q] = pc[q]
      BY <1>1 DEF Others
    <2> QED
      BY <1>2, <1>6, <1>7, <1>9, <1>10, <2>1, <2>2 DEF OwnedCleared
  <1> QED
    BY <1>1, <1>2, <1>5, <1>7, <1>11, <1>12, <1>13, <1>14, ListStill DEF IInv, Still

LEMMA ResliceStep ==
  ASSUME IInv, NEW d \in live, NEW k \in 1 .. (d.cap - 1), Reslice(d, k)
  PROVE  IInv' /\ Still
  <1>1. /\ UNCHANGED <<pos, chunks, pc, ent, req, data, cur, nxt, chk>>
        /\ live' = (live \ {d}) \union {Suffix(d, k)}
        /\ d \in PoolSlices /\ GoodSlice(d)
    BY DEF Reslice, PoolSlices, IInv
  <1>2. /\ GoodSlice(Suffix(d, k))
        /\ ChunkOf(Suffix(d, k)) = ChunkOf(d)
        /\ Suffix(d, k).mem # Heap
    BY <1>1, ResliceFacts DEF PoolSlices
  <1>3. TypeOK'
    <2>1. Suffix(d, k) \in [mem : Nat, off : Nat, cap : Nat]
      BY <1>2, EntityFacts DEF GoodSlice
    <2> QED
      BY <1>1, <2>1 DEF IInv, TypeOK
  <1>4. PoolSlices' = (PoolSlices \ {d}) \union {Suffix(d, k)}
    BY <1>1, <1>2 DEF PoolSlices
  <1>5. \A g : ChunkOf(g)' = ChunkOf(g)
    BY DEF ChunkOf, PosIndex
  <1>6. LiveChunks' = LiveChunks
    BY <1>1, <1>2, <1>4, <1>5 DEF LiveChunks
  <1>7. \A q \in Procs : LocalOK(q)' /\ Claim(q)' = Claim(q)
    BY <1>1 DEF IInv, LocalOK, PopOK, PushOK, Popped, GoodSlice, Claim, Pushed,
       PosIndex
  <1>8. Owned' = Owned
    BY <1>6, <1>7 DEF Owned
  <1>9. (\A g \in PoolSlices : GoodSlice(g))'
    BY <1>2, <1>4 DEF IInv, GoodSlice
  <1>10. NoDoubleOwner'
    <2>1. NoDoubleOwner
      BY DEF IInv
    <2>2. \A g1, g2 \in PoolSlices' : g1 # g2 => ChunkOf(g1) # ChunkOf(g2)
      BY <1>1, <1>2, <1>4, <2>1 DEF NoDoubleOwner
    <2> QED
      BY <1>5, <1>6, <1>7, <2>1, <2>2 DEF NoDoubleOwner
  <1>11. OwnedCleared'
    BY <1>1, <1>6, <1>7 DEF IInv, OwnedCleared
  <1> QED
    BY <1>1, <1>3, <1>7, <1>8, <1>9, <1>10, <1>11, ListStill DEF IInv, Still

-----------------------------------------------------------------------------
(* The steps that change the list.                                         *)

\* What a pop whose compare-and-swap succeeds takes off the list.
LEMMA PopCasFacts ==
  ASSUME IInv, NEW p \in Procs, PopCas(p)
  PROVE  /\ pc[p] = "popCas" /\ pc'[p] = "popClear"
         /\ UNCHANGED <<chunks, live, ent, data, cur, nxt, chk>>
         /\ ent[p] \in EntitySizes
         /\ cur[p] \in HeadPositions(ent[p])
         /\ pos[ent[p]] = cur[p]
         /\ pos' = [pos EXCEPT ![ent[p]] = nxt[p]]
         /\ Popped(p) \in Chunk
         /\ Popped(p) \notin Owned
         /\ nxt[p] = chunks[Popped(p)].nextPos
         /\ \/ nxt[p] = NilPos
            \/ /\ cur[p].flag = 0
               /\ nxt[p] = [idx |-> cur[p].idx + 1, flag |-> 0]
               /\ cur[p].idx + 1 <= ChunkLen(ent[p])
  <1>1. /\ pc[p] = "popCas" /\ pc'[p] = "popClear"
        /\ UNCHANGED <<chunks, live, ent, data, cur, nxt, chk>>
        /\ pos[ent[p]] = cur[p]
        /\ pos' = [pos EXCEPT ![ent[p]] = nxt[p]]
    BY DEF IInv, TypeOK, PopCas, Swap, Goto
  <1>2. LocalOK(p)
    BY DEF IInv
  <1>3. /\ ent[p] \in EntitySizes
        /\ cur[p] \in HeadPositions(ent[p])
        /\ nxt[p] = chunks[Popped(p)].nextPos
    BY <1>1, <1>2 DEF LocalOK, PopOK, Popping
  <1>4. HeadOK(ent[p]) /\ ChunkLen(ent[p]) \in Nat
    BY <1>3, EntityFacts DEF IInv
  <1>5. /\ cur[p].idx \in 1 .. ChunkLen(ent[p])
        /\ cur[p].flag \in {0, 1}
        /\ cur[p] # NilPos
    BY <1>3 DEF HeadPositions, NilPos
  <1>6. cur[p].idx \in Reach(ent[p])
    BY <1>1, <1>3, <1>5, ReachFacts
  <1>7. Popped(p) \in Chunk
    BY <1>3, <1>5, ChunkFacts DEF Popped
  <1>8. Popped(p) \notin Owned
    BY <1>6 DEF IInv, OwnedUnreachable, Popped
  <1>9. CASE cur[p].flag = 0
    <2>1. chunks[Popped(p)] = InitialChunk(Popped(p))
      BY <1>1, <1>4, <1>5, <1>9 DEF HeadOK, Popped
    <2>2. \/ nxt[p] = NilPos
          \/ /\ nxt[p] = [idx |-> cur[p].idx + 1, flag |-> 0]
             /\ cur[p].idx < ChunkLen(ent[p])
      BY <1>3, <2>1 DEF InitialChunk, Popped
    <2> QED
      BY <1>1, <1>3, <1>4, <1>5, <1>7, <1>8, <1>9, <2>2
  <1>10. CASE cur[p].flag = 1
    <2>1. nxt[p] = NilPos
      BY <1>1, <1>2, <1>10 DEF LocalOK, PopOK
    <2> QED
      BY <1>1, <1>3, <1>7, <1>8, <2>1
  <1> QED
    BY <1>5, <1>9, <1>10

LEMMA PopCasStep ==
  ASSUME IInv, NEW p \in Procs, PopCas(p)
  PROVE  IInv' /\ Owned' = Owned \union {Popped(p)}
  <1>0. PICK e \in EntitySizes, c \in Chunk : e = ent[p] /\ c = Popped(p)
    BY PopCasFacts
  <1>1. TypeOK /\ TypeOK' /\ Others(p)
    BY TypeOKStep, OthersStep DEF Step, IInv
  <1>2. /\ pc[p] = "popCas" /\ pc'[p] = "popClear"
        /\ UNCHANGED <<chunks, live, ent, data, cur, nxt, chk>>
        /\ ent[p] = e /\ Popped(p) = c
        /\ c[1] = e /\ c[2] = cur[p].idx
        /\ cur[p] \in HeadPositions(e) /\ cur[p] # NilPos
        /\ cur[p].idx \in 1 .. ChunkLen(e) /\ ChunkLen(e) \in Nat
        /\ pos[e] = cur[p]
        /\ c \notin Owned
        /\ \/ nxt[p] = NilPos
           \/ /\ cur[p].flag = 0
              /\ nxt[p] = [idx |-> cur[p].idx + 1, flag |-> 0]
              /\ cur[p].idx + 1 <= ChunkLen(e)
    BY <1>0, PopCasFacts, EntityFacts DEF HeadPositions, NilPos, Popped
  <1>3. Claim(p) = {} /\ Claim(p)' = {c}
    BY <1>2 DEF Claim, Popped
  <1>4. \A q \in Procs \ {p} : Claim(q)' = Claim(q)
    BY <1>1, OthersClaim
  <1>5. PoolSlices' = PoolSlices /\ LiveChunks' = LiveChunks
    BY <1>2 DEF PoolSlices, LiveChunks, ChunkOf, PosIndex
  <1>6. Owned' = Owned \union {c}
    BY <1>3, <1>4, <1>5 DEF Owned
  <1>7. /\ pos'[e] = nxt[p]
        /\ \A f \in EntitySizes \ {e} : pos'[f] = pos[f]
    BY <1>0, <1>1, PopCasFacts DEF TypeOK
  <1>8. HeadOK(e)'
    <2>1. HeadOK(e) /\ ChunkLen(e) \in Nat
      BY <1>2, EntityFacts DEF IInv
    <2>2. CASE nxt[p] = NilPos
      BY <1>7, <2>2 DEF HeadOK, NilPos
    <2>3. CASE nxt[p] # NilPos
      <3>1. /\ cur[p].flag = 0 /\ pos[e] = cur[p] /\ cur[p] # NilPos
            /\ cur[p].idx \in 1 .. ChunkLen(e)
            /\ pos'[e] = [idx |-> cur[p].idx + 1, flag |-> 0]
            /\ cur[p].idx + 1 <= ChunkLen(e)
            /\ chunks' = chunks
        BY <1>7, <2>3, <1>2 DEF HeadPositions, NilPos
      <3>2. \A j \in cur[p].idx + 1 .. ChunkLen(e) :
              chunks[<<e, j>>] = InitialChunk(<<e, j>>)
        BY <2>1, <3>1 DEF HeadOK
      <3>3. pos'[e] \in HeadPositions(e)
        BY <2>1, <3>1 DEF HeadPositions
      <3> QED
        BY <2>1, <3>1, <3>2, <3>3 DEF HeadOK
    <2> QED
      BY <2>2, <2>3
  <1>9. (\A f \in EntitySizes : HeadOK(f))'
    <2>1. ASSUME NEW f \in EntitySizes \ {e} PROVE HeadOK(f)'
      <3>1. HeadOK(f)
        BY DEF IInv
      <3> QED
        BY <1>7, <3>1, <1>2 DEF HeadOK
    <2> QED
      BY <1>8, <2>1
  <1>10. LocalOK(p)'
    BY <1>1, <1>2 DEF LocalOK, PopOK, PushOK, Popping, Pushing
  <1>11. ASSUME NEW q \in Procs \ {p} PROVE LocalOK(q)'
    <2>1. LocalOK(q) /\ PopOK(q)
      BY DEF IInv, LocalOK
    <2>2. chunks' = chunks /\ Popped(q)' = Popped(q) /\ Others(p)
      BY <1>1, <1>2 DEF Others, Popped
    <2>3. PopOK(q)'
      <3>1. CASE pc[q] \notin {"popNext", "popCas"}
        BY <2>1, <2>2, <3>1 DEF PopOK, Others
      <3>2. CASE pc[q] \in {"popNext", "popCas"} /\ ent[q] # e
        <4>1. pos'[ent[q]] = pos[ent[q]]
          BY <1>7, <2>1, <3>2 DEF LocalOK
        <4> QED
          BY <2>1, <2>2, <3>2, <4>1 DEF PopOK, Others
      <3>3. CASE pc[q] \in {"popNext", "popCas"} /\ ent[q] = e
        <4>1. cur[q] \in HeadPositions(e) /\ cur[p] \in HeadPositions(e)
          BY <2>1, <3>3, <1>2 DEF PopOK, Popping
        <4>2. cur[q].idx \in Nat \ {0} /\ cur[p].idx \in Nat \ {0}
          BY <4>1, <1>2, EntityFacts DEF HeadPositions
        <4>3. cur[q].flag = 0 /\ pos'[e].flag = 0 /\ pos'[e] # NilPos
                => cur[q].idx < pos'[e].idx
          <5> SUFFICES ASSUME cur[q].flag = 0, pos'[e] # NilPos
                       PROVE  cur[q].idx < pos'[e].idx
            OBVIOUS
          <5>1. /\ cur[p].flag = 0 /\ pos[e] = cur[p]
                /\ pos'[e].idx = cur[p].idx + 1
            BY <1>7, <1>2
          <5>2. cur[q].idx <= cur[p].idx
            BY <2>1, <3>3, <4>2, <5>1 DEF PopOK, NilPos
          <5> QED
            BY <4>2, <5>1, <5>2
        <4>4. pos'[e] # cur[q]
          <5>1. CASE pos'[e] = NilPos
            BY <4>2, <5>1 DEF NilPos
          <5>2. CASE pos'[e] # NilPos
            BY <1>7, <4>2, <4>3, <5>2, <1>2
          <5> QED
            BY <5>1, <5>2
        <4>5. /\ pc'[q] = pc[q] /\ ent'[q] = e
              /\ cur'[q] = cur[q] /\ nxt'[q] = nxt[q]
          BY <2>2, <3>3 DEF Others
        <4>6. cur[q].flag = 0 /\ pos'[e].flag = 0 /\ pos'[e] # NilPos
                => cur[q].idx <= pos'[e].idx
          <5>1. pos'[e].idx \in Nat
            BY <1>1, <1>7, <1>2 DEF TypeOK, Positions
          <5> QED
            BY <4>2, <4>3, <5>1
        <4> QED
          BY <2>1, <2>2, <3>3, <4>1, <4>4, <4>5, <4>6 DEF PopOK, Popping
      <3> QED
        BY <3>1, <3>2, <3>3
    <2> QED
      BY <2>1, <2>2, <2>3 DEF LocalOK, PushOK, Others
  <1>12. (\A d \in PoolSlices : GoodSlice(d))'
    BY <1>5 DEF IInv, GoodSlice
  <1>13. NoDoubleOwner'
    <2>1. NoDoubleOwner /\ c \notin Owned
      BY <1>2 DEF IInv
    <2>2. \A q \in Procs : c \notin Claim(q)
      BY <2>1 DEF Owned
    <2>3. c \notin LiveChunks
      BY <2>1 DEF Owned
    <2>4. \A d1, d2 \in PoolSlices' : d1 # d2 => (ChunkOf(d1) # ChunkOf(d2))'
      BY <1>5, <2>1 DEF NoDoubleOwner, ChunkOf, PosIndex
    <2>5. \A q \in Procs : Claim(q)' \intersect LiveChunks' = {}
      BY <1>3, <1>4, <1>5, <2>1, <2>3 DEF NoDoubleOwner
    <2>6. \A q, r \in Procs : q # r => Claim(q)' \intersect Claim(r)' = {}
      BY <1>3, <1>4, <2>1, <2>2 DEF NoDoubleOwner
    <2> QED
      BY <2>4, <2>5, <2>6 DEF NoDoubleOwner
  <1>14. OwnedUnreachable'
    <2>1. Reach(e)' \subseteq Reach(e) \ {c[2]}
      <3>1. CASE nxt[p] = NilPos
        BY <1>7, <3>1 DEF Reach
      <3>2. CASE nxt[p] # NilPos
        <4>1. pos[e].flag = 0 /\ pos'[e] = [idx |-> pos[e].idx + 1, flag |-> 0]
          BY <1>2, <1>7, <3>2
        <4>2. pos[e] # NilPos /\ pos'[e] # NilPos
          BY <1>2, <1>7, <3>2
        <4>3. Reach(e) = pos[e].idx .. ChunkLen(e)
          BY <4>1, <4>2 DEF Reach
        <4>4. Reach(e)' = pos[e].idx + 1 .. ChunkLen(e)
          BY <4>1, <4>2 DEF Reach
        <4> QED
          BY <1>2, <4>3, <4>4
      <3> QED
        BY <3>1, <3>2
    <2>2. \A f \in EntitySizes \ {e} : Reach(f)' = Reach(f)
      BY <1>7 DEF Reach
    <2>3. OwnedUnreachable /\ c[1] = e
      BY <1>2 DEF IInv
    <2>4. \A o \in Owned' : o \in Chunk
      <3>1. LiveChunks \subseteq Chunk
        BY GoodSliceFacts DEF LiveChunks, IInv
      <3> QED
        BY <1>6, <3>1, <1>2, ClaimFacts DEF Owned
    <2>5. ASSUME NEW o \in Owned' PROVE o[2] \notin Reach(o[1])'
      <3>1. o[1] \in EntitySizes
        BY <2>4, ChunkFacts
      <3>3. CASE o = c
        BY <2>1, <2>3, <3>3
      <3>4. CASE o # c
        <4>1. o[2] \notin Reach(o[1])
          BY <1>6, <2>3, <3>4 DEF OwnedUnreachable
        <4>2. CASE o[1] = e
          BY <2>1, <4>1, <4>2
        <4>3. CASE o[1] # e
          BY <2>2, <3>1, <4>1, <4>3
        <4> QED
          BY <4>2, <4>3
      <3> QED
        BY <3>3, <3>4
    <2> QED
      BY <2>5 DEF OwnedUnreachable
  <1>15. OwnedCleared'
    <2>1. OwnedCleared /\ \A q \in Procs \ {p} : pc'[q] = pc[q]
      BY <1>1 DEF IInv, Others
    <2>2. pc'[p] = "popClear" /\ chunks' = chunks
      BY <1>2
    <2> QED
      BY <1>4, <1>5, <2>1, <2>2 DEF OwnedCleared
  <1>16. (\A x \in Chunk : chunks[x].flag = 0)'
    BY <1>2 DEF IInv
  <1> QED
    BY <1>2, <1>6, <1>1, <1>9, <1>10, <1>11, <1>12, <1>13, <1>14, <1>15, <1>16 DEF IInv

LEMMA PopClearStep ==
  ASSUME IInv, NEW p \in Procs, PopClear(p)
  PROVE  IInv' /\ Owned' = Owned
  <1>1. TypeOK /\ TypeOK' /\ Others(p)
    BY TypeOKStep, OthersStep DEF Step, IInv
  <1>2. PICK c \in Chunk : c = Popped(p)
    BY ClaimFacts DEF PopClear, Claim
  <1>3. /\ pc[p] = "popClear" /\ pc'[p] = "idle"
        /\ pos' = pos
        /\ chunks' = [chunks EXCEPT ![c].nextPos = NilPos]
        /\ live' = live \union {ChunkSlice(c)}
    BY <1>1, <1>2 DEF PopClear, Return, Goto, TypeOK
  <1>4. /\ chunks'[c].nextPos = NilPos /\ chunks'[c].flag = chunks[c].flag
        /\ \A x \in Chunk \ {c} : chunks'[x] = chunks[x]
    BY <1>1, <1>2, <1>3 DEF TypeOK
  <1>5. Claim(p) = {c} /\ Claim(p)' = {}
    BY <1>2, <1>3 DEF Claim
  <1>6. \A q \in Procs \ {p} : Claim(q)' = Claim(q)
    BY <1>1, OthersClaim
  <1>7. c \in Owned /\ c[2] \notin Reach(c[1])
    BY <1>5 DEF Owned, IInv, OwnedUnreachable
  <1>8. /\ PoolSlices' = PoolSlices \union {ChunkSlice(c)}
        /\ GoodSlice(ChunkSlice(c))
        /\ ChunkOf(ChunkSlice(c)) = c
    BY <1>3, ChunkSliceFacts DEF PoolSlices
  <1>9. \A g : ChunkOf(g)' = ChunkOf(g)
    BY DEF ChunkOf, PosIndex
  <1>10. LiveChunks' = LiveChunks \union {c}
    BY <1>8, <1>9 DEF LiveChunks
  <1>11. Owned' = Owned
    BY <1>5, <1>6, <1>7, <1>10 DEF Owned
  <1>12. (\A x \in Chunk : chunks[x].flag = 0)'
    BY <1>4 DEF IInv
  <1>13. (\A e \in EntitySizes : HeadOK(e))'
    <2> SUFFICES ASSUME NEW e \in EntitySizes PROVE HeadOK(e)'
      OBVIOUS
    <2>1. HeadOK(e) /\ ChunkLen(e) \in Nat
      BY EntityFacts DEF IInv
    <2>2. CASE pos[e] = NilPos
      BY <1>3, <2>2 DEF HeadOK, NilPos
    <2>3. CASE pos[e] # NilPos /\ pos[e].flag = 0
      <3>1. pos[e].idx \in 1 .. ChunkLen(e)
        BY <2>1, <2>3 DEF HeadOK, HeadPositions
      <3>2. Reach(e) = pos[e].idx .. ChunkLen(e)
        BY <2>3 DEF Reach
      <3>3. \A j \in pos[e].idx .. ChunkLen(e) :
              <<e, j>> \in Chunk /\ <<e, j>> # c
        BY <1>7, <2>1, <3>1, <3>2, ChunkFacts
      <3> QED
        BY <1>3, <1>4, <2>1, <2>3, <3>3 DEF HeadOK, InitialChunk
    <2>4. CASE pos[e] # NilPos /\ pos[e].flag # 0
      <3>1. pos[e].idx \in 1 .. ChunkLen(e) /\ Reach(e) = {pos[e].idx}
        BY <2>1, <2>4 DEF HeadOK, HeadPositions, Reach
      <3>2. <<e, pos[e].idx>> \in Chunk /\ <<e, pos[e].idx>> # c
        BY <1>7, <3>1, ChunkFacts
      <3> QED
        BY <1>3, <1>4, <2>1, <2>4, <3>2 DEF HeadOK
    <2> QED
      BY <2>2, <2>3, <2>4
  <1>14. LocalOK(p)'
    BY <1>3 DEF LocalOK, PopOK, PushOK, Popping, Pushing
  <1>15. ASSUME NEW q \in Procs \ {p} PROVE LocalOK(q)'
    <2>1. LocalOK(q) /\ PopOK(q)
      BY DEF IInv, LocalOK
    <2>2. PopOK(q)'
      <3>1. CASE pc[q] \notin {"popNext", "popCas"}
        BY <1>1, <2>1, <3>1 DEF PopOK, Others
      <3>2. CASE pc[q] \in {"popNext", "popCas"}
        <4>1. /\ ent[q] \in EntitySizes
              /\ cur[q] \in HeadPositions(ent[q])
          BY <2>1, <3>2 DEF LocalOK, PopOK, Popping
        <4>2. Popped(q) \in Chunk
          BY <4>1, ChunkFacts DEF HeadPositions, Popped
        <4>3. Popped(q)' = Popped(q)
          BY <1>1 DEF Others, Popped
        <4>4. chunks[Popped(q)].nextPos = NilPos
                => chunks'[Popped(q)].nextPos = NilPos
          BY <1>4, <4>2
        <4>5. pos[ent[q]] = cur[q] => chunks'[Popped(q)] = chunks[Popped(q)]
          <5> SUFFICES ASSUME pos[ent[q]] = cur[q] PROVE Popped(q) # c
            BY <1>4, <4>2
          <5>1. cur[q].idx \in Reach(ent[q])
            BY <4>1, ReachFacts, EntityFacts DEF HeadPositions
          <5> QED
            BY <1>7, <5>1 DEF Popped
        <4> QED
          BY <1>1, <1>3, <2>1, <3>2, <4>3, <4>4, <4>5 DEF PopOK, Others
      <3> QED
        BY <3>1, <3>2
    <2> QED
      BY <1>1, <2>1, <2>2 DEF LocalOK, PushOK, Others
  <1>16. (\A d \in PoolSlices : GoodSlice(d))'
    BY <1>8 DEF IInv, GoodSlice
  <1>17. NoDoubleOwner'
    <2>1. NoDoubleOwner
      BY DEF IInv
    <2>2. \A q \in Procs \ {p} : c \notin Claim(q)
      BY <1>5, <2>1 DEF NoDoubleOwner
    <2>3. c \notin LiveChunks
      BY <1>5, <2>1 DEF NoDoubleOwner
    <2>4. \A d \in PoolSlices : ChunkOf(d) # c
      BY <2>3 DEF LiveChunks
    <2>5. \A d1, d2 \in PoolSlices' : d1 # d2 => ChunkOf(d1) # ChunkOf(d2)
      BY <1>8, <2>1, <2>4 DEF NoDoubleOwner
    <2>6. \A q \in Procs : Claim(q)' \intersect LiveChunks' = {}
      BY <1>5, <1>6, <1>10, <2>1, <2>2 DEF NoDoubleOwner
    <2>7. \A q, r \in Procs : q # r => Claim(q)' \intersect Claim(r)' = {}
      BY <1>5, <1>6, <2>1 DEF NoDoubleOwner
    <2> QED
      BY <1>9, <2>5, <2>6, <2>7 DEF NoDoubleOwner
  <1>18. OwnedUnreachable'
    <2>1. \A e : Reach(e)' = Reach(e)
      BY <1>3 DEF Reach
    <2> QED
      BY <1>11, <2>1 DEF IInv, OwnedUnreachable
  <1>19. OwnedCleared'
    <2>1. OwnedCleared
      BY DEF IInv
    <2>2. LiveChunks \subseteq Chunk
      BY GoodSliceFacts DEF LiveChunks, IInv
    <2>3. \A x \in Chunk :
            chunks[x].nextPos = NilPos => chunks'[x].nextPos = NilPos
      BY <1>4
    <2>4. \A x \in LiveChunks' : chunks'[x].nextPos = NilPos
      BY <1>4, <1>10, <2>1, <2>2, <2>3 DEF OwnedCleared
    <2>5. ASSUME NEW q \in Procs, pc'[q] # "popClear", NEW x \in Claim(q)'
          PROVE  chunks'[x].nextPos = NilPos
      <3>1. q # p /\ x \in Claim(q) /\ pc[q] # "popClear"
        BY <1>1, <1>5, <1>6, <2>5 DEF Others
      <3> QED
        BY <2>1, <2>3, <3>1, ClaimFacts DEF OwnedCleared
    <2> QED
      BY <2>4, <2>5 DEF OwnedCleared
  <1> QED
    BY <1>11, <1>1, <1>12, <1>13, <1>14, <1>15, <1>16, <1>17, <1>18, <1>19 DEF IInv

LEMMA PushCasFacts ==
  ASSUME IInv, NEW p \in Procs, PushCas(p)
  PROVE  /\ pc[p] = "pushCas" /\ pc'[p] = "idle"
         /\ UNCHANGED <<chunks, live>>
         /\ ent[p] \in EntitySizes
         /\ Pushed(p) \in Chunk
         /\ Pushed(p)[1] = ent[p]
         /\ Claim(p) = {Pushed(p)}
         /\ chunks[Pushed(p)].nextPos = NilPos
         /\ pos' = [pos EXCEPT ![ent[p]] = [idx |-> Pushed(p)[2], flag |-> 1]]
  <1>1. TypeOK /\ LocalOK(p)
    BY DEF IInv
  <1>2. /\ pc[p] = "pushCas" /\ pc'[p] = "idle"
        /\ UNCHANGED <<chunks, live>>
        /\ pos' = [pos EXCEPT ![ent[p]] = UpdatePos(p)]
    BY <1>1 DEF PushCas, Swap, Return, Goto, TypeOK
  <1>3. ent[p] \in EntitySizes /\ chk[p].flag = 1
    BY <1>1, <1>2 DEF LocalOK, PushOK
  <1>4. Claim(p) = {Pushed(p)} /\ Pushed(p)[1] = ent[p]
    BY <1>2 DEF Claim, Pushed
  <1>5. Pushed(p) \in Chunk /\ chunks[Pushed(p)].nextPos = NilPos
    BY <1>2, <1>4, ClaimFacts DEF IInv, OwnedCleared
  <1> QED
    BY <1>2, <1>3, <1>4, <1>5 DEF UpdatePos

LEMMA PushCasStep ==
  ASSUME IInv, NEW p \in Procs, PushCas(p)
  PROVE  IInv' /\ Owned' = Owned \ {Pushed(p)}
  <1>0. PICK e \in EntitySizes, c \in Chunk : e = ent[p] /\ c = Pushed(p)
    BY PushCasFacts
  <1>1. TypeOK /\ TypeOK' /\ Others(p)
    BY TypeOKStep, OthersStep DEF Step, IInv
  <1>2. /\ pc[p] = "pushCas" /\ pc'[p] = "idle"
        /\ UNCHANGED <<chunks, live>>
        /\ c[1] = e /\ c[2] \in 1 .. ChunkLen(e) /\ c = <<e, c[2]>>
        /\ Claim(p) = {c}
        /\ chunks[c].nextPos = NilPos
    BY <1>0, PushCasFacts, ChunkFacts
  <1>3. /\ pos'[e] = [idx |-> c[2], flag |-> 1]
        /\ \A f \in EntitySizes \ {e} : pos'[f] = pos[f]
    BY <1>0, <1>1, PushCasFacts DEF TypeOK
  <1>4. Claim(p)' = {} /\ \A q \in Procs \ {p} : Claim(q)' = Claim(q)
    BY <1>1, <1>2, OthersClaim DEF Claim
  <1>5. PoolSlices' = PoolSlices /\ LiveChunks' = LiveChunks
    BY <1>2 DEF PoolSlices, LiveChunks, ChunkOf, PosIndex
  <1>6. Owned' = Owned \ {c}
    BY <1>2, <1>4, <1>5 DEF Owned, IInv, NoDoubleOwner
  <1>7. (\A f \in EntitySizes : HeadOK(f))'
    <2>1. HeadOK(e)'
      BY <1>2, <1>3 DEF HeadOK, HeadPositions
    <2>2. ASSUME NEW f \in EntitySizes \ {e} PROVE HeadOK(f)'
      BY <1>2, <1>3 DEF IInv, HeadOK
    <2> QED
      BY <2>1, <2>2
  <1>8. LocalOK(p)'
    BY <1>2 DEF LocalOK, PopOK, PushOK, Popping, Pushing
  <1>9. ASSUME NEW q \in Procs \ {p} PROVE LocalOK(q)'
    <2>1. LocalOK(q) /\ PopOK(q)
      BY DEF IInv, LocalOK
    <2>2. Popped(q)' = Popped(q) /\ Others(p) /\ chunks' = chunks
      BY <1>1, <1>2 DEF Others, Popped
    <2>3. PopOK(q)'
      <3>1. CASE ent[q] # e \/ pc[q] \notin {"popNext", "popCas"}
        <4>1. pc[q] \in {"popNext", "popCas"} => pos'[ent[q]] = pos[ent[q]]
          BY <1>3, <2>1, <3>1 DEF LocalOK
        <4> QED
          BY <2>1, <2>2, <4>1 DEF PopOK, Others
      <3>2. CASE ent[q] = e /\ pc[q] \in {"popNext", "popCas"}
        <4>1. pos'[e].flag = 1
          BY <1>3
        <4>2. pos'[e] = cur[q] => Popped(q) = c /\ cur[q].flag = 1
          BY <1>2, <1>3, <3>2 DEF Popped
        <4> QED
          BY <1>2, <2>1, <2>2, <3>2, <4>1, <4>2 DEF PopOK, Others
      <3> QED
        BY <3>1, <3>2
    <2> QED
      BY <2>1, <2>2, <2>3 DEF LocalOK, PushOK, Others
  <1>10. (\A d \in PoolSlices : GoodSlice(d))'
    BY <1>5 DEF IInv, GoodSlice
  <1>11. NoDoubleOwner'
    <2>1. NoDoubleOwner
      BY DEF IInv
    <2>2. \A d1, d2 \in PoolSlices' : d1 # d2 => (ChunkOf(d1) # ChunkOf(d2))'
      BY <1>5, <2>1 DEF NoDoubleOwner, ChunkOf, PosIndex
    <2> QED
      BY <1>4, <1>5, <2>1, <2>2 DEF NoDoubleOwner
  <1>12. OwnedUnreachable'
    <2>1. Reach(e)' = {c[2]}
      BY <1>3 DEF Reach, NilPos
    <2>2. \A f \in EntitySizes \ {e} : Reach(f)' = Reach(f)
      BY <1>3 DEF Reach
    <2>3. Owned' \subseteq Chunk
      BY <1>4, <1>5, ClaimFacts, GoodSliceFacts DEF Owned, LiveChunks, IInv
    <2>4. ASSUME NEW o \in Owned' PROVE o[2] \notin Reach(o[1])'
      <3>1. o \in Owned /\ o # c /\ o = <<o[1], o[2]>> /\ o[1] \in EntitySizes
        BY <1>6, <2>3, ChunkFacts
      <3>2. CASE o[1] = e
        BY <1>2, <2>1, <3>1, <3>2
      <3>3. CASE o[1] # e
        BY <2>2, <3>1, <3>3 DEF IInv, OwnedUnreachable
      <3> QED
        BY <3>2, <3>3
    <2> QED
      BY <2>4 DEF OwnedUnreachable
  <1>13. OwnedCleared'
    <2>1. \A q \in Procs \ {p} : pc'[q] = pc[q]
      BY <1>1 DEF Others
    <2> QED
      BY <1>2, <1>4, <1>5, <2>1 DEF IInv, OwnedCleared
  <1>14. (\A x \in Chunk : chunks[x].flag = 0)'
    BY <1>2 DEF IInv
  <1> QED
    BY <1>0, <1>6, <1>1, <1>7, <1>8, <1>9, <1>10, <1>11, <1>12, <1>13, <1>14 DEF IInv

-----------------------------------------------------------------------------
(* The safety theorems.                                                    *)

LEMMA IInvStep == IInv /\ [Next]_vars => IInv'
  <1> SUFFICES ASSUME IInv, [Next]_vars PROVE IInv'
    OBVIOUS
  <1>1. ASSUME NEW p \in Procs, Call(p) PROVE IInv'
    BY <1>1, AllocHeapStep, AllocPopStep, ReleaseIgnoredStep, ReleasePushStep
       DEF Call
  <1>2. ASSUME NEW p \in Procs, Step(p) PROVE IInv'
    BY <1>2, PopLoadStep, PopEmptyStep, PopNextStep, PopCasStep, PopRetryStep,
       PopClearStep, PushQuietStep, PushCasStep
       DEF Step
  <1>3. ASSUME NEW d \in live, NEW k \in 1 .. (d.cap - 1), Reslice(d, k)
        PROVE  IInv'
    BY <1>3, ResliceStep
  <1>4. CASE UNCHANGED vars
    <2> USE <1>4 DEF vars
    <2>1. TypeOK' /\ (\A c \in Chunk : chunks[c].flag = 0)'
      BY DEF IInv, TypeOK
    <2>2. /\ PoolSlices' = PoolSlices
          /\ \A d : ChunkOf(d)' = ChunkOf(d)
          /\ \A p \in Procs : Claim(p)' = Claim(p)
      BY DEF PoolSlices, ChunkOf, PosIndex, Claim, Popped, Pushed
    <2>3. LiveChunks' = LiveChunks
      BY <2>2 DEF LiveChunks
    <2>4. Owned' = Owned
      BY <2>2, <2>3 DEF Owned
    <2>5. (\A e \in EntitySizes : HeadOK(e))' /\ OwnedUnreachable'
      BY <2>4, ListStill
    <2>6. (\A p \in Procs : LocalOK(p))'
      BY DEF IInv, LocalOK, PopOK, PushOK, Popped, GoodSlice
    <2>7. (\A d \in PoolSlices : GoodSlice(d))'
      BY <2>2 DEF IInv, GoodSlice
    <2>8. NoDoubleOwner' /\ OwnedCleared'
      BY <2>2, <2>3 DEF IInv, NoDoubleOwner, OwnedCleared
    <2> QED
      BY <2>1, <2>5, <2>6, <2>7, <2>8 DEF IInv
  <1> QED
    BY <1>1, <1>2, <1>3, <1>4 DEF Next

\* The inductive invariant holds in every state of every behaviour.
THEOREM Invariance == Spec => []IInv
  BY InitIInv, IInvStep, PTL DEF Spec

\* Every variable keeps its type and no position leaves its entity.
THEOREM TypeCorrect == Spec => []TypeOK
  <1>1. IInv => TypeOK
    BY DEF IInv
  <1> QED
    BY <1>1, Invariance, PTL

\* No chunk is ever in two hands, for any number of goroutines.
THEOREM MutualExclusion == Spec => []NoDoubleOwner
  <1>1. IInv => NoDoubleOwner
    BY DEF IInv
  <1> QED
    BY <1>1, Invariance, PTL

\* No chunk that somebody owns can be popped.
THEOREM FreeListSafe == Spec => []OwnedNotFree
  BY IInvOwnedNotFree, Invariance, PTL

\* Releasing each slice once never panics.
THEOREM NoPanic == Spec => []NoFalsePanic
  BY IInvNoFalsePanic, Invariance, PTL

\* A pop's compare-and-swap never installs a stale successor (no ABA).
THEOREM NoABA == Spec => SwapInstallsTheLink
  <1>1. IInv /\ [Next]_vars =>
          [\A p \in Procs : PopCas(p) => nxt[p] = chunks[Popped(p)].nextPos]_vars
    BY PopCasFacts
  <1> QED
    BY <1>1, Invariance, PTL DEF Spec, SwapInstallsTheLink

-----------------------------------------------------------------------------
(* BytesPool implements ChunkPool: each atomic step of pop, push and the    *)
(* callers takes one chunk, gives one back, forgets one, or changes neither *)
(* what is free nor what is used.                                           *)

(* Initially every chunk is on its entity's list.                          *)

LEMMA InitRefines == Init => Promise!Init
  <1> SUFFICES ASSUME Init PROVE FreeChunks = Chunk /\ Owned = {}
    BY DEF Promise!Init
  <1>1. Owned = {}
    BY DEF Init, Owned, LiveChunks, PoolSlices, Claim
  <1>2. ASSUME NEW e \in EntitySizes PROVE FreeList(e) = 1 .. ChunkLen(e)
    <2>1. pos[e].idx = 1 /\ ChunkLen(e) \in Nat
      BY EntityFacts DEF Init
    <2>2. \A i \in 1 .. ChunkLen(e) : i < ChunkLen(e) =>
            chunks[<<e, i>>].nextPos.idx = i + 1
      BY ChunkFacts DEF Init, InitialChunk
    <2>3. ASSUME NEW S \in SUBSET (1 .. ChunkLen(e)), 1 \in S, LinkClosed(e, S)
          PROVE  1 .. ChunkLen(e) \subseteq S
      <3>1. \A i \in 1 .. ChunkLen(e) :
              i \in S /\ i < ChunkLen(e) => i + 1 \in S
        <4> SUFFICES ASSUME NEW i \in 1 .. ChunkLen(e), i \in S,
                            i < ChunkLen(e)
                     PROVE  i + 1 \in S
          OBVIOUS
        <4>1. chunks[<<e, i>>].nextPos.idx = i + 1 /\ i + 1 # 0
          BY <2>1, <2>2
        <4>2. chunks[<<e, i>>].nextPos.idx # 0 =>
                chunks[<<e, i>>].nextPos.idx \in S
          BY <2>3 DEF LinkClosed
        <4> QED
          BY <4>1, <4>2
      <3> QED
        BY <2>1, <2>3, <3>1, IntervalByLinks
    <2> QED
      BY <2>1, <2>3 DEF FreeList
  <1>3. FreeChunks = Chunk
    BY <1>2, ChunkFacts DEF FreeChunks
  <1> QED
    BY <1>1, <1>3

-----------------------------------------------------------------------------
(* What the steps do to the free list.                                     *)

LEMMA FreeListIndex ==
  \A e, i : i \in FreeList(e) => i \in 1 .. ChunkLen(e)
  BY DEF FreeList

\* What FreeList says, as a rule to use and a rule to show.
LEMMA FreeListRule ==
  ASSUME NEW e, NEW i \in 1 .. ChunkLen(e)
  PROVE  i \in FreeList(e) <=>
           \A S \in SUBSET (1 .. ChunkLen(e)) :
             (pos[e].idx # 0 => pos[e].idx \in S) /\ LinkClosed(e, S) => i \in S
  BY DEF FreeList

LEMMA FreeStill ==
  ASSUME UNCHANGED <<pos, chunks>>
  PROVE  FreeChunks' = FreeChunks
  <1>1. \A e : FreeList(e)' = FreeList(e)
    BY DEF FreeList, LinkClosed
  <1> QED
    BY <1>1 DEF FreeChunks

\* The head's own links do not matter to the lists of the other entities.
LEMMA OtherLists ==
  ASSUME NEW e \in EntitySizes, chunks' = chunks, pos'[e] = pos[e]
  PROVE  FreeList(e)' = FreeList(e)
  BY DEF FreeList, LinkClosed

\* A pop takes the head off its entity's list and nothing else.
LEMMA PopCasFree ==
  ASSUME IInv, NEW p \in Procs, PopCas(p)
  PROVE  /\ Popped(p) \in FreeChunks
         /\ FreeChunks' = FreeChunks \ {Popped(p)}
  <1>1. PICK e \in EntitySizes, c \in Chunk : e = ent[p] /\ c = Popped(p)
    BY PopCasFacts
  <1>2. /\ chunks' = chunks
        /\ c = <<e, pos[e].idx>> /\ c[1] = e /\ c[2] = pos[e].idx
        /\ pos[e].idx \in 1 .. ChunkLen(e) /\ ChunkLen(e) \in Nat
        /\ pos'[e] = chunks[c].nextPos
        /\ \A f \in EntitySizes \ {e} : pos'[f] = pos[f]
    BY <1>1, PopCasFacts, EntityFacts
       DEF HeadPositions, Popped, IInv, TypeOK
  <1>3. c \in FreeChunks
    BY <1>2 DEF FreeChunks, FreeList
  <1>4. c[2] \notin Reach(e)'
    <2>1. IInv' /\ c \in Owned'
      BY <1>1, PopCasStep
    <2> QED
      BY <1>2, <2>1 DEF IInv, OwnedUnreachable
  <1>5. c[2] \notin FreeList(e)'
    <2>1. IInv'
      BY PopCasStep
    <2>2. (IInv => FreeList(e) \subseteq Reach(e))'
      BY FreeIsReachable, PTL
    <2> QED
      BY <1>4, <2>1, <2>2
  <1>6. FreeList(e)' \subseteq FreeList(e)
    <2> SUFFICES ASSUME NEW i \in FreeList(e)',
                        NEW S \in SUBSET (1 .. ChunkLen(e)),
                        pos[e].idx \in S, LinkClosed(e, S)
                 PROVE  i \in S
      BY <1>2 DEF FreeList
    <2>1. pos'[e].idx # 0 => pos'[e].idx \in S
      BY <1>2 DEF LinkClosed
    <2>2. LinkClosed(e, S)'
      BY <1>2 DEF LinkClosed
    <2> QED
      BY <2>1, <2>2 DEF FreeList
  <1>7. FreeList(e) \subseteq FreeList(e)' \union {c[2]}
    <2> SUFFICES ASSUME NEW i \in FreeList(e), i # c[2],
                        NEW S \in SUBSET (1 .. ChunkLen(e)),
                        pos'[e].idx # 0 => pos'[e].idx \in S,
                        LinkClosed(e, S)'
                 PROVE  i \in S
      BY <1>2 DEF FreeList
    <2> DEFINE U == S \union {c[2]}
    <2>1. U \in SUBSET (1 .. ChunkLen(e)) /\ pos[e].idx \in U
      BY <1>2
    <2>2. LinkClosed(e, U)
      BY <1>2 DEF LinkClosed
    <2>3. i \in U
      BY <2>1, <2>2 DEF FreeList
    <2> QED
      BY <2>3
  <1>8. FreeList(e)' = FreeList(e) \ {c[2]}
    BY <1>5, <1>6, <1>7
  <1>9. \A f \in EntitySizes \ {e} : FreeList(f)' = FreeList(f)
    BY <1>2, OtherLists
  <1>10. \A d \in Chunk : d = c <=> d[1] = e /\ d[2] = c[2]
    BY <1>2, ChunkFacts
  <1>11. FreeChunks' = FreeChunks \ {c}
    BY <1>8, <1>9, <1>10, ChunkFacts DEF FreeChunks
  <1> QED
    BY <1>1, <1>3, <1>11

\* Clearing the link of a popped chunk changes no list, since the chunk is on
\* none.
LEMMA PopClearFree ==
  ASSUME IInv, NEW p \in Procs, PopClear(p)
  PROVE  FreeChunks' = FreeChunks
  <1>1. PICK c \in Chunk : c = Popped(p)
    BY ClaimFacts DEF PopClear, Claim
  <1>2. /\ pos' = pos
        /\ chunks'[c].nextPos = NilPos
        /\ \A x \in Chunk \ {c} : chunks'[x] = chunks[x]
    BY <1>1 DEF PopClear, IInv, TypeOK
  <1>3. c[2] \notin Reach(c[1])
    BY <1>1 DEF IInv, OwnedUnreachable, Owned, PopClear, Claim
  <1>4. ASSUME NEW e \in EntitySizes PROVE FreeList(e)' = FreeList(e)
    <2>1. FreeList(e)' \subseteq FreeList(e)
      <3> SUFFICES ASSUME NEW i \in FreeList(e)',
                          NEW S \in SUBSET (1 .. ChunkLen(e)),
                          pos[e].idx # 0 => pos[e].idx \in S, LinkClosed(e, S)
                   PROVE  i \in S
        BY DEF FreeList
      <3>1. LinkClosed(e, S)'
        BY <1>2, ChunkFacts DEF LinkClosed, NilPos
      <3> QED
        BY <1>2, <3>1 DEF FreeList
    <2>2. FreeList(e) \subseteq FreeList(e)'
      <3> SUFFICES ASSUME NEW i \in FreeList(e),
                          NEW S \in SUBSET (1 .. ChunkLen(e)),
                          pos'[e].idx # 0 => pos'[e].idx \in S,
                          LinkClosed(e, S)'
                   PROVE  i \in S
        BY DEF FreeList
      <3> DEFINE U == S \intersect Reach(e)
      <3>1. /\ U \in SUBSET (1 .. ChunkLen(e))
            /\ pos[e].idx # 0 => pos[e].idx \in U
        BY <1>2, ReachFacts
      <3>2. \A j \in U : <<e, j>> \in Chunk /\ <<e, j>> # c
        BY <1>3, <3>1, ChunkFacts
      <3>3. LinkClosed(e, U)
        BY <1>2, <3>2, ReachFacts DEF LinkClosed
      <3>4. i \in U
        BY <3>1, <3>3 DEF FreeList
      <3> QED
        BY <3>4
    <2> QED
      BY <2>1, <2>2
  <1> QED
    BY <1>4, ChunkFacts DEF FreeChunks

\* A push makes the released chunk its entity's whole list.
LEMMA PushCasFree ==
  ASSUME IInv, NEW p \in Procs, PushCas(p)
  PROVE  /\ Pushed(p) \in FreeChunks'
         /\ FreeChunks' \subseteq FreeChunks \union {Pushed(p)}
         /\ \A d \in FreeChunks : d[1] # Pushed(p)[1] => d \in FreeChunks'
  <1>1. PICK e \in EntitySizes, c \in Chunk : e = ent[p] /\ c = Pushed(p)
    BY PushCasFacts
  <1>2. /\ chunks' = chunks
        /\ c[1] = e /\ c[2] \in 1 .. ChunkLen(e) /\ c = <<e, c[2]>>
        /\ pos'[e] = [idx |-> c[2], flag |-> 1]
        /\ \A f \in EntitySizes \ {e} : pos'[f] = pos[f]
    BY <1>1, PushCasFacts, ChunkFacts DEF IInv, TypeOK
  <1>3. FreeList(e)' = {c[2]}
    <2>1. c[2] \in FreeList(e)'
      BY <1>2, EntityFacts DEF FreeList
    <2>2. FreeList(e)' \subseteq Reach(e)'
      <3>1. IInv'
        BY PushCasStep
      <3>2. (IInv => FreeList(e) \subseteq Reach(e))'
        BY FreeIsReachable, PTL
      <3> QED
        BY <3>1, <3>2
    <2>3. Reach(e)' = {c[2]}
      BY <1>2 DEF Reach, NilPos
    <2> QED
      BY <2>1, <2>2, <2>3
  <1>4. \A f \in EntitySizes \ {e} : FreeList(f)' = FreeList(f)
    BY <1>2, OtherLists
  <1>5. \A d \in Chunk : d = c <=> d[1] = e /\ d[2] = c[2]
    BY <1>2, ChunkFacts
  <1> QED
    BY <1>1, <1>2, <1>3, <1>4, <1>5, ChunkFacts DEF FreeChunks

-----------------------------------------------------------------------------
(* The refinement.                                                         *)

LEMMA OwnedAreChunks == IInv => Owned \subseteq Chunk
  BY ClaimFacts, GoodSliceFacts DEF Owned, LiveChunks, IInv

LEMMA StepRefines == IInv /\ [Next]_vars => [Promise!Next]_(Promise!vars)
  <1> SUFFICES ASSUME IInv, [Next]_vars
               PROVE  Promise!Next \/ UNCHANGED <<FreeChunks, Owned>>
    BY DEF Promise!vars
  <1>1. Still => UNCHANGED <<FreeChunks, Owned>>
    BY FreeStill DEF Still
  <1>2. ASSUME NEW p \in Procs, Call(p)
        PROVE  Promise!Next \/ UNCHANGED <<FreeChunks, Owned>>
    <2>1. CASE \E size \in Requests : AllocHeap(p, size) \/ AllocPop(p, size)
      BY <1>1, <2>1, AllocHeapStep, AllocPopStep
    <2>2. CASE \E d \in live : ReleasePush(p, d)
      BY <1>1, <2>2, ReleasePushStep
    <2>3. ASSUME NEW d \in live, ReleaseIgnored(p, d)
          PROVE  Promise!Next \/ UNCHANGED <<FreeChunks, Owned>>
      <3>1. /\ UNCHANGED <<pos, chunks>>
            /\ Owned' = Owned \/ \E c \in Owned : Owned' = Owned \ {c}
        BY <2>3, ReleaseIgnoredStep
      <3>2. ASSUME NEW c \in Owned, Owned' = Owned \ {c} PROVE Promise!Forget(c)
        BY <3>1, <3>2, FreeStill DEF Promise!Forget
      <3> QED
        BY <3>1, <3>2, FreeStill, OwnedAreChunks DEF Promise!Next
    <2> QED
      BY <1>2, <2>1, <2>2, <2>3 DEF Call
  <1>3. ASSUME NEW p \in Procs, Step(p)
        PROVE  Promise!Next \/ UNCHANGED <<FreeChunks, Owned>>
    <2>1. CASE PopLoad(p) \/ PopEmpty(p) \/ PopNext(p) \/ PopRetry(p)
      BY <1>1, <2>1, PopLoadStep, PopEmptyStep, PopNextStep, PopRetryStep
    <2>2. CASE PushCheck(p) \/ PushLoad(p) \/ PushRetry(p)
      BY <1>1, <2>2, PushQuietStep
    <2>3. CASE PopCas(p)
      <3>1. Promise!Take(Popped(p))
        BY <2>3, PopCasStep, PopCasFree DEF Promise!Take
      <3> QED
        BY <2>3, <3>1, PopCasFacts DEF Promise!Next
    <2>4. CASE PopClear(p)
      BY <2>4, PopClearStep, PopClearFree
    <2>5. CASE PushCas(p)
      <3>1. Pushed(p) \in Owned
        <4>1. Pushed(p) \in Claim(p)
          BY <2>5, PushCasFacts
        <4> QED
          BY <4>1 DEF Owned
      <3>2. Promise!Give(Pushed(p))
        BY <2>5, <3>1, PushCasStep, PushCasFree DEF Promise!Give
      <3> QED
        BY <2>5, <3>2, PushCasFacts DEF Promise!Next
    <2> QED
      BY <1>3, <2>1, <2>2, <2>3, <2>4, <2>5 DEF Step
  <1>4. ASSUME NEW d \in live, NEW k \in 1 .. (d.cap - 1), Reslice(d, k)
        PROVE  UNCHANGED <<FreeChunks, Owned>>
    BY <1>1, <1>4, ResliceStep
  <1>5. CASE UNCHANGED vars
    <2>1. Owned' = Owned
      BY <1>5 DEF vars, Owned, LiveChunks, PoolSlices, ChunkOf, PosIndex, Claim,
         Popped, Pushed
    <2> QED
      BY <1>5, <2>1, FreeStill DEF vars
  <1> QED
    BY <1>2, <1>3, <1>4, <1>5 DEF Next

\* The pool keeps the promise of ChunkPool.
THEOREM Refinement == Spec => RefinesChunkPool
  <1>1. Spec => Promise!Init /\ [][Promise!Next]_(Promise!vars)
    BY InitRefines, StepRefines, Invariance, PTL DEF Spec
  <1> QED
    BY <1>1, PTL DEF RefinesChunkPool, Promise!Spec

\* What the promise is good for: no chunk is free and used at once.
LEMMA PromiseIsSafe == Promise!Spec => []Promise!FreeOrUsed
  <1>1. Promise!Init => Promise!FreeOrUsed
    BY DEF Promise!Init, Promise!FreeOrUsed
  <1>2. Promise!FreeOrUsed /\ [Promise!Next]_(Promise!vars) => Promise!FreeOrUsed'
    BY DEF Promise!FreeOrUsed, Promise!Next, Promise!Take, Promise!Give,
           Promise!Forget, Promise!vars
  <1> QED
    BY <1>1, <1>2, PTL DEF Promise!Spec

\* Alloc never hands out memory that a caller still has: at no moment is a
\* chunk on a free list and in a slice of a caller or in a call's hands.
THEOREM NeverTwice == Spec => []Promise!FreeOrUsed
  BY Refinement, PromiseIsSafe, PTL DEF RefinesChunkPool
=============================================================================
