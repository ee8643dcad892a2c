----------------------------- MODULE BytesPool -----------------------------
(***************************************************************************)
(* The size-classed byte pool of bytes_pool/bytes_pool.go.                 *)
(*                                                                         *)
(* A pool is a list of entities, one per block size.  An entity cuts one   *)
(* memory block into chunks of its size and threads the free ones on a     *)
(* list: pos is the head and each chunk's nextPos the link.  A position    *)
(* packs a chunk index (1 is the first, 0 means "no chunk") in its upper   *)
(* 32 bits and a tag, the chunk's flag, in the lower ones; here it is a    *)
(* record.  Goroutines run pop and push concurrently on loads, stores and  *)
(* compare-and-swaps of these words, so each atomic access is an action.   *)
(*                                                                         *)
(* A byte slice is its backing memory, its offset in it and its capacity   *)
(* (Release looks at nothing else); memory Heap stands for everything      *)
(* make() returned.                                                        *)
(***************************************************************************)
EXTENDS Integers

CONSTANTS
  Procs,       \* goroutines that call the pool
  InitSize,    \* NewBytesPool's initSize: block size of the first entity
  MaxSize,     \* NewBytesPool's maxSize
  MemorySize,  \* NewBytesPool's memorySize: bytes of each entity
  Requests     \* the sizes Alloc is called with

\* initSize = 0 divides by zero and a negative one never ends the loop of
\* NewBytesPool; a size is what make([]byte, size) accepts.
ASSUME PoolAssumption ==
  /\ InitSize \in Nat \ {0}
  /\ MaxSize \in Nat
  /\ MemorySize \in Nat
  /\ Requests \subseteq Nat

\* The sizes the loop of NewBytesPool visits, which identify the entities.
EntitySizes ==
  {s \in InitSize .. MaxSize :
     s <= MemorySize /\ \E k \in 0 .. MaxSize : s = InitSize * 2^k}

ChunkLen(e) == MemorySize \div e

Chunk == {c \in EntitySizes \X (1 .. MemorySize) : c[2] <= ChunkLen(c[1])}

Heap == 0

\* chk.data: memory[i*bytesSize : (i+1)*bytesSize : (i+1)*bytesSize].
ChunkSlice(c) == [mem |-> c[1], off |-> (c[2] - 1) * c[1], cap |-> c[1]]

HeapSlice(size) == [mem |-> Heap, off |-> 0, cap |-> size]

\* The chunk whose bytes a slice of an entity's memory starts in.
PosIndex(d, e) == (d.off \div e) + 1
ChunkOf(d) == <<d.mem, PosIndex(d, d.mem)>>

NilPos == [idx |-> 0, flag |-> 0]
Positions == [idx : Nat, flag : Nat]

-----------------------------------------------------------------------------
VARIABLES
  pos,     \* entity -> e.pos
  chunks,  \* chunk -> [nextPos, flag], the shared chunk structs
  live,    \* the slices the callers hold
  pc,      \* goroutine -> the statement it is about to run
  ent,     \* goroutine -> the entity its call works on
  req,     \* goroutine -> Alloc's size
  data,    \* goroutine -> Release's slice
  cur,     \* goroutine -> currentPos
  nxt,     \* goroutine -> nextPos, in pop
  chk      \* goroutine -> push's chk, which is a COPY of the chunk struct

vars == <<pos, chunks, live, pc, ent, req, data, cur, nxt, chk>>

NoChunk == [nextPos |-> NilPos, flag |-> 0]
NoSlice == HeapSlice(0)

Calling == {"popLoad", "popNext", "popCas", "popClear", "pushCheck",
            "pushLoad", "pushCas"}

\* Seeded fault: the last chunk is not told apart and links past the end.
InitialChunkUnguarded(c) ==
  [nextPos |-> [idx |-> c[2] + 1, flag |-> 0], flag |-> 0]

\* Every chunk links to the one after it, the last to none.
InitialChunk(c) ==
  [nextPos |-> IF c[2] < ChunkLen(c[1]) THEN [idx |-> c[2] + 1, flag |-> 0]
                                        ELSE NilPos,
   flag    |-> 0]

Init ==
  /\ pos = [e \in EntitySizes |-> [idx |-> 1, flag |-> 0]]
  /\ chunks = [c \in Chunk |-> InitialChunk(c)]
  /\ live = {}
  /\ pc = [p \in Procs |-> "idle"]
  /\ ent = [p \in Procs |-> 0]
  /\ req = [p \in Procs |-> 0]
  /\ data = [p \in Procs |-> NoSlice]
  /\ cur = [p \in Procs |-> NilPos]
  /\ nxt = [p \in Procs |-> NilPos]
  /\ chk = [p \in Procs |-> NoChunk]

Goto(p, label) == pc' = [pc EXCEPT ![p] = label]

\* A call returns and its locals die.
Return(p) ==
  /\ Goto(p, "idle")
  /\ ent' = [ent EXCEPT ![p] = 0]
  /\ req' = [req EXCEPT ![p] = 0]
  /\ data' = [data EXCEPT ![p] = NoSlice]
  /\ cur' = [cur EXCEPT ![p] = NilPos]
  /\ nxt' = [nxt EXCEPT ![p] = NilPos]
  /\ chk' = [chk EXCEPT ![p] = NoChunk]

-----------------------------------------------------------------------------
(* Alloc and pop.                                                          *)

\* Entity e is the first one of entityList whose blocks hold size bytes.
Serves(e, size) ==
  /\ size <= MaxSize
  /\ size <= e
  /\ \A f \in EntitySizes : size <= f => e <= f

\* No entity is asked: make([]byte, size).
AllocHeap(p, size) ==
  /\ pc[p] = "idle"
  /\ ~ \E e \in EntitySizes : Serves(e, size)
  /\ live' = live \union {HeapSlice(size)}
  /\ UNCHANGED <<pos, chunks, pc, ent, req, data, cur, nxt, chk>>

AllocPop(p, size) ==
  /\ pc[p] = "idle"
  /\ \E e \in EntitySizes :
       /\ Serves(e, size)
       /\ ent' = [ent EXCEPT ![p] = e]
  /\ req' = [req EXCEPT ![p] = size]
  /\ Goto(p, "popLoad")
  /\ UNCHANGED <<pos, chunks, live, data, cur, nxt, chk>>

\* currentPos := atomic.LoadUint64(&e.pos): a chunk is there.
PopLoad(p) ==
  /\ pc[p] = "popLoad"
  /\ pos[ent[p]] # NilPos
  /\ cur' = [cur EXCEPT ![p] = pos[ent[p]]]
  /\ Goto(p, "popNext")
  /\ UNCHANGED <<pos, chunks, live, ent, req, data, nxt, chk>>

\* currentPos is 0: pop returns nil, no larger entity is tried (break), and
\* Alloc falls back on make.
PopEmpty(p) ==
  /\ pc[p] = "popLoad"
  /\ pos[ent[p]] = NilPos
  /\ live' = live \union {HeapSlice(req[p])}
  /\ Return(p)
  /\ UNCHANGED <<pos, chunks>>

\* The chunk currentPos names.
Popped(p) == <<ent[p], cur[p].idx>>

\* nextPos := atomic.LoadUint64(&chk.nextPos).
PopNext(p) ==
  /\ pc[p] = "popNext"
  /\ nxt' = [nxt EXCEPT ![p] = chunks[Popped(p)].nextPos]
  /\ Goto(p, "popCas")
  /\ UNCHANGED <<pos, chunks, live, ent, req, data, cur, chk>>

\* Seeded fault: the store does not compare with what was loaded.
SwapBlindly(p, new) == pos' = [pos EXCEPT ![ent[p]] = new]

\* The compare-and-swap of e.pos succeeds.
Swap(p, new) ==
  /\ pos[ent[p]] = cur[p]
  /\ pos' = [pos EXCEPT ![ent[p]] = new]

PopCas(p) ==
  /\ pc[p] = "popCas"
  /\ Swap(p, nxt[p])
  /\ Goto(p, "popClear")
  /\ UNCHANGED <<chunks, live, ent, req, data, cur, nxt, chk>>

\* Seeded fault: the retry does not load e.pos again.
PopRetryStale(p) ==
  /\ pc[p] = "popCas"
  /\ pos[ent[p]] # cur[p]
  /\ Goto(p, "popNext")
  /\ UNCHANGED <<pos, chunks, live, ent, req, data, cur, nxt, chk>>

PopRetry(p) ==
  /\ pc[p] = "popCas"
  /\ pos[ent[p]] # cur[p]
  /\ Goto(p, "popLoad")
  /\ UNCHANGED <<pos, chunks, live, ent, req, data, cur, nxt, chk>>

\* Seeded fault: the popped chunk keeps its link.
PopKeepsLink(p) ==
  /\ pc[p] = "popClear"
  /\ live' = live \union {ChunkSlice(Popped(p))}
  /\ Return(p)
  /\ UNCHANGED <<pos, chunks>>

\* atomic.StoreUint64(&chk.nextPos, 0), and Alloc returns the chunk's bytes.
PopClear(p) ==
  /\ pc[p] = "popClear"
  /\ chunks' = [chunks EXCEPT ![Popped(p)].nextPos = NilPos]
  /\ live' = live \union {ChunkSlice(Popped(p))}
  /\ Return(p)
  /\ UNCHANGED pos

-----------------------------------------------------------------------------
(* The callers' own slicing, Release and push.                             *)

\* data[k:]: the first k bytes and their capacity are given up.
Suffix(d, k) == [mem |-> d.mem, off |-> d.off + k, cap |-> d.cap - k]

Reslice(d, k) ==
  /\ d \in live
  /\ d.mem # Heap
  /\ k \in 1 .. (d.cap - 1)
  /\ live' = (live \ {d}) \union {Suffix(d, k)}
  /\ UNCHANGED <<pos, chunks, pc, ent, req, data, cur, nxt, chk>>

\* Seeded fault: the memory the pointer points into is not checked.
InAnyRange(d, e) == d.mem # Heap /\ d.off <= (ChunkLen(e) - 1) * e

\* beginPtr <= ptr && ptr <= endPtr: endPtr is where the last chunk starts.
InRange(d, e) == d.mem = e /\ d.off <= (ChunkLen(e) - 1) * e

\* push gets a slice only when its capacity is an entity's size, and takes
\* it only when it points into that entity's memory.
Accepted(d) == d.cap \in EntitySizes /\ InRange(d, d.cap)

ReleaseIgnored(p, d) ==
  /\ pc[p] = "idle"
  /\ d \in live
  /\ ~ Accepted(d)
  /\ live' = live \ {d}
  /\ UNCHANGED <<pos, chunks, pc, ent, req, data, cur, nxt, chk>>

\* Release calls push on the entity, which takes the slice.
BeginPush(p, d) ==
  /\ pc[p] = "idle"
  /\ Accepted(d)
  /\ data' = [data EXCEPT ![p] = d]
  /\ ent' = [ent EXCEPT ![p] = d.cap]
  /\ Goto(p, "pushCheck")
  /\ UNCHANGED <<pos, chunks, req, cur, nxt, chk>>

ReleasePush(p, d) ==
  /\ d \in live
  /\ BeginPush(p, d)
  /\ live' = live \ {d}

Pushed(p) == <<ent[p], PosIndex(data[p], ent[p])>>

\* chk := e.chunks[posIndex] copies the struct, so chk.flag++ counts in the
\* copy; a link in the chunk is panic("chunk had been release").
PushCheck(p) ==
  LET c == chunks[Pushed(p)] IN
  /\ pc[p] = "pushCheck"
  /\ chk' = [chk EXCEPT ![p] = [c EXCEPT !.flag = @ + 1]]
  /\ Goto(p, IF c.nextPos = NilPos THEN "pushLoad" ELSE "panicked")
  /\ UNCHANGED <<pos, chunks, live, ent, req, data, cur, nxt>>

\* currentPos := atomic.LoadUint64(&e.pos), then the store of it to
\* &chk.nextPos, which goes to the copy.
PushLoad(p) ==
  /\ pc[p] = "pushLoad"
  /\ cur' = [cur EXCEPT ![p] = pos[ent[p]]]
  /\ chk' = [chk EXCEPT ![p].nextPos = pos[ent[p]]]
  /\ Goto(p, "pushCas")
  /\ UNCHANGED <<pos, chunks, live, ent, req, data, nxt>>

\* Seeded fault: the new position carries no tag.
UpdateUntagged(p) == [idx |-> Pushed(p)[2], flag |-> 0]

UpdatePos(p) == [idx |-> Pushed(p)[2], flag |-> chk[p].flag]

PushCas(p) ==
  /\ pc[p] = "pushCas"
  /\ Swap(p, UpdatePos(p))
  /\ Return(p)
  /\ UNCHANGED <<chunks, live>>

PushRetry(p) ==
  /\ pc[p] = "pushCas"
  /\ pos[ent[p]] # cur[p]
  /\ Goto(p, "pushLoad")
  /\ UNCHANGED <<pos, chunks, live, ent, req, data, cur, nxt, chk>>

-----------------------------------------------------------------------------
\* What a goroutine does inside a call, once the call has begun.
Step(p) ==
  \/ PopLoad(p) \/ PopEmpty(p) \/ PopNext(p) \/ PopCas(p) \/ PopRetry(p)
  \/ PopClear(p)
  \/ PushCheck(p) \/ PushLoad(p) \/ PushCas(p) \/ PushRetry(p)

Call(p) ==
  \/ \E size \in Requests : AllocHeap(p, size) \/ AllocPop(p, size)
  \/ \E d \in live : ReleaseIgnored(p, d) \/ ReleasePush(p, d)

Next ==
  \/ \E p \in Procs : Call(p) \/ Step(p)
  \/ \E d \in live : \E k \in 1 .. (d.cap - 1) : Reslice(d, k)

Spec == Init /\ [][Next]_vars

\* The Go scheduler preempts: a goroutine inside a call is run again.  No
\* goroutine is obliged to call.
FairSpec == Spec /\ \A p \in Procs : WF_vars(Step(p))

-----------------------------------------------------------------------------
(* Who has which chunk.                                                    *)

\* A set of chunk indices that follows the links of entity e.
LinkClosed(e, S) ==
  \A i \in S : LET n == chunks[<<e, i>>].nextPos.idx IN n # 0 => n \in S

\* The free list of e: the least link-closed set that has e.pos in it.
FreeList(e) ==
  {i \in 1 .. ChunkLen(e) :
     \A S \in SUBSET (1 .. ChunkLen(e)) :
       /\ pos[e].idx # 0 => pos[e].idx \in S
       /\ LinkClosed(e, S)
       => i \in S}

FreeChunks == {c \in Chunk : c[2] \in FreeList(c[1])}

\* The chunk a call in progress has taken off the list, or is giving back.
Claim(p) ==
  CASE pc[p] = "popClear" -> {Popped(p)}
    [] pc[p] \in {"pushCheck", "pushLoad", "pushCas"} -> {Pushed(p)}
    [] OTHER -> {}

PoolSlices == {d \in live : d.mem # Heap}

LiveChunks == {ChunkOf(d) : d \in PoolSlices}

Owned == LiveChunks \union UNION {Claim(p) : p \in Procs}

-----------------------------------------------------------------------------
(* Properties.                                                             *)

\* Every variable has the type its Go declaration gives it, and a position
\* never names a chunk the entity does not have.
TypeOK ==
  /\ pos \in [EntitySizes -> Positions]
  /\ \A e \in EntitySizes : pos[e].idx <= ChunkLen(e)
  /\ chunks \in [Chunk -> [nextPos : Positions, flag : Nat]]
  /\ \A c \in Chunk : chunks[c].nextPos.idx <= ChunkLen(c[1])
  /\ live \subseteq [mem : Nat, off : Nat, cap : Nat]
  /\ pc \in [Procs -> Calling \union {"idle", "panicked"}]
  /\ ent \in [Procs -> EntitySizes \union {0}]
  /\ req \in [Procs -> Nat]
  /\ data \in [Procs -> [mem : Nat, off : Nat, cap : Nat]]
  /\ cur \in [Procs -> Positions]
  /\ nxt \in [Procs -> Positions]
  /\ chk \in [Procs -> [nextPos : Positions, flag : Nat]]

\* A chunk's bytes are never in two hands: not in two slices the callers
\* hold, not in one of those and in a call in progress, not in two calls.
\* This is what makes Alloc's result the caller's own memory.
NoDoubleOwner ==
  /\ \A p \in Procs : Claim(p) \intersect LiveChunks = {}
  /\ \A p, q \in Procs : p # q => Claim(p) \intersect Claim(q) = {}
  /\ \A d1, d2 \in PoolSlices : d1 # d2 => ChunkOf(d1) # ChunkOf(d2)

\* What somebody owns cannot be popped: no chain of links from e.pos leads to
\* an owned chunk, whatever pops and pushes are half done.
OwnedNotFree == Owned \intersect FreeChunks = {}

\* A caller that releases each slice once never meets the panic of push: an
\* owned chunk's nextPos has been cleared by the pop that handed it out.
NoFalsePanic == \A p \in Procs : pc[p] # "panicked"

\* The nextPos a pop read before its compare-and-swap is still the popped
\* chunk's link when the swap succeeds: the flag in the position rules out
\* that the head went away and came back (ABA) with another successor.
SwapInstallsTheLink ==
  [][\A p \in Procs : PopCas(p) => nxt[p] = chunks[Popped(p)].nextPos]_vars

\* Lock freedom: while a call is in progress some call returns, however the
\* compare-and-swaps of pop and push make each other retry.  (No single call
\* is promised to return: others may keep winning.)
SomeCallReturns ==
  \/ []<><<\E p \in Procs : pc[p] # "idle" /\ pc'[p] = "idle">>_vars
  \/ <>[](\A p \in Procs : pc[p] = "idle")

\* A release adds a chunk to the free list and takes none off it.  push means
\* to link the released chunk to the current head before it becomes the head
\* (the comment and the store at bytes_pool.go:154-156).
ReleaseKeepsFreeList ==
  [][\A p \in Procs : PushCas(p) => FreeChunks \subseteq FreeChunks']_vars

\* The pool keeps the promise of ChunkPool: see there.
Promise == INSTANCE ChunkPool WITH free <- FreeChunks, used <- Owned
RefinesChunkPool == Promise!Spec
=============================================================================
