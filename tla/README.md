# A TLA+ development for go-tevid-utils

go-tevid-utils is a library of small Go packages: a lock-free pool of byte
slices, HTTP services that profile the process, an insertion-ordered set, a
reader of SQL rows into structs, two binary codecs, files of lines, and helpers.
This directory holds TLA+ models of the parts with behaviour of their own, the
TLC runs that check them on small instances, and TLAPS proofs for every instance:
every safety property of a passing run is a theorem, and so are both refinements.
Paths below are relative to the repository's root.

Contents: [1 Inventory](#1-inventory) · [2 Plan](#2-plan) ·
[3 Modules and code](#3-modules-and-code) · [4 Runs](#4-runs) ·
[5 Fairness, deadlock, symmetry](#5-fairness-deadlock-symmetry) ·
[6 Proofs](#6-proofs) · [7 What the code does otherwise](#7-what-the-code-does-otherwise-than-it-says) ·
[8 Not modelled](#8-not-modelled)

## 1 Inventory

The packages do not call each other, except that `binary/binary_pack.go` uses
the casts of `binary/uti.go` and the getters and putters of `binary/binary.go`.
They interact with their callers' goroutines, with the Go runtime and with
readers and writers they are handed.

| component | state it keeps | operations | hard behaviour | correct when |
|---|---|---|---|---|
| `bytes_pool` | per block size an atomic word `pos` (head of the free list and a tag), per chunk an atomic link `nextPos` and a counter `flag`; the memory blocks | `NewBytesPool`, `Alloc`, `Release`; inside, `pop` and `push` with compare-and-swap loops | any number of goroutines without locks; ABA; callers that reslice what they got, or release it twice | no two callers have the same bytes; nothing owned is on a free list; some call always makes progress |
| `debug_profile` services | per service `started`; per request a `WaitGroup`; per worker its file and saved rate; in the process the CPU sampler, the tracer, `MemProfileRate`, the block rate | `StartProfile`, `StartProfileWithContxt`, `ServeHTTP`, `ProfileCPU/MEM/Block/Trace`, `DoTrace` | HTTP requests at once; a worker per kind with a timer's callback or a context; the runtime's global state; `log.Fatalf` from any goroutine | one session per service; no worker outlives its session; nobody stops or overwrites another's profile; the heap rate comes back; requests are answered |
| `debug_profile` configuration | package variables | `DEBUG_PROFILE`, `LoadConfigFile`, `GenerateRangePort` | none | — |
| `ordered_map` | a Go map and a Go slice of the same elements | `New`, `Add`, `Remove`, `Exist`, `Slice`, `Map`, `Len`, `IsEmpty`, `MarshalJSON`, `UnmarshalJSON` | aliasing of the slice's array; NaN; unhashable elements; a panic half way | map and slice agree; each element once, in order of insertion; an earlier `Slice()` result stays what it was until a removal |
| `db_scan` | none between calls; in a call the maps of the rows and the target being built | `Scan`, `ExtraDatasFromRows`, conversions | rows that break off; a conversion that fails after others; NULL; widths | the target gets all rows or none; no row shows in another; numbers that fit arrive |
| `binary` struct codec | the visitor's size, reader or writer, byte order | `Sizeof`, `Pack`, `UnPack`, and with order; `PackTlv`, `UnPackTlv` | recursion with byte orders and tags that are inherited or not; short reads; a stream that ends | unpacking gives back what was packed and leaves the rest alone; the size is the number of bytes |
| `binary` format codec | none | `FormatPack`, `FormatUnPack`, `FormatCalSize` | letters treated differently by the three; casts whose errors are dropped | the three agree |
| `binary` integers, varints, casts | none (one `rand.Rand`) | getters and putters, `To...` casts, helpers | a case per type, each with its width and sign; float conversions Go leaves open | a number that its types hold exactly comes through a chain of casts; a float is the nearest one |
| `file_util` | none; an open file per call, the file system, the process's descriptors | `CreateFile`, `ReadLine`, `WriteIntoFile` (append or overwrite), `RemoveFile` | several callers on one path; check then create; a fallback that truncates; writes whose errors are ignored; a file never closed | alone, each call does what it says; appenders keep each other's lines; a reader sees one moment; an old file is not emptied by `CreateFile` |
| `ip_util`, `crash_dump`, `string_util` | none | calls of the standard library | none | — |

What is hard to test in this code is listed, line by line and with the property
that would notice, under "hazards" in `PROJECT.json`.

## 2 Plan

Order of work; a module is written, checked, and then proved about.

| | modules | abstract specification | runs | proofs |
|---|---|---|---|---|
| 1 | `BytesPool`, the only lock-free code | `ChunkPool` | `pool*` | `BytesPoolProofs` |
| 2 | `DebugProfile`: services, sessions, workers, the runtime's shared state | — | `profile*` | `DebugProfileProofs` |
| 3 | `OrderedMap` with Go's slice aliasing and JSON | `OrderedSet` | `ordered_map` | `OrderedMapProofs` |
| 4 | `DbScan` | its properties | `db_scan` | `DbScanProofs` |
| 5 | `BinaryCodec` (with the TLV frames) and `FormatPack` (with `Casts`) over `ByteOrder` | their round trips | `codec`, `format*` | `BinaryCodecProofs`, `FormatPackProofs` |
| 6 | `FileUtil` over an external file system | `Promise`, per call | `file*` | `FileUtilProofs` |

All of it is done. What could still be added: copies of an `OrderedMap` value (a
second handle on the same map) and `UvarintSize`/`VarintSize` as functions.

Composition: `ChunkPool` and `OrderedSet` are instantiated by `BytesPool` and
`OrderedMap` with refinement mappings; `BinaryCodec` and `Casts` extend
`ByteOrder`, which extends `Numerals`, and `FormatPack` extends `Casts`.
`IntervalLemmas` holds the facts about intervals, division, sums and powers that the
proof modules share. The `MC...` modules hold the constants of the runs. No module
declares a RECURSIVE operator: recursion is a stack of nodes in `BinaryCodec`, a
recursive function over an interval where numbers are added up or multiplied (`Sums`
and `Powers` of `Numerals`), and a fold elsewhere.

## 3 Modules and code

"map" in `PROJECT.json` gives the lines of every definition. This section says
how to read them.

### BytesPool (`bytes_pool/bytes_pool.go`)

A position, a `uint64` of index and tag, is a record `[idx, flag]`; index 0 is
"no chunk". `pos` and `chunks` are the shared words. Each goroutine has a
program counter `pc` and the locals of its call (`ent`, `req`, `data`, `cur`,
`nxt`, `chk`), which die when it returns.

| code | actions |
|---|---|
| `Alloc` (88-104) | `AllocHeap` when no entity serves the size; `AllocPop` calls `pop` |
| `pop` (120-138) | `PopLoad` or `PopEmpty`; `PopNext`; `PopCas` or `PopRetry`; `PopClear` |
| `Release` (107-118) | `ReleaseIgnored`; `ReleasePush` |
| `push` (140-163) | `PushCheck` (panics or goes on); `PushLoad`; `PushCas` or `PushRetry` |
| callers | `Reslice`: a slice's prefix is given up, as `data[k:]` does |

Each atomic access is a step of its own. The exceptions are steps of one
goroutine on words nobody else can see: the loads of `chk` in `push` are of a
copy, so the store to its link joins the load before it. `Release` finds the
entity by the capacity alone; the model does the same, and `InRange` is the
code's pointer comparison, whose end is the *start* of the last chunk.

`push` takes `chk := e.chunks[posIndex]`, a copy of the struct. The model keeps
that: `flag` never grows in `chunks` and the link is never stored there.

What a released chunk's list is: `FreeList(e)` is the least set of indices
closed under the links from `pos`; it is given without recursion, so that the
prover can use it.

### ChunkPool

The promise: `Take` moves one chunk from free to used, `Give` makes one free
again and may *lose* other free ones of its size, `Forget` drops a chunk that is
returned in a shape `Release` does not recognise. The refinement mapping is
`free <- FreeChunks, used <- Owned`; a chunk is used from the moment the swap
takes it off the list until the swap that puts it back.

### DebugProfile (`debug_profile/debug_profile.go`)

A request is the goroutine net/http runs `ServeHTTP` on; it has one worker per
kind. `hpc` is where the handler is, `wpc` where each worker is, `wg` the
WaitGroup. `sampler[k]` says who started the running CPU profile or trace,
`rate[k]` is `MemProfileRate` or the block rate. The runtime is external:
starting a running sampler is an error (which the code ignores), stopping one
stops whatever runs. `Crash` is `log.Fatalf`; nothing happens after it.
`ProfileMEM` saves `MemProfileRate` (271) and writes it back; `ProfileBlock` sets the
block rate to 1 (302) and to 0 (308, 316) and saves nothing. `AppRate` and
`AppBlockRate` are the rates the application runs with, so that the second one is
lost by a session (§7).

The timer's callback and the branch that waits for the context run the same
statements, so they are the same actions with different guards (`TimeIsUp`).
`Refuse` is the reply "profile service already called".

### OrderedMap, OrderedSet (`ordered_map/orderedmap.go`)

`array` is the backing array of `dataslice`, `len` its length; capacity grows
1, 2, 4, ... as `append` does for small slices. `datamap` counts entries per
key, because NaN makes a new one each time. `views` are results of `Slice()`
that callers kept; a view is a window on `array` until `dataslice` moves.
`UnmarshalJSON` is `Unmarshal`, then a `Load` per element, or `LoadPanics` when
the element cannot be a map key. The abstract `OrderedSet` is a sequence with
`Insert` at the end, `Delete` that keeps the order, and `Clear`.

JSON has no integers of Go: `Decoded` says what a value is after `MarshalJSON`
and `UnmarshalJSON` (an `int` is a `float64`, which is another key), and there is
no NaN in it. `saved` remembers what `MarshalJSON` wrote and `loaded` the document
that `UnmarshalJSON` reads; both are forgotten when `Add` or `Remove` change the
map, so that `JsonKeeps` compares the two ends of a round trip.

### DbScan (`db_scan/db_scan.go`)

`pc` follows `Scan`: reading rows, then a struct per row, field by field (`BeginRow`,
`SetField`, `FieldFails`, `EndRow`). All rows are scanned into the same `cells`
(98-101): `ScanRow` overwrites them and `CopyRow` makes the row's map from them
(108-112); `ScanFails` and `NextEnds` are the other ends of a round. `mine` is the
caller's memory, `work` the struct being filled, `built` the slice being built, which
becomes the caller's only in the last `EndRow` (136). No rows at all are an error for
a struct, and for a slice a success that leaves its old elements there (78-79):
`NoRows`. `database/sql`'s rows are external: `Next` may
return false because the rows end or because the connection broke. A value is a
type and a number; integers have two sizes, `Narrow` and `Wide` numbers (4 and 8
in the run), that stand for narrower and full width.

### ByteOrder, BinaryCodec, FormatPack (`binary/`)

`Encode` and `Decode` are the getters and putters in base `Base` (256 in the code).
`BinaryCodec` is the reflective walk as a stack of nodes with three phases, `Sizeof`,
`Pack`, `UnPack`; the visitor's byte order and the field's tag come with each node,
because lists, structs and leaves inherit them differently. A pointer is what it
points to and a nil pointer is `other`, but a list knows whether its elements are
pointers, because `Sizeof` does: it counts the elements of `[]T` one by one when `T`
is a struct, and takes the first one's size for all of them when it is `*T` or
anything else (`SizeList`). `WellFormed` says which nodes are Go values: a list's
elements have one type (`OneType`). Between `Pack` and `UnPack` the bytes may be
framed: `PackTlv` puts an `int16` tag and an `int16` length before them, which is
negative or wraps for long data, the frame loses its last bytes or is followed by
others, and `UnPackTlv` takes the data out, fails, or panics in `make`.

Readers are external, of two sorts: one whose `Read` fills its buffer if it can, and
one that may give less. Both give at least a byte while there is one, and `io.EOF`
only with none; `io.Reader` would also allow data together with `io.EOF`, and neither
data nor an error, and `RoundTrip` and `EndNoticed` say nothing of such readers.

`FormatPack` steps through a format's letters with the three functions one after
the other; the last number that `FormatUnPack` returns is then cast to any type
(`CastResult`). The casts are exported, so an argument may also be cast without being
packed (`CastArgument`): that is how texts, bools and nil reach all of them. `result[:n]`
of a text (584) is limited by the capacity and not by the length: it panics
(`UnPackPanics`) or takes bytes behind the slice (`UnPackTextBeyond`). The default case
of `FormatUnPack` (643) needs no action, since `FormatPack` has refused the format.

### Casts (`binary/uti.go`)

A value is a type and a number. `ToInt`, `ToUint`, `ToFloat`, `ToBool` and
`ToText` have a disjunct per group of cases of the code's type switches; the
signed ones are one operator with the width as argument, and so on. A cast has
a *set* of outcomes, because Go leaves open what a conversion of a float gives
that the integer cannot hold. A text is the number written in it, or
`NotANumber`.

A float is a whole number that its type holds exactly (`Holds`, a constant), or
`NotANumber`, which stands for all others: fractions, infinities, NaN and a negative
zero. A number that is cast to a float becomes a `Nearest` one (of two as near, Go takes
the even one, the model either), or an infinity if it is larger than all of them; so
`float32(16777217)` is 16777216 if `Holds` is what `float32` holds. `FloatBits` is
`math.Float32bits` and `Float64bits`: any injection will do, since the code only reads
back what it has written.

### FileUtil (`file_util/file_util.go`)

Every system call is a step: `os.Stat` (`StatFinds`, `StatFindsNothing`),
`os.OpenFile` (`OpenExisting`, `OpenFails`), `os.Open` (`OpenToRead`),
`os.Create` (`Create`, `CreateFails`), a write (`WriteLine`, `WriteFails`), a
read of bufio's buffer (`Fill`, `EndOfFile`), `os.Remove`, and the deferred
`Close` (`Return`). The file system is external: a path names an inode, a
directory or nothing, and an inode lives as long as it has a name or a
descriptor. A write with `O_APPEND` goes to the end of the file, one without to
the descriptor's own offset, behind holes if the file has shrunk.

`leaked` counts the files that `ReadLine` leaves open; `Finalize` is the garbage
collector finding one. `FdLimit` is what makes opens fail, and the fallbacks of
`openToAppend` and `openToOverwrite` happen.

`ghost` is not in the code: it remembers for each call what its path held when it
began, whether it has been alone, and whether its file has only been appended to.
The properties need it and no guard reads it. (`Fresh` avoids an inode that a
ghost still remembers, so that the name of a removed file is not used for
another one while somebody compares.)

## 4 Runs

| run | instance | distinct states | shows |
|---|---|---|---|
| `pool` | 2 goroutines, blocks of 1 (three) and 2 (one) bytes, requests for 1, 2, 3 | 354,384 | `NoDoubleOwner`, `OwnedNotFree`, `NoFalsePanic`, `SwapInstallsTheLink`, `RefinesChunkPool` |
| `pool_live` | 2 goroutines, three chunks of 1 byte | 24,514 | `SomeCallReturns`: lock freedom |
| `pool_loss` | 1 goroutine, 2 chunks | violation | a release loses the free chunks, §7 |
| `profile` | 1 service with all kinds, 2 requests with three mode lists | 15,440 | `OneSession`, `NoWorkerLeftBehind`, `SamplerFileOpen`, `GlobalsRestored` |
| `profile_two` | 2 services without a common kind, one with a context, 2 requests, a `DoTrace` goroutine | 190,840 | `StopsItsOwn` between services, `EveryRequestAnswered` |
| `ordered_map` | values a, an int, a float64, NaN, an unhashable one, documents with duplicates, up to 3 elements, a kept `Slice()` | 466,212 | `MapMatchesSlice`, `NoDuplicates`, `SliceStable`, `JsonKeeps`, `RefinesOrderedSet` |
| `db_scan` | up to 2 rows of 3 columns (two of one name), 9 fields, 5 shapes of target | 74,112 | `AllOrNothing`, `RowByRow`, `NumbersArrive`, `OnlyFirstRow` |
| `codec` | structs of up to 3 fields out of 20 sorts, base 4, both orders, two readers, whole and cut streams, with and without a frame | 209,792 | `RoundTrip`, `SizeExact`, `EndNoticed`, `FrameWhole` |
| `format` | formats of one letter, of two with an integer's last, and text formats, base 2, floats of 4 and 8 bits, twelve arguments of nine types, a cast to every type | 785,162 | `CalSizeExact`, `UnPackGivesBack`, `CastKeeps` |
| `format_all` | as `format` | violation | letters c b B are skipped, §7 |
| `file` | 2 callers, 3 calls, five kinds of call on one path, 2 descriptors | 102,831 | `AloneDoesIt`, `AppendersShare`, `ReadsOneMoment`, `CreateSparesTheOld` |
| `file_append` | as `file` | violation | an appender empties the file, §7 |

Every passing run but the ones with a narrower question also checks the type
invariant of its module.

**Bounds and why they are enough.**

- *Pool.* ABA needs one goroutine that sleeps between load and swap and one that
  pops and pushes meanwhile, and a second chunk behind the head: two goroutines
  and three chunks have it, with one chunk to spare. The block of 2 bytes is
  what a suffix must not be mistaken for: its suffix has the capacity of the
  smaller class. `MemorySize = 3` leaves a byte that belongs to no chunk of 2.
  The request of 3 is larger than every block. There is no bound on the number
  of calls: `push` counts in a copy, so that tags are 0 or 1, and slices of the
  heap are alike, so the space is finite of itself. The proofs of §6 do away with the
  bounds for safety.
- *Profile.* Two requests are enough for two to meet at `started`; a third would
  meet one of them in the same way. One service with every kind has all workers
  at once; two services are the least that can disturb each other. `NothingShared`
  is a premise of `GlobalsRestored` and `StopsItsOwn` and holds in both runs:
  services that do share a kind disturb each other, and nothing in the
  repository forbids or promises otherwise. The application has rates of its own
  (512 and 10) that no session sets.
- *OrderedMap.* Three elements cross the growths 0-1, 1-2 and 2-4, with and
  without a free place behind the window, and a removal at the first, a middle
  and the last place. `MaxLen` guards `Insert`; documents have at most three
  elements, so that the guard never stops `UnmarshalJSON`'s loop. An int and the
  float64 it becomes are both values, so that the two can meet in a document.
- *DbScan.* Two rows let a row show in another, a failing field comes after
  filled ones and after a finished row; the numbers are those at both ends of
  both widths. A query may have no rows, and two of the three columns NULLs.
- *Codec, format.* A string, a list, a struct and an integer of either sign at the
  first, a middle and the last place; nested in lists and structs with and without
  tags, lists of lists and of pointers, alike and different. A base of 4 or 2 makes
  all widths small without losing what distinguishes them: the sign bit and the order
  of the bytes. The texts that are longer, shorter and as long as their format's
  length; numbers that fit all, some or no letters. The floats of `format` have 4 and
  8 bits as IEEE 754 lays them out: the narrow type holds 0, 1, 2, 4 and 8 and the
  wide one every number up to 16, then every other one, every fourth, and so on up to
  240. So 7 is rounded by the first, 17 by the second, and 255 is beyond both; base 2
  does not hide what floats lose. A number cast to an integer that cannot hold it may
  become anything, so formats of two letters end with an integer's. Data of 9 and of
  17 bytes make the frame's length, which is two digits of base 4, negative and
  wrapped.
- *FileUtil.* Two callers are the least that can meet between a check and what follows
  it; the third call is what comes after (a reader after two writers, a second
  appender after a removal). With two descriptors an open fails after two `ReadLine`s,
  or after one while the other caller has its file. A buffer of 3 cells makes a
  `ReadLine` of the initial file take two reads, the first of which ends inside a
  line. The initial file has no newline at its end and begins with a comment. (With
  four calls the run has 1,088,331 states and the same result.)

**Each property can fail.** The operators marked "Seeded fault" next to the
definition they stand in for are what a plausible slip in that code would look
like (a dropped compare, a stale retry, an old value read late, an element moved
instead of the tail). "mutants" in `PROJECT.json` names, for every property of
every passing run, one that makes TLC report it.

## 5 Fairness, deadlock, symmetry

*Fairness.* Go's scheduler is preemptive and gives each runnable goroutine
processor time, so a goroutine inside a call or a handler takes its next step
(`WF` of `Step(p)`, `Handler(r)`, `Worker(r, k)`), and a timer fires. Nobody is
obliged to call, to release, to request or to cancel a context: those have no
fairness. Weak fairness is enough, and nothing stronger would be true of the
compare-and-swaps: `SomeCallReturns` says that *some* call returns, since a
single goroutine may lose every race. `EveryRequestAnswered` has as its premise
that the time is up or the context cancelled.

*Deadlock* is checked, except where the system really stops: a process that
called `log.Fatalf` (`profile*`), a call that has returned (`db_scan`, `codec`,
`format*`), callers that make no more calls (`file*`).

*Symmetry* of goroutines (`pool`), of requests (`profile`) and of callers
(`file*`) is used in runs of safety properties only; the actions treat them
alike and no definition chooses among them.

## 6 Proofs

The constants are arbitrary, but for what the ASSUME of each module says:

| module | assumed |
|---|---|
| `BytesPool` | `PoolAssumption`: a positive `initSize`, natural `maxSize`, `memorySize` and requests. `Procs` need not even be finite. |
| `DebugProfile` | `ProfileAssumption`: services, requests and tracing goroutines are distinct things, in any number; each service offers any kinds; the application runs with any rates. |
| `OrderedMap` | `MapAssumption`: map keys and unhashable values are disjoint; no NaN is in JSON or comes out of it. |
| `DbScan` | `DbScanAssumption`: the types of fields and stored values, any number of columns, fields and rows. |
| `FileUtil` | `FileAssumption`: finitely many callers, any calls and initial files, any number of descriptors and calls. |
| `ByteOrder` | `ByteOrderAssumption`: an even base of 2 or more. |
| `BinaryCodec` | `BinaryCodecAssumption`: any Go values (`WellFormed`), nested at will and as long as one likes; any objects among them; any tails of bytes; tags of `int16`. |
| `Casts` | `CastsAssumption`: `NotANumber` is no integer; the numbers that the two float types hold are any sets of integers with 0 in them, those of the narrow one among those of the wide one; different floats have different bits, within their width. |
| `FormatPack` | `FormatPackAssumption`: any formats of letters and counts; any arguments that are Go values (`IsValue`), texts without a number and floats that are no whole numbers among them; any texts and tails of bytes. |

| theorem | statement |
|---|---|
| **`BytesPoolProofs`**: `Invariance` | `Spec => []IInv` |
| `TypeCorrect` | `Spec => []TypeOK` |
| `MutualExclusion` | `Spec => []NoDoubleOwner` |
| `FreeListSafe` | `Spec => []OwnedNotFree` |
| `NoPanic` | `Spec => []NoFalsePanic` |
| `NoABA` | `Spec => SwapInstallsTheLink` |
| `Refinement` | `Spec => RefinesChunkPool` |
| `NeverTwice` | `Spec => []Promise!FreeOrUsed`: what the abstract pool promises |
| **`DebugProfileProofs`**: `Invariance` | `Spec => []IInv` |
| `TypeCorrect` | `Spec => []TypeOK` |
| `Exclusion` | `Spec => []OneSession` |
| `WorkersEnd` | `Spec => []NoWorkerLeftBehind` |
| `FilesOpen` | `Spec => []SamplerFileOpen` |
| `GlobalsBack` | `Spec => []GlobalsRestored` |
| `OwnStops` | `Spec => StopsItsOwn` |
| **`OrderedMapProofs`**: `Invariance` | `Spec => []IInv` |
| `TypeCorrect` | `Spec => []TypeOK` |
| `MapIsSlice` | `Spec => []MapMatchesSlice` |
| `EachOnce` | `Spec => []NoDuplicates` |
| `ViewsStay` | `Spec => []SliceStable` |
| `JsonOrder` | `Spec => []JsonKeeps` |
| `Refinement` | `Spec => RefinesOrderedSet` |
| **`DbScanProofs`**: `Invariance` | `Spec => []IInv` |
| `OwnRow` | `Spec => []RowByRow` |
| `Atomic` | `Spec => []AllOrNothing` |
| `FirstRowOnly` | `Spec => []OnlyFirstRow` |
| `TypeCorrect` | `Spec => []TypeOK` |
| `Arrival` | `Spec => []NumbersArrive` |
| **`FileUtilProofs`**: `Invariance` | `Spec => []IInv` |
| `TypeCorrect` | `Spec => []TypeOK` |
| `Appending` | `Spec => []AppendersShare` |
| `Reading` | `Spec => []ReadsOneMoment` |
| `Alone` | `Spec => []AloneDoesIt` |
| `OldFileSpared` | `Spec => CreateSparesTheOld` |
| **`BinaryCodecProofs`**: `Invariance` | `Spec => []IInv` |
| `TypeCorrect` | `Spec => []TypeOK` |
| `ComesBack` | `Spec => []RoundTrip` |
| `CutNoticed` | `Spec => []EndNoticed` |
| `FrameKept` | `Spec => []FrameWhole` |
| `SizeKept` | `Spec => []SizeExact` |
| **`FormatPackProofs`**: `Invariance` | `Spec => []IInv` |
| `TypeCorrect` | `Spec => []TypeOK` |
| `SizeExact` | `Spec => []CalSizeExact` |
| `GivesBack` | `Spec => []UnPackGivesBack` |
| `CastsKeep` | `Spec => []CastKeeps` |

In each module the proof goes the same way: an inductive invariant `IInv`, a lemma
per action that it is kept, and the theorems as its consequences.

### The pool

**Why an invariant of its own.** `NoDoubleOwner` is not inductive: that the swap
of a pop does not hand out a chunk somebody has depends on what the free list
reaches, on what a sleeping pop remembers of it, and on the chunks of pushes
half way.

`IInv` (in `BytesPoolProofs`) adds to `TypeOK` and `NoDoubleOwner`:

- `HeadOK`: the head of a list has tag 0 and is an initial chunk, and then it and
  all chunks after it are as `NewBytesPool` linked them; or it has tag 1 and is a
  released chunk, alone on its list; or there is none. (`push` counts in a copy,
  so no other tag occurs: the chunks' own `flag` stays 0.)
- `OwnedUnreachable`: no owned chunk is among those the head leads to. With
  `Reach` given by the two shapes of a list instead of a fixed point, the prover
  can compute with it; `ReachFacts` shows that the free list is within it.
- `OwnedCleared`: an owned chunk has no link, but for the one between a pop's
  swap and its clearing store. This is what keeps `push` from panicking.
- `PopOK`: what a sleeping pop has in its hands. If its position has tag 1 its
  chunk has no link; if it has tag 0 the head, while it has tag 0, has only moved
  past it. So a head that is back at the remembered position still has the link
  the pop read: this is the ABA argument, and the reason the tag is needed.
- `PushOK` and `GoodSlice`: a slice in a caller's hands is the end of one chunk,
  by integer division of its offset (`BlockOfOffset`), and a slice that `Release`
  takes is a whole chunk.

There is one lemma per action (`PopCasStep`, `PushCasStep`, ...), and
`QuietStep` for all those that touch neither heads nor chunks nor who owns what.

**The refinement.** `PopCas` is `Take`, `PushCas` is `Give`, `ReleaseIgnored` may
be `Forget`, and every other step leaves both sets alone. `FreeList` is a least
fixed point, so that a chunk is on it is shown for every closed set, and that it
is not by giving one. At the start all chunks are on their list:
`IntervalByLinks` proves that a set with 1 in it and closed under "the next one"
is the whole interval. It argues with a least number that is missing, since
induction rules that take a predicate cannot be used with the provers at hand.

`PromiseIsSafe` shows of the abstract pool alone that no chunk is free and used at
once; with the refinement, `NeverTwice` says it of the code's pool.

### The profiler

That a session's workers have all ended when `ServeHTTP` replies rests on the
WaitGroup's counter meaning what it should. `CountOK` says it: `wg[r]` is the
number of kinds whose worker is there (`Busy(r)`), which needs `SessionOK`, that
workers exist only while their handler is spawning or waiting, and never for a
kind it has still to come to. `wg.Add` and the end of a worker each change one
element of `Busy` (`CountBound` and the lemmas after it do the cardinalities).

`GlobalsRestored` and `StopsItsOwn` have `NothingShared` as their premise, and so
have the two parts of `IInv` behind them: `SamplerOK`, that who is about to stop a
sampler is who started it; `RateOK`, that the heap rate differs from the application's
only while a worker that knows the application's has set it, and the block rate is the
application's or 0 but while a worker has set it. Two workers of one
kind would belong to one service and so, by `OneSession`, to one request.
`SamplerFileOpen` holds without that premise.

### The ordered set

`MapMatchesSlice` counts: `datamap[v]` is the number of `v`'s places in the slice.
Insertion adds the last place; removal moves the tail one place down, and the
places after it are shown to be as many by a bijection. `ViewOK` is the aliasing
argument: a result of `Slice()` that still shares the array is no longer than the
array, and as long as nothing was removed no longer than `dataslice`, so that
`Add` writes behind it or into another array. `LoadedOK` says that between two
rounds of `UnmarshalJSON`'s loop the slice is the document read so far without
repetitions; `SavedOK` that what `MarshalJSON` wrote has none, so that it comes
back whole (`FirstsOfDistinct`, again by `IntervalByLinks`). For the refinement,
`Insert` and `Remove` map to `OrderedSet`'s `Insert` and `Delete`, the new slice
and map of `UnmarshalJSON` to `Clear`, each round of its loop to an `Insert` or to
no step at all.

### The row reader

`MapsOK` says that each map holds its own row, though the cells hold the newest one:
between a `ScanRow` and its `CopyRow` they are the row that has no map yet. A map that
shared the cells would not keep it. `WorkOK` is the heart of the conversion: in a new
instance the fields before the current one are what their row sets and the others are
zero. So `EndRow` appends just `Filled(row)`, which depends on no other row. `MineOK`
says that the caller's memory is as it was until the end, except for a struct of the
caller's own, which is filled in place; at the end `built` is all rows' values
(`ProgressOK` counts them), and `AllOrNothing` follows. The conversions are opaque in
that part.

`ValuesOK` is about the values, and inductive given `IInv`: `FitOK`, that every
field holds a value of its kind and size (`ConvertFits`), and `TakenOK`, that the
fields the first row sets have in them what its conversion gives. That a number the
field has room for comes out as itself (`ConvertKeeps`) goes by cases of the
column's type and the field's kind; where the code cuts a number to the field's
size, division tells that it stays (`ModFacts`).

### Line files

`IInv` is `TypeOK`, `FewDescriptors` and for each call `Spared` and `CallOK`, whose
parts say how far the call has come (`StepsOK`, `LinesOK`), what an appender
(`AppendOK`), a reader (`ReadOK`) and an undisturbed call (`AloneOK`) can rely on.
A step of one caller has to show these for itself and `Kept` for the others: to a
call whose file is only appended to, nothing happens but a line, or for a reader
some cells, behind what there was. `StepOfOne` puts the two together.

`AppendOK`: behind the cells an appender found there are whole lines
(`WholeLines`), and the ones it has sent are among them in their order, be they
mixed with those of others; a line is two cells, so that its place is a matter of
parity (`AddedFacts`, `NextLine`). `ReadOK`: what a reader has is the beginning of
the file as it is, and so the file as it was at the moment of its last read.

`FewDescriptors` is the operating system's side: it never gives out more descriptors
than it has. `SparedOK` is the reason for `CreateSparesTheOld`: `os.Stat` has
found nothing, so the path does not name the old inode when `os.Create` comes, and
it cannot name it again, since a new file is never one that somebody remembers
(`FreshFacts`, by counting what is known against the inodes there are).

### The struct codec

`UnPack` is a walk over the object like the one of `Pack`, some time later. What it
may expect from the stream is not to be seen in the state, but depends on where the
walk is; and how a stack of nodes is walked is not given by the constants in one
step. So the proof has walks as objects: a *place* is a stack with the number of
leaves and of bytes before it, `Goes` leads from one place to the next, and
`Made(n, h, start, t, p, b)` says that the `n` steps of the walk `h` lead from the
stack `start` to the stack `t` and that each leaf on the way has left its record in
`p` and its bytes in `b`, just where the walk came to it (`Laid`).

`PackOK` says that such a walk has made `put` and `wire`; a visit makes it one step
longer (`WalkOn`). `UnPackOK` says that the stack of `UnPack` is one of the places of
the walk that made `put` and `sent` (`At`), and what is `Left` there: if what
`RoundTrip` and `EndNoticed` suppose is the case (`Deal`), the bytes from this place
to the end of the stream are the ones still to be read, and the leaves up to it have
come back. So the next visit finds the bytes of its own leaf (`ComesNext`), reads
them (`IntBack`, `SizedBack`, `TerminatedBack`, `RestBack`: one lemma per way of
reading), and is at the next place (`ReadOn`). A stream that is cut before a leaf ends
just where the walk comes to that leaf (`EndingFacts`), and not before
(`NotAtEnd`). `FramedOK` has the bytes of the frame as far as they are there; that
its length is read back as it was, and that a frame of which a byte is lost cannot
hold what its length says, is `FrameFacts`. Both rest on the integers in bytes
(`IntegerFacts`: what `SetInt` gives back for a number of its width).

`SizeExact` compares two walks that differ: where `Pack` visits the elements of a
list one after the other, `Sizeof` visits the first one and counts it as often as
there are elements. `Weighs(st, a, b)` is that there is a walk over the whole stack
`st` that begins with the sum `a` and ends with `b`, and the proof is a small algebra
of it: what stands first on a stack is added first (`WeighsBefore`, `WeighsPart`), a
sum may begin anywhere (`WeighsShift`), items that count `m` times weigh `m` times as
much (`WeighsScaled`), and `m` items of one weight do, too (`WeighsAlike`). So one
element of a list, counted for all, is what all weigh, where each weighs the same
(`WeighsEstimate`, with `ElementsWeigh` for the cases of `SameSize`). `Counts` is then
inductive, given `IInv`: if the object weighs `b`, then so do `size` and the stack
together while `Sizeof` runs, and `size` is `b` thereafter. What `Pack` has written
is what its object weighs, if no tag has cut a string (`PackWeighs`).

The attempt to prove `SizeExact` showed that it was false of an earlier model, in
which the lists of the run had too few shapes to tell: lists of lists that differ,
and lists of pointers to structs, were taken to be of one size. `SameSize` and
`IsStructList` say now what the code compares, and the run has such lists.

### The format codec

Its three functions run one after the other, so `IInv` tells for each what it has
done when it is through `pos - 1` letters. `PackOK`: the bytes so far are, at the
places that `Sizes` gives, the codes of the numbers so far (`PackedTo`), or the
text and zeros behind it (`TextIn`); so their number is what `FormatCalSize` says.
`ReadOK`: if all that was
packed is there, the reader has not panicked, what it still has begins where the
letters read end, and each number read is one that the cast to its letter's type
gives (`Came`), unless a letter is skipped (§7).

The heart is one letter (`NumberBack`): a value is cast to the letter's type, its bits
are encoded in the type's width and decoded in the same order, and the bits give the
number again that the cast gave. Numbers are lost in the cast alone: `CastFacts` says
what it keeps, a number that the type holds exactly or for a float a nearest one
(`FloatKeeps`); a number that is itself held is the only one nearest to it
(`NearestFacts`). For `Encode` and `Decode` that is
`DigitsAddUp`: the digits of a number, each with its power of the base, add up to
the number less what is left over beyond the last one. `CastKeeps` is proved from the
case distinctions of `uti.go` alone, for all types the code knows, all numbers, and
whichever of them floats hold.

The sums and powers are recursive functions over an interval. That such a function
exists (`SumsExist`, `PowersExist` in `IntervalLemmas`) has to be shown before its
equation can be used; this, too, goes by the smallest argument that has none.

Writing the proofs down showed places where the model's cases overlapped (the
conversions of `DbScan`, `Written` in `FileUtil`): TLC takes the first case, the
prover none. They are disjoint now.

### Only model-checked

- `SomeCallReturns` and `EveryRequestAnswered`: liveness under fairness is out of
  reach of the prover, which has no ENABLED.
- The three violations of §7.

## 7 What the code does otherwise than it says

Shown by a run:

- **The free list is lost by a release** (`pool_loss`). The comment at
  `bytes_pool/bytes_pool.go:154` says that the returned block points to the
  current head; the store goes to a copy, so the released chunk becomes a head
  without successor and all chunks that were free are lost. Nothing unsafe
  follows (§6): the pool shrinks to the chunks that are released last and
  `Alloc` falls back on `make`.
- **`FormatUnPack` skips c, b and B** (`format_all`): the case has no statements,
  though `FormatPack` writes a byte and `FormatCalSize` counts it. (The cases also name
  a `?`, which never gets there: `regexFormat` takes the letters from `\w`, and a format
  that is only `?` is an error.)
- **An appender empties the file** (`file_append`). `openToAppend`, "opens in the
  way of appending" by its comment, falls back on `os.Create` when it cannot open
  the file. Of two callers that find no file, the second truncates what the first
  has made and written; both report success. The same happens to a single caller
  whose `OpenFile` fails for want of a descriptor that is there a moment later.

Met on the way, without a run of their own:

- A session that profiles blocking leaves the block rate at 0
  (`debug_profile/debug_profile.go:308`, 316), whatever rate the application has given to
  `SetBlockProfileRate`; the heap rate it saves and restores. `GlobalsRestored` says just
  that.
- `Scan` into a slice reports success for a query without rows and leaves the slice as it
  was, with the elements of an earlier query (`db_scan/db_scan.go:78`).
- A number packed as `f` loses its low bits beyond 2^24, as `d` beyond 2^53, without an
  error: the nearest float comes back.
- A second release of a slice goes unnoticed: the check at
  `bytes_pool/bytes_pool.go:147` looks at the link that `push` never stores. The
  proofs and the run `pool` are about callers that release each slice once.
- `MODE_DEBUG_PROFILE_ALL` (`debug_profile/debug_profile.go:28`) starts nothing:
  `ServeHTTP` looks for the modes 1 to 4 only. The model's requests may ask for it.
- `RemoveDuplicatesAndEmpty` (`file_util/file_util.go:79`) removes a duplicate only
  where it follows its like at once.
- `ReadLine` returns at `io.EOF` before it looks at what it has read: a last line
  without a newline is not returned (`Lines` has this).

## 8 Not modelled

- `debug_profile`'s configuration, `ip_util`, `crash_dump`, `string_util`: string
  handling and system calls without state or protocol.
- `file_util`: `GenChannelCode` (a hash of the date), `IsExist` (one `os.Stat`),
  `RemoveDuplicatesAndEmpty` (a pure loop); the empty path, which is an error at once.
- `bytes_pool`: the contents of the bytes; `initSize <= 0`, for which the
  constructor divides by zero or does not end; callers that release twice.
- `ordered_map`: concurrent use, which the type does not offer; writes of callers
  through `Map()` or into a `Slice()`; value copies.
- `db_scan`: fields for which reflection panics (slices other than `[]byte`,
  structs that are not `time.Time`).
- `binary`: the sizes of varints, pure functions of one number; random bytes, host
  names, unsafe string casts; errors of a writer, which the code ignores; fractions of
  floats, which are one value in `Casts`, and floats in `BinaryCodec`, which are integers
  of their width there (`Pack` and `UnPack` only move their bits).
