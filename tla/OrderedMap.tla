----------------------------- MODULE OrderedMap -----------------------------
(***************************************************************************)
(* The insertion-ordered set of ordered_map/orderedmap.go.                 *)
(*                                                                         *)
(* An OrderedMap keeps its elements twice: as the keys of a Go map, for    *)
(* membership, and in a Go slice, for the order.  A slice is a window on a *)
(* backing array: Add writes the array behind the window while there is    *)
(* room and copies to a larger one otherwise, Remove moves elements within *)
(* the array.  Slice() hands out such a window, so later calls may write   *)
(* what an earlier caller still looks at.                                  *)
(*                                                                         *)
(* A map entry whose key is not equal to itself (NaN) is never found again *)
(* and every insertion makes another, so the map is a bag of keys.         *)
(***************************************************************************)
EXTENDS Sequences, Integers, FiniteSets

CONSTANTS
  Values,      \* hashable values
  SelfUnequal, \* those that are not equal to themselves (NaN)
  Unhashable,  \* values a map key cannot be, which JSON may contain
  Documents,   \* JSON arrays given to UnmarshalJSON, as decoded
  Decoded,     \* what JSON makes of a value: a float64 of an int
  NoDoc,       \* no JSON array
  Views,       \* callers of Slice() that keep the result
  MaxLen,      \* bound: elements of the OrderedMap
  Unset        \* an array element nobody has written

ASSUME MapAssumption ==
  /\ SelfUnequal \subseteq Values
  /\ Values \intersect Unhashable = {}
  /\ Unset \notin Values \union Unhashable
  /\ Documents \subseteq Seq((Values \ SelfUnequal) \union Unhashable)  \* no NaN in JSON
  /\ Decoded \in [Values \ SelfUnequal -> Values \ SelfUnequal]
  /\ NoDoc \notin Seq(Values \union Unhashable)
  /\ MaxLen \in Nat

VARIABLES
  datamap,  \* value -> the number of map entries with that key
  array,    \* the backing array of dataslice
  len,      \* len(dataslice)
  rest,     \* the elements UnmarshalJSON's loop has still to add
  views,    \* what the callers of Slice() hold
  saved,    \* dataslice at MarshalJSON, forgotten when Add or Remove change it
  loaded    \* UnmarshalJSON's document, likewise

json == <<saved, loaded>>
vars == <<datamap, array, len, rest, views, json>>

dataslice == SubSeq(array, 1, len)

\* A view is a window on the backing array as long as that is dataslice's
\* own; else it has an array of its own for good.  seen is what it showed at
\* first, intact that nothing was removed since.
NoView == [shared |-> FALSE, shows |-> <<>>, seen |-> <<>>, intact |-> TRUE]

Shows(v) == IF views[v].shared THEN SubSeq(array, 1, Len(views[v].shows))
                               ELSE views[v].shows

\* The views once dataslice has moved to another array.
Detached == [v \in Views |-> [views[v] EXCEPT !.shared = FALSE, !.shows = Shows(v)]]

Init ==
  /\ datamap = [v \in Values |-> 0]
  /\ array = <<>>
  /\ len = 0
  /\ rest = <<>>
  /\ views = [w \in Views |-> NoView]
  /\ saved = NoDoc /\ loaded = NoDoc

\* _, ok := t.datamap[v].
Found(v) == v \notin SelfUnequal /\ datamap[v] > 0

\* Seeded fault: doubling nothing.
GrownByDoubling(cap) == 2 * cap

\* append's new capacity.
Grown(cap) == IF cap = 0 THEN 1 ELSE 2 * cap

\* t.dataslice = append(t.dataslice, v).
AppendInPlace(v) ==
  /\ len < Len(array)
  /\ array' = [array EXCEPT ![len + 1] = v]
  /\ UNCHANGED views

AppendInNewArray(v) ==
  /\ len = Len(array)
  /\ array' = [i \in 1 .. Grown(len) |->
                 CASE i <= len    -> array[i]
                   [] i = len + 1 -> v
                   [] OTHER       -> Unset]
  /\ views' = Detached

\* The body of Add for a value that is not there yet.
Insert(v) ==
  /\ ~ Found(v)
  /\ len < MaxLen
  /\ datamap' = [datamap EXCEPT ![v] = @ + 1]
  /\ AppendInPlace(v) \/ AppendInNewArray(v)
  /\ len' = len + 1

Add(v) ==
  /\ rest = <<>>
  /\ Insert(v)
  /\ saved' = NoDoc /\ loaded' = NoDoc
  /\ UNCHANGED rest

\* Add returns false.
AddAgain(v) ==
  /\ rest = <<>>
  /\ Found(v)
  /\ UNCHANGED vars

\* The first place of v in dataslice.
IsPlace(i, v) == array[i] = v /\ \A j \in 1 .. (i - 1) : array[j] # v

\* The array once place i is gone: the elements after it move down, and the
\* last place keeps what it had.
Closed(i) ==
  [j \in 1 .. Len(array) |-> IF i <= j /\ j < len THEN array[j + 1] ELSE array[j]]

\* All of Remove but the array.
RemoveAt(i, v) ==
  /\ rest = <<>>
  /\ Found(v)
  /\ IsPlace(i, v)
  /\ datamap' = [datamap EXCEPT ![v] = 0]
  /\ len' = len - 1
  /\ views' = [w \in Views |-> [views[w] EXCEPT !.intact = FALSE]]
  /\ saved' = NoDoc /\ loaded' = NoDoc
  /\ UNCHANGED rest

\* Seeded fault: the last element fills the hole.
RemoveBySwap(v) ==
  \E i \in 1 .. len : RemoveAt(i, v) /\ array' = [array EXCEPT ![i] = array[len]]

\* append(t.dataslice[:i], t.dataslice[i+1:]...).
Remove(v) == \E i \in 1 .. len : RemoveAt(i, v) /\ array' = Closed(i)

\* Remove returns false.
RemoveMissing(v) ==
  /\ rest = <<>>
  /\ ~ Found(v)
  /\ UNCHANGED vars

\* A caller keeps what Slice() returns.
Slice(w) ==
  /\ rest = <<>>
  /\ views' = [views EXCEPT ![w] = [shared |-> TRUE, shows |-> dataslice,
                                    seen |-> dataslice, intact |-> TRUE]]
  /\ UNCHANGED <<datamap, array, len, rest, json>>

-----------------------------------------------------------------------------
(* MarshalJSON and UnmarshalJSON.  A document that is not a JSON array is  *)
(* an error and changes nothing.                                           *)

Json(s) == [k \in DOMAIN s |-> Decoded[s[k]]]

\* An error if there is a NaN.
MarshalJSON ==
  /\ rest = <<>>
  /\ \A i \in 1 .. len : array[i] \notin SelfUnequal
  /\ saved' = dataslice
  /\ UNCHANGED <<datamap, array, len, rest, views, loaded>>

BeginLoop(doc) == rest = <<>> /\ rest' = doc /\ loaded' = doc /\ UNCHANGED saved

NewMap == datamap' = [v \in Values |-> 0]
NewSlice == array' = <<>> /\ len' = 0 /\ views' = Detached

\* Seeded faults: the old map is kept; the old slice is kept; the new slice is
\* the old array cut to nothing.
UnmarshalKeepsMap(doc) == BeginLoop(doc) /\ NewSlice /\ UNCHANGED datamap
UnmarshalKeepsSlice(doc) == BeginLoop(doc) /\ NewMap /\ UNCHANGED <<array, len, views>>
UnmarshalReusesArray(doc) ==
  BeginLoop(doc) /\ NewMap /\ len' = 0 /\ UNCHANGED <<array, views>>

\* The new map and the new slice, before the loop.
Unmarshal(doc) == BeginLoop(doc) /\ NewMap /\ NewSlice

\* Seeded fault: the last one first.
LoadFromEnd ==
  /\ rest # <<>>
  /\ rest[Len(rest)] \in Values
  /\ IF Found(rest[Len(rest)]) THEN UNCHANGED <<datamap, array, len, views>>
                               ELSE Insert(rest[Len(rest)])
  /\ rest' = SubSeq(rest, 1, Len(rest) - 1)
  /\ UNCHANGED json

\* One round of the loop: t.Add(v).
Load ==
  /\ rest # <<>>
  /\ Head(rest) \in Values
  /\ IF Found(Head(rest)) THEN UNCHANGED <<datamap, array, len, views>>
                          ELSE Insert(Head(rest))
  /\ rest' = Tail(rest)
  /\ UNCHANGED json

\* "hash of unhashable type": Add panics at its first look at the map, and
\* UnmarshalJSON ends with what it has added so far.
LoadPanics ==
  /\ rest # <<>>
  /\ Head(rest) \in Unhashable
  /\ rest' = <<>>
  /\ loaded' = NoDoc
  /\ UNCHANGED <<datamap, array, len, views, saved>>

Next ==
  \/ \E v \in Values : Add(v) \/ AddAgain(v) \/ Remove(v) \/ RemoveMissing(v)
  \/ \E w \in Views : Slice(w)
  \/ MarshalJSON
  \/ \E doc \in Documents : Unmarshal(doc)
  \/ saved # NoDoc /\ Unmarshal(Json(saved))
  \/ Load \/ LoadPanics

Spec == Init /\ [][Next]_vars

-----------------------------------------------------------------------------
(* Properties.                                                             *)

Elements == Values \union {Unset}

TypeOK ==
  /\ datamap \in [Values -> 0 .. MaxLen]
  /\ array \in Seq(Elements)
  /\ len \in 0 .. MaxLen
  /\ len <= Len(array)
  /\ rest \in Seq(Values \union Unhashable)
  /\ views \in [Views -> [shared : BOOLEAN, shows : Seq(Elements),
                          seen : Seq(Elements), intact : BOOLEAN]]
  /\ saved \in Seq(Values) \union {NoDoc}
  /\ loaded \in Seq(Values \union Unhashable) \union {NoDoc}

Occurrences(v) == {i \in 1 .. len : array[i] = v}

\* The map and the slice have the same elements, each as often in the one as in
\* the other.  So Exist, Map, Len and Slice agree, also inside and after an
\* UnmarshalJSON that panics.
MapMatchesSlice ==
  /\ \A i \in 1 .. len : array[i] \in Values
  /\ \A v \in Values : datamap[v] = Cardinality(Occurrences(v))

\* Nothing is in the slice twice, but what is not equal to itself.
NoDuplicates ==
  \A i, j \in 1 .. len : i # j /\ array[i] = array[j] => array[i] \in SelfUnequal

\* What Slice() returned goes on showing the same as long as nothing is
\* removed: neither an Add that writes behind it, nor one that moves to a new
\* array, nor an UnmarshalJSON changes it.
SliceStable == \A w \in Views : views[w].intact => Shows(w) = views[w].seen

\* s is d without what occurred before.
FirstsOf(s, d) ==
  \E f \in [DOMAIN s -> DOMAIN d] :
    /\ \A i, j \in DOMAIN s : i < j => f[i] < f[j]
    /\ \A i \in DOMAIN s : s[i] = d[f[i]] /\ \A k \in 1 .. f[i] - 1 : d[k] # s[i]
    /\ \A k \in DOMAIN d : \E i \in DOMAIN s : s[i] = d[k]

\* UnmarshalJSON gives the document's elements, each where it is first, at
\* every round of its loop.  So what MarshalJSON wrote is read back in its order
\* if JSON keeps its elements; ints come back as float64, and one that meets
\* the same number as a float64 is lost.
JsonKeeps ==
  /\ loaded # NoDoc => FirstsOf(dataslice, SubSeq(loaded, 1, Len(loaded) - Len(rest)))
  /\ /\ saved # NoDoc /\ loaded # NoDoc /\ rest = <<>> /\ loaded = Json(saved)
     /\ \A i \in DOMAIN saved : Decoded[saved[i]] = saved[i]
     => dataslice = saved

\* The order is the order of insertion, whatever was removed in between.
Ordered == INSTANCE OrderedSet WITH items <- dataslice
RefinesOrderedSet == Ordered!Spec
=============================================================================
