----------------------------- MODULE BinaryCodec -----------------------------
(***************************************************************************)
(* Sizeof, Pack and UnPack of binary/binary_pack.go: one walk over a Go    *)
(* value (doSerialize0), with three visitors that count, write and read    *)
(* its integers and strings.  On their way the bytes may be framed by      *)
(* PackTlv and taken out of the frame by UnPackTlv.                        *)
(*                                                                         *)
(* The walk's recursion is a stack of nodes still to visit.  A node comes  *)
(* with the byte order of its visitor and, if it is a field, with the      *)
(* field's tag.  Bytes have base Base, so that integers stay small: an     *)
(* integer of width w has Power[w] values.  Floats are handled as unsigned   *)
(* integers of their bits.                                                 *)
(*                                                                         *)
(*   [kind |-> "int", width, signed, n]       [kind |-> "string", s]       *)
(*   [kind |-> "list", of, pointers]          arrays and slices            *)
(*   [kind |-> "struct", of, tags]                                         *)
(*   [kind |-> "other"]                       unsupported or not settable  *)
(*                                                                         *)
(* A pointer is what it points to, but that a list knows whether its       *)
(* elements are pointers; a nil pointer is not settable.                   *)
(***************************************************************************)
EXTENDS ByteOrder

CONSTANTS
  Nodes,   \* the Go values there are, with all that is in them
  Objects, \* what is packed
  Tails,   \* what follows it in the stream
  TlvTags  \* tags of frames

FieldTags == [order : Orders \union {"none"}, zero : BOOLEAN, size : Nat]

\* The numbers of w bytes.
Numbers(w, signed) ==
  LET half == Power[w] \div 2
  IN IF signed THEN -half .. half - 1 ELSE 0 .. Power[w] - 1

\* Elements of a list have one type, but for nil pointers.
OneType(a, b) ==
  a.kind # "other" /\ b.kind # "other" =>
    a.kind = b.kind /\ (a.kind = "int" => a.width = b.width /\ a.signed = b.signed)

WellFormed(node) ==
  \/ /\ node.kind = "int"
     /\ node.width \in 1 .. MaxWidth /\ node.signed \in BOOLEAN
     /\ node.n \in Numbers(node.width, node.signed)
  \/ node.kind = "string" /\ node.s \in Seq(Byte)
  \/ /\ node.kind = "list"
     /\ node.of \in Seq(Nodes) /\ node.pointers \in BOOLEAN
     /\ \A j, k \in DOMAIN node.of : OneType(node.of[j], node.of[k])
  \/ /\ node.kind = "struct"
     /\ node.of \in Seq(Nodes)
     /\ node.tags \in Seq(FieldTags) /\ Len(node.tags) = Len(node.of)
  \/ node.kind = "other"

ASSUME BinaryCodecAssumption ==
  /\ \A node \in Nodes : WellFormed(node)
  /\ Objects \subseteq Nodes
  /\ Tails \subseteq Seq(Byte)
  /\ TlvTags \subseteq Numbers(2, TRUE)

VARIABLES
  todo,      \* the nodes to visit
  phase,     \* "size", "pack", "framed", "unpack", "done"
  value,     \* the packed object
  order,     \* PackWithOrder's and UnPackWithOrder's byte order
  size,      \* structBinaryStruct.size
  estimated, \* it counts one element of a list for others of another size
  wire,      \* the bytes written and not yet read
  put,       \* the integers and strings written, with their tags
  got,       \* the integers and strings read
  sent,      \* the bytes written by Pack
  reader,    \* "buffer": Read fills its buffer if it can; "conn": it may not
  cut,       \* the stream ends before this leaf; 0 when it is whole
  tail,      \* what follows
  frame,     \* PackTlv's tag, how many bytes of the frame are lost, and the
             \* tag UnPackTlv returned
  err

sizing == <<size, estimated>>
input  == <<value, order>>
stream == <<reader, cut, tail, sent, frame>>
vars == <<todo, phase, input, sizing, wire, put, got, stream, err>>

NoFrame == [tag |-> 0, lost |-> 0, back |-> 0, used |-> "no"]
NoTag == [order |-> "none", zero |-> FALSE, size |-> 0]

Item(node, o, tag, times) ==
  [node |-> node, order |-> o, tag |-> tag, times |-> times]

Top == Head(todo)
Visits(p, kind) == phase = p /\ todo # <<>> /\ Top.node.kind = kind

\* The order of a leaf and of a list's elements: the tag's, if it has one.
OrderOf(it) == IF it.tag.order = "none" THEN it.order ELSE it.tag.order

\* A struct's fields keep the visitor's order: the tag of a field that is
\* itself a struct is not looked at.
FieldItems(it) ==
  [k \in DOMAIN it.node.of |-> Item(it.node.of[k], it.order, it.node.tags[k], it.times)]

\* A list's elements are packed by a visitor of the list's order; a tag's
\* string size and terminator are not for them.
ElementItems(it) ==
  [k \in DOMAIN it.node.of |-> Item(it.node.of[k], OrderOf(it), NoTag, it.times)]

\* Seeded fault: SetInt does not cut.
UnsignedOnly(n, w, signed) == n

\* SetInt cuts to the width, which gives the sign back.
Integer(n, w, signed) ==
  IF signed /\ n >= Power[w] \div 2 THEN n - Power[w] ELSE n

\* strVal[:stringsize]; a shorter string is not padded.
CutTo(s, tag) == IF tag.size > 0 /\ tag.size < Len(s) THEN SubSeq(s, 1, tag.size) ELSE s

Terminator(tag) == IF tag.zero THEN <<0>> ELSE <<>>

Init ==
  /\ value \in Objects
  /\ order \in Orders
  /\ todo = <<Item(value, order, NoTag, 1)>>
  /\ phase = "size"
  /\ size = 0 /\ estimated = FALSE
  /\ wire = <<>> /\ sent = <<>>
  /\ put = <<>> /\ got = <<>>
  /\ reader = "buffer" /\ cut = 0 /\ tail = <<>> /\ frame = NoFrame
  /\ err = "none"

Restart == todo' = <<Item(value, order, NoTag, 1)>>

\* doSerialize0's Struct case, of every visitor.
OpenStruct ==
  /\ phase # "done"
  /\ Visits(phase, "struct")
  /\ todo' = FieldItems(Top) \o Tail(todo)
  /\ UNCHANGED <<phase, input, sizing, wire, put, got, stream, err>>

-----------------------------------------------------------------------------
(* Sizeof.                                                                 *)

\* The element type's Kind is Struct: a pointer to a struct is none.
IsStructList(node) ==
  node.of # <<>> /\ node.of[1].kind = "struct" /\ ~ node.pointers

\* Whether the first element's size is what all have.
SameSize(node) ==
  \A k \in DOMAIN node.of :
    \/ node.of[k].kind = "int"
    \/ node.of[k] = node.of[1]
    \/ /\ node.of[k].kind = "string" /\ node.of[1].kind = "string"
       /\ Len(node.of[k].s) = Len(node.of[1].s)
    \/ IsStructList(node)

\* Structs are counted one by one, of others the first one for all.
SizeList ==
  /\ Visits("size", "list")
  /\ LET n == Len(Top.node.of)
         all == ElementItems(Top)
     IN todo' = (IF n = 0 \/ IsStructList(Top.node) THEN all
                 ELSE <<[all[1] EXCEPT !.times = @ * n]>>) \o Tail(todo)
  /\ estimated' = (estimated \/ ~ SameSize(Top.node))
  /\ UNCHANGED <<phase, input, size, wire, put, got, stream, err>>

Count(bytes) ==
  /\ size' = size + Top.times * bytes
  /\ todo' = Tail(todo)
  /\ UNCHANGED <<phase, input, estimated, wire, put, got, stream, err>>

SizeInt == Visits("size", "int") /\ Count(Top.node.width)

\* Seeded fault: the terminator is not counted.
SizeStringOnly == Visits("size", "string") /\ Count(Len(Top.node.s))

\* The tag's string size is not looked at.
SizeString ==
  Visits("size", "string") /\ Count(Len(Top.node.s) + Len(Terminator(Top.tag)))

\* Pack is called once Sizeof has returned, whatever it returned.
CallPack ==
  /\ phase = "size"
  /\ todo # <<>> => Top.node.kind = "other"
  /\ phase' = "pack"
  /\ Restart
  /\ UNCHANGED <<input, sizing, wire, put, got, stream, err>>

-----------------------------------------------------------------------------
(* Pack.                                                                   *)

PackList ==
  /\ Visits("pack", "list")
  /\ todo' = ElementItems(Top) \o Tail(todo)
  /\ UNCHANGED <<phase, input, sizing, wire, put, got, stream, err>>

Write(bytes, what) ==
  /\ wire' = wire \o bytes
  /\ put' = Append(put, [what |-> what, tag |-> Top.tag, bytes |-> Len(bytes),
                         node |-> Top.node])
  /\ todo' = Tail(todo)
  /\ UNCHANGED <<phase, input, sizing, got, stream, err>>

PackInt ==
  /\ Visits("pack", "int")
  /\ Write(Encode(Top.node.n, Top.node.width, OrderOf(Top)), Top.node.n)

PackString ==
  /\ Visits("pack", "string")
  /\ Write(CutTo(Top.node.s, Top.tag) \o Terminator(Top.tag), Top.node.s)

\* ErrUnsupportType or ErrCannotSet; what was written before it stays written.
PackFails ==
  /\ Visits("pack", "other")
  /\ phase' = "done"
  /\ err' = "unsupported"
  /\ UNCHANGED <<todo, input, sizing, wire, put, got, stream>>

\* The bytes up to each leaf.
Ends == Sums([k \in DOMAIN put |-> put[k].bytes])
Offset(k) == Ends[k - 1]

\* The receiver's stream: whole and with a tail, or ending at a leaf.
CallUnPack ==
  /\ phase = "pack" /\ todo = <<>>
  /\ phase' = "unpack"
  /\ Restart
  /\ sent' = wire
  /\ reader' \in {"buffer", "conn"}
  /\ \/ cut' = 0 /\ tail' \in Tails /\ wire' = wire \o tail'
     \/ /\ cut' \in 1 .. Len(put)
        /\ tail' = <<>>
        /\ wire' = SubSeq(wire, 1, Offset(cut'))
  /\ UNCHANGED <<input, sizing, put, got, frame, err>>

-----------------------------------------------------------------------------
(* PackTlv and UnPackTlv: a tag and a length, both int16, and the data.    *)

\* Of the frame the last bytes may be lost, or other bytes follow it.
PackTlv ==
  /\ phase = "pack" /\ todo = <<>>
  /\ phase' = "framed"
  /\ sent' = wire
  /\ \E t \in TlvTags :
       LET bytes == Encode(t, 2, order) \o Encode(Len(wire), 2, order) \o wire
           sending == [NoFrame EXCEPT !.used = "sent", !.tag = t]
       IN \/ \E rest \in Tails : wire' = bytes \o rest /\ frame' = sending
          \/ \E n \in 1 .. Len(bytes) : /\ wire' = SubSeq(bytes, 1, Len(bytes) - n)
                                       /\ frame' = [sending EXCEPT !.lost = n]
  /\ UNCHANGED <<todo, input, sizing, put, got, reader, cut, tail, err>>

\* binary.Read of an int16 at place k.
TlvInt(k) == Integer(Decode(SubSeq(wire, k, k + 1), order), 2, TRUE)

\* Seeded fault: the error of the last Read is dropped.
AnyData(length) == length >= 0

\* make panics for a negative length; binary.Read fills the slice or fails.
HasData(length) == length >= 0 /\ Len(wire) - 4 >= length

UnPackTlv ==
  /\ phase = "framed"
  /\ Len(wire) >= 4 /\ HasData(TlvInt(3))
  /\ frame' = [frame EXCEPT !.used = "read", !.back = TlvInt(1)]
  /\ wire' = [j \in 1 .. TlvInt(3) |-> IF 4 + j <= Len(wire) THEN wire[4 + j] ELSE 0]
  /\ phase' = "unpack"
  /\ Restart
  /\ UNCHANGED <<input, sizing, put, got, sent, reader, cut, tail, err>>

UnPackTlvFails ==
  /\ phase = "framed"
  /\ Len(wire) >= 4 => ~ HasData(TlvInt(3))
  /\ err' = IF Len(wire) >= 4 /\ TlvInt(3) < 0 THEN "panic" ELSE "EOF"
  /\ phase' = "done"
  /\ UNCHANGED <<todo, input, sizing, wire, put, got, stream>>

-----------------------------------------------------------------------------
(* UnPack, into an object of the same shape.                               *)

UnPackList ==
  /\ Visits("unpack", "list")
  /\ todo' = ElementItems(Top) \o Tail(todo)
  /\ UNCHANGED <<phase, input, sizing, wire, put, got, stream, err>>

Least(a, b) == IF a <= b THEN a ELSE b

\* How many bytes a Read into a buffer of k may return.
Reads(k) == IF reader = "conn" THEN 1 .. Least(k, Len(wire))
                               ELSE {Least(k, Len(wire))}

\* The buffer after a Read of m: the rest of it is still zero.
Buffer(k, m) == [j \in 1 .. k |-> IF j <= m THEN wire[j] ELSE 0]

Receive(what, consumed) ==
  /\ got' = Append(got, what)
  /\ wire' = SubSeq(wire, consumed + 1, Len(wire))
  /\ todo' = Tail(todo)
  /\ UNCHANGED <<phase, input, sizing, put, stream, err>>

\* The number of bytes read is not looked at.
ReadInt ==
  /\ Visits("unpack", "int")
  /\ \E m \in Reads(Top.node.width) :
       Receive(Integer(Decode(Buffer(Top.node.width, m), OrderOf(Top)),
                       Top.node.width, Top.node.signed), m)

\* Seeded fault: the error of Read is dropped.
UnPackIntAnyway == ReadInt

UnPackInt == wire # <<>> /\ ReadInt

UnPackTerminated ==
  /\ Visits("unpack", "string")
  /\ Top.tag.zero
  /\ \E z \in DOMAIN wire :
       /\ wire[z] = 0 /\ \A j \in 1 .. (z - 1) : wire[j] # 0
       /\ Receive(SubSeq(wire, 1, z - 1), z)

UnPackSized ==
  /\ Visits("unpack", "string")
  /\ ~ Top.tag.zero /\ Top.tag.size > 0
  /\ wire # <<>>
  /\ \E m \in Reads(Top.tag.size) : Receive(Buffer(Top.tag.size, m), m)

\* getString: all there is, byte by byte.
UnPackRest ==
  /\ Visits("unpack", "string")
  /\ ~ Top.tag.zero /\ Top.tag.size = 0
  /\ Receive(wire, Len(wire))

\* The end of the stream where a Read needs a byte.
AtEnd ==
  \/ Top.node.kind = "int" /\ wire = <<>>
  \/ /\ Top.node.kind = "string"
     /\ \/ Top.tag.zero /\ \A j \in DOMAIN wire : wire[j] # 0
        \/ ~ Top.tag.zero /\ Top.tag.size > 0 /\ wire = <<>>

UnPackFails ==
  /\ phase = "unpack" /\ todo # <<>>
  /\ AtEnd
  /\ phase' = "done"
  /\ err' = "EOF"
  /\ UNCHANGED <<todo, input, sizing, wire, put, got, stream>>

UnPackReturns ==
  /\ phase = "unpack" /\ todo = <<>>
  /\ phase' = "done"
  /\ UNCHANGED <<todo, input, sizing, wire, put, got, stream, err>>

Next ==
  \/ OpenStruct
  \/ SizeList \/ SizeInt \/ SizeString \/ CallPack
  \/ PackList \/ PackInt \/ PackString \/ PackFails \/ CallUnPack
  \/ PackTlv \/ UnPackTlv \/ UnPackTlvFails
  \/ UnPackList \/ UnPackInt \/ UnPackTerminated \/ UnPackSized \/ UnPackRest
  \/ UnPackFails \/ UnPackReturns

Spec == Init /\ [][Next]_vars

-----------------------------------------------------------------------------
(* Properties.                                                             *)

TypeOK ==
  /\ phase \in {"size", "pack", "framed", "unpack", "done"}
  /\ size \in Nat
  /\ estimated \in BOOLEAN
  /\ IsBytes(wire) /\ IsBytes(sent) /\ IsBytes(tail)
  /\ \A k \in DOMAIN put : put[k].bytes \in 0 .. Len(wire) + Len(sent)
  /\ Len(got) <= Len(put)
  /\ reader \in {"buffer", "conn"}
  /\ cut \in 0 .. Len(put)
  /\ frame.used \in {"no", "sent", "read"} /\ frame.lost \in Nat
  /\ err \in {"none", "unsupported", "EOF", "panic"}

\* A leaf whose bytes say where it ends and that Pack did not cut.
SelfDelimiting(p) ==
  p.node.kind = "string" =>
    /\ CutTo(p.node.s, p.tag) = p.node.s
    /\ IF p.tag.zero THEN \A j \in DOMAIN p.node.s : p.node.s[j] # 0
                     ELSE p.tag.size > 0 /\ Len(p.node.s) = p.tag.size

\* A leaf that is read byte by byte.
ByteWise(p) == \/ p.node.kind = "int" /\ p.node.width = 1
               \/ p.node.kind = "string" /\ p.tag.zero

Whats(s) == [k \in DOMAIN s |-> s[k].what]

\* The length of the data is an int16.
Framable == Len(sent) < Power[2] \div 2

\* UnPack gives back what Pack was given, whatever the byte orders, signs and
\* nesting, with and without a frame, and leaves what follows in the stream
\* alone: when each string is terminated or has just its tag's size, or is the
\* last thing in the stream, and the reader fills its buffer or every leaf is
\* read byte by byte.
RoundTrip ==
  /\ phase = "done" /\ err # "unsupported" /\ cut = 0
  /\ frame.used # "no" => Framable /\ frame.lost = 0
  /\ \A k \in DOMAIN put :
       SelfDelimiting(put[k]) \/ (k = Len(put) /\ tail = <<>> /\ put[k].tag = NoTag)
  /\ reader = "buffer" \/ \A k \in DOMAIN put : ByteWise(put[k])
  => err = "none" /\ got = Whats(put) /\ wire = tail

\* Sizeof is the number of bytes Pack writes, unless a list has strings of
\* different lengths, or lists or pointers to structs that differ, or a tag's
\* size cuts a string.
SizeExact ==
  /\ phase = "unpack"
  /\ ~ estimated
  /\ \A k \in DOMAIN put :
       put[k].node.kind = "string" => CutTo(put[k].node.s, put[k].tag) = put[k].node.s
  => size = Len(sent)

\* A stream that ends where an integer, or a terminated or sized string, must
\* begin is an error, and all before it has been read.
EndNoticed ==
  /\ phase = "done" /\ err # "unsupported" /\ cut # 0 /\ reader = "buffer"
  /\ \A k \in DOMAIN put : SelfDelimiting(put[k])
  => err = "EOF" /\ got = SubSeq(Whats(put), 1, cut - 1)

\* A frame whose data fits its length gives back tag and data exactly, whatever
\* follows it, and a frame of which anything is lost gives an error.  (Longer
\* data makes UnPackTlv panic, or is cut without a word where the length wraps.)
FrameWhole ==
  frame.used # "no" /\ Framable =>
    /\ frame.used = "read" => frame.lost = 0 /\ frame.back = frame.tag
    /\ phase = "unpack" /\ got = <<>> => wire = sent
    /\ phase = "done" /\ frame.used = "sent" => frame.lost > 0 /\ err = "EOF"
=============================================================================
