---------------------------- MODULE MCBinaryCodec ----------------------------
EXTENDS BinaryCodec

Word(w, signed, n) == [kind |-> "int", width |-> w, signed |-> signed, n |-> n]
Str(s) == [kind |-> "string", s |-> s]
List(of) == [kind |-> "list", of |-> of, pointers |-> FALSE]
Pointers(of) == [kind |-> "list", of |-> of, pointers |-> TRUE]
Object(fs) == [kind |-> "struct", of |-> [k \in DOMAIN fs |-> fs[k].node],
                                  tags |-> [k \in DOMAIN fs |-> fs[k].tag]]
Other == [kind |-> "other"]

Field(node, tag) == [node |-> node, tag |-> tag]
Big == [NoTag EXCEPT !.order = "big"]
Little == [NoTag EXCEPT !.order = "little"]
Zero == [NoTag EXCEPT !.zero = TRUE]
Sized(n) == [NoTag EXCEPT !.size = n]

Inner == Object(<<Field(Word(2, FALSE, 6), NoTag), Field(Str(<<2>>), Zero)>>)
Longer == Object(<<Field(Word(2, FALSE, 7), NoTag), Field(Str(<<2, 1>>), Zero)>>)

Pair == List(<<Word(2, FALSE, 1), Word(2, FALSE, 2)>>)

MCFields ==
  {Field(Word(1, TRUE, -2), NoTag), Field(Word(2, TRUE, -7), NoTag),
   Field(Word(2, FALSE, 14), Big), Field(Word(2, TRUE, 7), Little),
   Field(Str(<<1, 3>>), Zero), Field(Str(<<1, 0>>), Sized(2)),
   Field(Str(<<1, 2, 3>>), Sized(2)), Field(Str(<<3>>), NoTag),
   Field(Str(<<3, 1>>), [Zero EXCEPT !.size = 2]),
   Field(Pair, Big),
   Field(List(<<Str(<<1>>), Str(<<2, 3>>)>>), NoTag),
   Field(List(<<Inner, Longer>>), Big),
   Field(Pointers(<<Inner, Longer>>), NoTag), Field(Pointers(<<Longer, Longer>>), Little),
   Field(Pointers(<<Other, Inner>>), NoTag), Field(List(<<>>), NoTag),
   Field(List(<<Pair, Pair>>), Big), Field(List(<<Pair, List(<<>>)>>), NoTag),
   Field(Inner, Big), Field(Other, NoTag)}

MCObjects == {Object(fs) : fs \in UNION {[1 .. n -> MCFields] : n \in 1 .. 2}}
               \union {Object(<<f, g, h>>) :
                         f, g \in {Field(Str(<<1, 3>>), Zero), Field(Word(1, TRUE, -2), NoTag)},
                         h \in MCFields}

\* 9 bytes and 17: the frame's length is negative, and wraps to 1.
MCLong == {Object(<<Field(Str(<<1, 2, 3, 1, 2, 3, 1, 2>>), Zero)>>),
           Object(<<Field(Str([k \in 1 .. 17 |-> 1]), NoTag)>>)}

MCAll == MCObjects \union MCLong

\* What is in values.
Parts(nodes) ==
  UNION {{node.of[k] : k \in DOMAIN node.of} :
           node \in {n \in nodes : n.kind \in {"list", "struct"}}}

MCNodes == LET fields == Parts(MCAll)
               parts == Parts(fields)
           IN MCAll \union fields \union parts \union Parts(parts)

MCTails == {<<>>, <<1, 0>>}
MCTlvTags == {5, -2}
=============================================================================
