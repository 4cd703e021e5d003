-------------------------- MODULE MCHandlerSelection --------------------------
(* Three clients in two processes.  Their filters differ in what they       *)
(* demand, where they come from, and whether MC can read them.              *)
EXTENDS HandlerSelection

S(v) == [type |-> "s", value |-> v]
B(v) == [type |-> "b", value |-> v]
U(v) == [type |-> "u", value |-> v]
X(v) == [type |-> "x", value |-> v]

Text     == [ChannelType |-> S("text")]
Anything == [k \in {} |-> S("text")]
MineText == [ChannelType |-> S("text"), Requested |-> B(TRUE)]
Theirs   == [ChannelType |-> S("text"), Requested |-> B(FALSE)]
Small    == [ChannelType |-> S("text"), Size |-> X(1)]
Huge     == [ChannelType |-> S("text"), Size |-> U(5)]
Odd      == [ChannelType |-> S("text"), Size |-> [type |-> "d", value |-> 1]]

Describe(process, from, bypass, filters) ==
  [process |-> process, is_handler |-> TRUE, bypass |-> bypass, from |-> from,
   filters |-> filters]

CONSTANTS c1, c2, c3, p1, p2
MCHashOrder == <<c2, c1, c3>>
MCDescriptions ==
  {Describe(p1, "bus", FALSE, {Small, Odd, Anything}),
   Describe(p2, "bus", FALSE, {Theirs, MineText}),
   Describe(p2, "file", TRUE, {Text}),
   Describe(p1, "file", FALSE, {Theirs, Huge}),
   [Describe(p2, "bus", FALSE, {Odd}) EXCEPT !.is_handler = FALSE]}
MCChannels ==
  {[ChannelType |-> S("text"), Requested |-> B(r), Size |-> U(z)] : r \in BOOLEAN, z \in {1, 2}}
MCRequests == {Text}
=============================================================================
