--------------------------- MODULE MCChannelExits ---------------------------
(* An instance of ChannelExits for TLC.                                    *)
EXTENDS ChannelExits

(* Names as long as a channel's may be, as long as a cluster's may be, too *)
(* long, and one that begins with the bytes of a channel's.                *)
NameOf(first, rest, length) == [first |-> first, rest |-> rest, length |-> length]
ChannelA == NameOf("A", "", 20)
ChannelB == NameOf("B", "", 3)
AndMore == NameOf("A", "more", 48)
TooLong == NameOf("A", "most", 49)
NoName == NameOf("", "", 0)

LabelOf(text, length) == [text |-> text, length |-> length]
Label1 == LabelOf("one", 64)
Label2 == LabelOf("two", 1)
Label3 == LabelOf("three", 5)
LongLabel == LabelOf("long", 65)

Line(prefix, name, label) == 
  [prefix |-> prefix, equals |-> TRUE, name |-> name, label |-> label]
Comment == [Line("other", NoName, Label1) EXCEPT !.equals = FALSE]

MCConfigFiles ==
  { <<>>,
    <<Comment, Line("channel", NoName, Label1), Line("cluster", AndMore, LongLabel)>>,
    <<Line("channel", AndMore, Label1), Line("channel", ChannelB, Label2), 
      Line("cluster", AndMore, Label1), Line("channel", ChannelA, Label3)>>,
    <<Line("channel", ChannelA, LongLabel), Line("cluster", TooLong, Label1),
      Line("cluster", ChannelB, Label3), Line("channel", ChannelA, Label2)>> }

Cd(name, clusters, version) == 
  [ChannelName |-> name, Clusters |-> clusters, Version |-> version]

MCDefinitions ==
  { Cd(ChannelA, <<>>, 11), Cd(ChannelA, <<ChannelB, AndMore>>, 12), 
    Cd(ChannelB, <<AndMore>>, 11), Cd(ChannelB, <<ChannelA, ChannelB>>, 12),
    Cd(ChannelA, <<AndMore>>, 10) }

Symmetry == Permutations(Channels)
=============================================================================
