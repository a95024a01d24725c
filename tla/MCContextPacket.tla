--------------------------- MODULE MCContextPacket --------------------------
(* A document with a second title behind a section, for TLC.                 *)
EXTENDS ContextPacket, TLC

Heading(level, anchor, text) == [level |-> level, anchor |-> anchor, text |-> text]
OneDoc == {1}
TwoTitles ==
  <<{[edges |-> {}, blocks |-> <<Heading(1, "t", "x"), Heading(2, "a", s),
                                 Heading(1, "z", t)>>] : s, t \in {"x", "y"}}>>
NavigationOnly == {{}}
Delta ==
  {[target |-> 1, depth |-> 1, relations |-> {"depends_on"}, view |-> FALSE,
    directions |-> {"forward"}, since |-> TRUE, include |-> {}]}

=============================================================================
