----------------------------- MODULE MCTerminal -----------------------------
(* Terminal for TLC: eleven families of sequences, each on the smallest    *)
(* screens on which its cases happen.                                      *)
EXTENDS Terminal

Family(sizes, chars, ops) == [sizes |-> sizes, chars |-> chars, ops |-> ops]

MCScopes ==
  [cells   |-> Family({<<4, 1>>, <<3, 1>>}, {Narrow, Lead, Mark},
                      {"print", "move", "control", "edit", "lines", "resize"}),
   tabs    |-> Family({<<4, 1>>}, {}, {"move", "tabs"}),
   screens |-> Family({<<2, 1>>, <<1, 2>>}, {Narrow},
                      {"print", "lines", "saved", "alt", "resize"}),
   copies  |-> Family({<<2, 1>>}, {Narrow, Lead}, {"print", "alt", "snapshot"}),
   regions |-> Family({<<1, 4>>}, {Narrow}, {"print", "move", "lines", "lnm", "region"}),
   images  |-> Family({<<1, 2>>}, {}, {"lines", "image", "clear"}),
   iterm   |-> Family({<<1, 2>>}, {}, {"lines", "iterm"}),
   sixel   |-> Family({<<1, 2>>}, {}, {"lines", "dcs", "alt"}),
   figures |-> Family({<<1, 3>>}, {}, {"lines", "feed", "region", "edit"}),
   chunks  |-> Family({<<2, 2>>}, {}, {"move", "feed"}),
   marks   |-> Family({<<1, 2>>}, {},
                      {"move", "lines", "marks", "clear", "snapshot", "reset"})]
=============================================================================
