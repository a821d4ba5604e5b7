----------------------------- MODULE MCRunReplay -----------------------------
EXTENDS RunReplay

MCCatalogs == {<<>>, <<0>>, <<1>>, <<3, 0, 1>>}

Frame(pressed, held, pointer) ==
    [pressed |-> pressed, held |-> held, pointer |-> pointer, host_quit |-> FALSE]
Press(action) == Frame({action}, {action}, "none")
MCInputs ==
    {Press(a) : a \in {"primary", "cancel", "left", "right"}}
      \cup {Frame({}, {"right"}, "none"), Frame({"fire"}, {"fire", "target"}, "on"),
            Frame({"target"}, {"target"}, "off"), Frame({}, {}, "none"),
            Frame({"quit"}, {"quit"}, "none"),
            [Frame({}, {}, "none") EXCEPT !.host_quit = TRUE]}

MCElapsed == {0, 3, 8}
MCObjective == {<<1, 0>>}

===============================================================================
