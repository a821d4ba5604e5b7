--------------------------- MODULE MCPresentations ---------------------------
EXTENDS Presentations

MCTextures == [capacity |-> 11, limits |-> [bytes |-> 10]]
MCMeshes == [capacity |-> 2, limits |-> [positions |-> 2, indices |-> 2, bytes |-> 2]]
MCButtons == [Title |-> <<"CreateAgent", "None">>, CreateAgent |-> <<>>, LoadAgent |-> <<"None">>]

Edges(pressed) == [previous |-> "previous" \in pressed, next |-> "next" \in pressed,
                   accept |-> "accept" \in pressed, back |-> "back" \in pressed]
MCNavInputs ==
    {Edges(e) : e \in {{}, {"previous"}, {"next"}, {"accept"}, {"back"}, {"accept", "back"}}}

Startup1(catalog, wants) ==
    [catalog |-> catalog, transfer |-> "transfer" \in wants, movie |-> "movie" \in wants,
     scene |-> "scene" \in wants, preview |-> "preview" \in wants]
MCStartups == {Startup1(<<>>, {"scene"}), Startup1(<<0, 2>>, {"transfer", "movie"}),
               Startup1(<<1>>, {"transfer", "preview"})}

===============================================================================
