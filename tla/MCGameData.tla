------------------------------ MODULE MCGameData ------------------------------
(* Over one source that is replaced once: two services of a tool, or a game    *)
(* started from a command line, or a launcher and its game; and the formats    *)
(* of what such a source is made of.                                           *)
EXTENDS Launcher, FrontEndTexts

MCArchiveBytes == <<1, 2, 1>>

AnyTool == Permutations(Tools)

-----------------------------------------------------------------------------
(* The command lines: any two arguments, legal or not, the same one twice too; *)
(* and the combinations that need more.                                        *)

Argument(option, value) == [option |-> option, key |-> "", value |-> value]
Flag(option) == Argument(option, "")
SetTo(key, value) == [option |-> "set", key |-> key, value |-> value]

Arguments ==
    {Flag(o) : o \in Flags \cup {"unknown"}}
        \cup {Argument("frames", f) : f \in {"0", "2", "many", "illegal"}}
        \cup {Argument("root", "source"), Argument("root", "other"),
              Argument("level", "known"), Argument("level", "unknown"),
              Argument("movie", "path"), Argument("member", "name"),
              Argument("config", "path"), SetTo("", ""),
              SetTo("root", "source"), SetTo("member", "name")}

Capturing == <<Flag("developer"), Flag("capture"), Argument("frames", "2")>>

Content == <<Argument("root", "source"), Argument("level", "known")>>

MCCommandLines ==
    {<<>>} \cup {<<a>> : a \in Arguments} \cup {<<a, b>> : a, b \in Arguments}
        \cup {Capturing} \cup {Append(Capturing, a) : a \in Arguments}
        \cup {Content \o <<Flag("probe")>>, Content \o <<Argument("member", "name")>>,
              Content \o <<Flag("replay")>> \o Capturing}

-----------------------------------------------------------------------------
(* The settings files.                                                         *)

Entry(key, value) == [key |-> key, value |-> value]

MCDocuments ==
    {NoSettings, [kind |-> "link", entries |-> <<Entry("root", "source")>>]}
        \cup [kind : {"file"}, entries :
                 {<<Entry("root", "source"), Entry("member", "name")>>,
                  <<Entry("root", "other"), Entry("level", "known"), Entry("step", "long")>>,
                  <<Entry("member", "name")>>,
                  <<Entry("root", "source"), Entry("root", "source")>>}]

-----------------------------------------------------------------------------
(* Texts, in ASCII, and the paths over a few of the characters that matter.    *)

TextA == <<65>>
TextB == <<66>>
TextC == <<67>>
TextD == <<68>>
TextE == <<69>>
LowerA == <<97>>
Versioned == <<65, 66, 59, 49>>     \* AB;1

MCGamePaths == SeqOf({47, 92, 46, 97, 66, 58, 7}, 4)

-----------------------------------------------------------------------------
(* The archives: any two members, with and without something after the names   *)
(* and the payload; and those that reach a limit.                              *)

Member(name, size) == [name |-> name, size |-> size]

Members ==
    {Member(name, size) : name \in {TextA, LowerA, TextB}, size \in {0, 2}}
        \cup {Member(<<66, 47, 65>>, 1), Member(<<46>>, 1)}

MCArchiveLayouts ==
    [members : SeqOf(Members, 2), slack : {0, 2}, tail : {0, 1}]
        \cup [slack : {0}, tail : {0}, members :
                 {<<Member(TextA, 1), Member(TextB, 2), Member(TextA, 0)>>,
                  <<Member(TextA, 1), Member(TextB, 2), Member(TextC, 0), Member(TextD, 0)>>,
                  <<Member(<<66, 66, 66, 66>>, 0)>>}]

-----------------------------------------------------------------------------
(* The trees: any two nodes, and those that just reach or exceed one limit.    *)

Node(parent, name, directory, size) ==
    [parent |-> parent, name |-> name, directory |-> directory,
     size |-> IF directory THEN 0 ELSE size]

Dir(parent, name) == Node(parent, name, TRUE, 0)
FileIn(parent, name) == Node(parent, name, FALSE, 2)

NodesIn(parents) ==
    {Node(parent, name, directory, size) :
        parent \in parents, directory \in BOOLEAN, size \in {1, 4},
        name \in {TextA, LowerA, TextB, <<97, 59, 49>>, <<59, 49>>}}

OneNode == {<<node>> : node \in NodesIn({0})}
TwoNodes ==
    UNION {{Append(tree, node) : node \in NodesIn({0} \cup {i \in {1} : tree[i].directory})} :
              tree \in OneNode}

MCDamagedTrees ==
    {<<Dir(0, TextA), Dir(0, TextB), FileIn(1, TextC)>>,
     <<Dir(0, TextA), Dir(1, TextB), FileIn(2, TextC), FileIn(1, Versioned)>>}

\* Too deep, too many directories, records, bytes of one directory, of all
\* directories, of names, of a path.
TreesAtLimits ==
    {<<Dir(0, TextA), Dir(1, TextB), Dir(2, TextC)>>,
     <<Dir(0, TextA), Dir(0, TextB), Dir(0, TextC), Dir(0, TextD)>>,
     <<Dir(0, TextA), Dir(1, TextB), Dir(0, TextC), FileIn(2, TextA), FileIn(2, TextB),
       FileIn(2, TextC), FileIn(2, TextD), FileIn(0, TextE)>>,
     <<FileIn(0, TextA), FileIn(0, TextB), FileIn(0, TextC), FileIn(0, TextD), FileIn(0, TextE)>>,
     <<Dir(0, TextA), FileIn(1, TextA), FileIn(1, TextB), FileIn(1, TextC), FileIn(1, TextD),
       FileIn(1, TextE)>>,
     <<Dir(0, TextA), Dir(0, TextB), Dir(0, TextC), FileIn(1, TextA), FileIn(2, TextA),
       FileIn(1, TextB), FileIn(2, TextB)>>,
     <<Dir(0, TextA), FileIn(0, Versioned), FileIn(1, Versioned), FileIn(1, TextB)>>,
     <<Dir(0, <<65, 66, 65>>), FileIn(1, <<66, 65, 66>>)>>}

MCImageTrees == {<<>>} \cup OneNode \cup TwoNodes \cup MCDamagedTrees \cup TreesAtLimits

MCIsoLimits ==
    [descriptors |-> 3, directories |-> 4, depth |-> 2, records |-> 15, directory |-> 6,
     all_directories |-> 18, names |-> 9]

-----------------------------------------------------------------------------
(* The tables, fonts and texts of the front end: two entries with any keys, and *)
(* those that cannot be written; a small font and one that has the dot; texts   *)
(* of two letters, a space and a line break.                                    *)

MCWrittenTables ==
    SeqOf([key : {TextA, LowerA, <<66, 67, 68>>}, value : {<<>>, <<65, 66, 67>>}], 2)
        \cup {<<Entry(<<>>, <<>>)>>, <<Entry(<<65, 65, 65, 65>>, <<>>)>>, <<Entry(<<7>>, <<>>)>>,
              <<Entry(<<65, 0, 65>>, <<>>)>>, <<Entry(TextA, <<65, 0>>)>>,
              <<Entry(TextA, <<>>), Entry(TextB, <<66>>), Entry(TextC, <<>>)>>}

Glyph(width) == [u_left |-> 0, u_right |-> width, v_top |-> 1, v_bottom |-> 2]
Font(count, space) ==
    [atlas |-> <<65, 46, 84, 68, 88>>, byte17 |-> 2, space |-> space,
     glyphs |-> [i \in 1..count |-> Glyph(IF i = 2 THEN 2 ELSE 1)]]
Uneven == [Font(2, 2) EXCEPT !.glyphs[2].v_top = 0]
MCWrittenFonts == {Font(2, 2), Font(14, 2), Font(14, -2), Uneven}

MCLaidTexts == SeqOf({33, 34, 32, 10}, 4) \cup {<<33, 65>>}

Pair(left, right, delta) == [left |-> left, right |-> right, delta |-> delta]
Centred ==
    [left |-> 4, top |-> 20, width |-> 8, height |-> 8, step |-> 4, atlas_width |-> 4,
     atlas_height |-> 4, tracking |-> 0, horizontal |-> "Center", vertical |-> "Center",
     wrap |-> TRUE, ellipsis |-> FALSE, pairs |-> <<>>, origin |-> "LineOrigin",
     limits |-> [codepoints |-> 6, lines |-> 3, glyphs |-> 5, pairs |-> 2]]
MCLayouts ==
    {[Centred EXCEPT !.wrap = wrap, !.ellipsis = ellipsis, !.width = width,
                     !.pairs = IF width = 4 THEN <<Pair(33, 34, -2)>> ELSE <<>>] :
        wrap, ellipsis \in BOOLEAN, width \in {4, 8}}
    \cup {[Centred EXCEPT !.ellipsis = TRUE, !.width = 12, !.tracking = 2]}
    \cup {[Centred EXCEPT !.horizontal = "Right", !.vertical = "Bottom"],
          [Centred EXCEPT !.horizontal = "Left", !.vertical = "Top",
                          !.origin = "ObservedByte17Offset"],
          [Centred EXCEPT !.pairs = <<Pair(33, 34, 2), Pair(33, 34, -2)>>]}

\* A container, a widget in it, and one in either; references with and without the
\* dollar sign, with two, and to nothing; a letter that the small fonts do not have.
Widget(parent, visible, reference) ==
    [parent |-> parent, visible |-> visible, reference |-> reference,
     kind |-> IF parent = 0 THEN "Container" ELSE "Text",
     identifier |-> IF parent = 1 THEN "selected" ELSE "other", color |-> "authored",
     alignment |-> "", left |-> 0, top |-> 8, width |-> 8, height |-> 8]
TextReferences == {<<36, 65>>, <<97>>, <<66>>, <<36, 36, 65>>}
MCScreens ==
    {[entries |-> <<Entry(TextA, <<33, 32, 34>>), Entry(TextB, <<33, 10, 34, 37>>)>>,
      widgets |-> <<Widget(0, first, <<>>), Widget(1, second, left), Widget(parent, TRUE, right)>>] :
        first, second \in BOOLEAN, left, right \in TextReferences, parent \in {1, 2}}
    \cup {[entries |-> <<Entry(TextA, <<33>>)>>,
           widgets |-> SubSeq(<<[Widget(0, TRUE, TextA) EXCEPT !.kind = kind],
                                Widget(1, second, TextA), Widget(2, TRUE, TextA),
                                Widget(3, last, TextA)>>, 1, depth)] :
             kind \in {"Container", "Button"}, second, last \in BOOLEAN, depth \in 3..4}
MCBudgets == {3, 4, 8, 20}

\* Whatever source is opened, its tables are read as they were written, a damaged
\* one gives nothing from outside it, and the texts it holds are shown whole and in
\* order where they fit: a formula about the formats, required of the step that
\* begins a tool's first opening of an image.
BeginsFirstOpening ==
    /\ session = "tool" /\ disk.kind = "image" /\ disk.version = 1
    /\ load.op = "none" /\ load'.op = "Open"
    /\ \A s \in Services : services[s] = NewService

ContentIsReadBack ==
    [][BeginsFirstOpening => WrittenContainersAreReadBack /\ WrittenTextsAreShown]_allVars

=============================================================================
