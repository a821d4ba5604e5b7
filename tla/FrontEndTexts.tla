----------------------------- MODULE FrontEndTexts -----------------------------
(***************************************************************************)
(* The texts of the front end: the table they are read from                *)
(* (retail/retail_string_table_decoder.cpp), the fonts                     *)
(* (retail/fnt_v3_decoder.cpp), the layout of a text in a rectangle        *)
(* (frontend_text/text_layout.cpp) and the text pass of a frame            *)
(* (frontend_presentation/retail_front_end_frame.cpp).                     *)
(*                                                                         *)
(* A table is a sequence of bytes; a font one of cells, each a byte, a     *)
(* 16-bit word or a float.  Measures are integers, and even where the code *)
(* takes half of one: floats that are neither rounded nor too large.       *)
(* The caller's budgets are in GameData; the bytes of a layout are not     *)
(* counted.  Of a frame only the texts are drawn: the visuals of its       *)
(* scopes are bounded and bound, and some of their geometry has taken its  *)
(* part of the budget before.                                              *)
(***************************************************************************)
EXTENDS Archives

CONSTANTS
    KeyBytes,           \* kRetailStringTableKeyStorageBytes
    StringLimit,        \* kRetailStringTableMaximumEntryCount
    AtlasBytes,         \* kFntV3AtlasReferenceBytes
    GlyphLimit,         \* kFntV3MaximumGlyphCount
    TailLimit,          \* kFntV3MaximumZeroTailBytes
    DepthLimit,         \* kMaximumVisualTreeDepth
    AtlasExtent,        \* width and height of a font's atlas, in a screen
    Unit,               \* 1.0F of an atlas
    WrittenTables,      \* tables to be written: entries of a key and a value
    WrittenFonts,       \* fonts to be written
    LaidTexts,          \* texts to be laid out
    Layouts,            \* with these options
    Screens,            \* widgets to be drawn
    Budgets             \* with as many triangles

ASSUME FrontEndTextsAssumption ==
    /\ {KeyBytes, StringLimit, AtlasBytes, GlyphLimit, TailLimit, DepthLimit, AtlasExtent,
        Unit} \subseteq Nat
    /\ KeyBytes % 4 = 0 /\ AtlasBytes > 4

-----------------------------------------------------------------------------
(* The string table: a count; entries of a key padded with zeros, the span of  *)
(* the value, and the value ended by zero and padded to four bytes.            *)

CountBytes == 4
SpanBytes == 4
WordAt(bytes, at) ==
    bytes[at + 1] + 256 * (bytes[at + 2] + 256 * (bytes[at + 3] + 256 * bytes[at + 4]))
Align4(n) == ((n + 3) \div 4) * 4

\* LowerAscii.
Lower(text) == [i \in DOMAIN text |-> IF text[i] \in 65..90 THEN text[i] + 32 ELSE text[i]]

\* The entry at an offset, and where the next one is.
EntryAt(bytes, at) ==
    LET storage  == SubSeq(bytes, at + 1, at + KeyBytes)
        zero     == SelectInSeq(storage, LAMBDA c : c = 0)
        value_at == at + KeyBytes + SpanBytes
        span     == WordAt(bytes, at + KeyBytes)
        value    == SubSeq(bytes, value_at + 1, value_at + span - 1)
    IN  IF /\ value_at <= Len(bytes)
           /\ zero > 1
           /\ \A i \in DOMAIN storage : IF i < zero THEN storage[i] \in Printable
                                        ELSE storage[i] = 0
           /\ span # 0 /\ value_at + Align4(span) <= Len(bytes)
           /\ 0 \notin ToSet(value) /\ bytes[value_at + span] = 0
        THEN [ok |-> TRUE, next |-> value_at + Align4(span),
              key |-> Lower(SubSeq(storage, 1, zero - 1)), value |-> value]
        ELSE Refused

\* CompareNormalizedKeys, of entries that have been sorted.
HasOneKeyEach(entries) == IsInjective([i \in DOMAIN entries |-> entries[i].key])

\* Preflight: the entries fill the table.
ReadEntries(bytes) ==
    LET step(read, k) ==
            LET entry == EntryAt(bytes, read.next)
            IN  IF ~read.ok \/ ~entry.ok THEN [read EXCEPT !.ok = FALSE]
                ELSE [read EXCEPT !.next = entry.next,
                         !.entries = Append(@, [key |-> entry.key, value |-> entry.value])]
        count == WordAt(bytes, 0)
        read  == FoldLeft(step, [ok |-> TRUE, next |-> CountBytes, entries |-> <<>>],
                          [k \in 1..count |-> k])
    IN  IF Len(bytes) >= CountBytes /\ count <= StringLimit /\ read.ok
           /\ read.next = Len(bytes)
        THEN read ELSE Refused

ParseStringTable(bytes) ==
    LET read == ReadEntries(bytes)
    IN  IF read.ok /\ HasOneKeyEach(read.entries)
        THEN [ok |-> TRUE, entries |-> read.entries] ELSE Refused

\* RetailStringTableIR::Find.
FindString(table, key) ==
    LET i == SelectInSeq(table.entries, LAMBDA e : e.key = Lower(key))
    IN  IF i = 0 THEN Refused ELSE [ok |-> TRUE, value |-> table.entries[i].value]

-----------------------------------------------------------------------------
(* Fonts: version, span of the name, the atlas's name and zero, two bytes of   *)
(* unknown meaning, count, glyphs of four cells, the advance of a space, the   *)
(* presence of a pair table, and zeros.                                        *)

FontVersion == 3
AtlasSuffix == <<46, 84, 68, 88>>       \* .TDX
SafeNameBytes == Letters \cup (48..57) \cup {95, 45}
GlyphCells == 4

\* ReadS8.
Signed8(byte) == IF byte <= 127 THEN byte ELSE byte - 256

\* A float that is no number or infinite is a cell outside 0..Unit as well.
IsGlyph(g) ==
    /\ {g.u_left, g.u_right, g.v_top, g.v_bottom} \subseteq 0..Unit
    /\ g.u_left <= g.u_right /\ g.v_top <= g.v_bottom

CountAt == AtlasBytes + 6
SpaceAt(cells) == CountAt + GlyphCells * cells[CountAt] + 1
AtlasName(cells) == SubSeq(cells, 3, 2 + AtlasBytes)
GlyphAt(cells, i) ==
    LET cell(k) == cells[CountAt + GlyphCells * (i - 1) + k]
    IN  [u_left |-> cell(1), u_right |-> cell(2), v_top |-> cell(3), v_bottom |-> cell(4)]

\* Preflight.
IsFont(cells) ==
    LET base == SubSeq(AtlasName(cells), 1, AtlasBytes - Len(AtlasSuffix))
        tail == SubSeq(cells, SpaceAt(cells) + 2, Len(cells))
    IN  /\ Len(cells) >= CountAt
        /\ cells[1] = FontVersion /\ cells[2] = AtlasBytes + 1
        /\ ToSet(base) \subseteq SafeNameBytes /\ IsSuffix(AtlasSuffix, AtlasName(cells))
        /\ cells[AtlasBytes + 3] = 0
        /\ cells[CountAt] <= GlyphLimit /\ SpaceAt(cells) + 1 <= Len(cells)
        /\ \A i \in 1..cells[CountAt] : IsGlyph(GlyphAt(cells, i))
        /\ cells[SpaceAt(cells) + 1] = 0
        /\ Len(tail) <= TailLimit /\ ToSet(tail) \subseteq {0}

\* DecodeFntV3.
DecodeFont(cells) ==
    IF ~IsFont(cells) THEN Refused
    ELSE [ok |-> TRUE, atlas |-> AtlasName(cells), byte17 |-> cells[AtlasBytes + 5],
          glyphs |-> [i \in 1..cells[CountAt] |-> GlyphAt(cells, i)],
          space |-> Signed8(cells[SpaceAt(cells)])]

\* GlyphForCodepoint: the glyphs are those of the code points from 33.
Blank == 32
LineBreak == 10
GlyphIndex(c) == c - Blank
HasGlyph(font, c) == GlyphIndex(c) \in DOMAIN font.glyphs
IsSupported(font, c) == c = Blank \/ HasGlyph(font, c)

GlyphWidth(font, c, width) ==
    LET g == font.glyphs[GlyphIndex(c)] IN (g.u_right - g.u_left) * (width \div Unit)
GlyphHeight(font, c, height) ==
    LET g == font.glyphs[GlyphIndex(c)] IN (g.v_bottom - g.v_top) * (height \div Unit)

\* AdvanceForCodepoint, and AdvanceFor: a space is not tracked.
AdvanceFor(font, c, options) ==
    IF c = Blank THEN font.space
    ELSE GlyphWidth(font, c, options.atlas_width) + options.tracking

\* LineCellHeight: one height of all glyphs, or none.
LineCellHeight(font, height) ==
    LET heights == {GlyphHeight(font, Blank + i, height) : i \in DOMAIN font.glyphs}
    IN  IF Cardinality(heights) = 1 THEN [ok |-> TRUE, height |-> Max(heights)] ELSE Refused

-----------------------------------------------------------------------------
(* Lines: items of a code point and its place in the text; the dots of an      *)
(* ellipsis have none.                                                         *)

NoSource == 0
Item(c, source) == [code |-> c, source |-> source]
Dots == [i \in 1..3 |-> Item(Dot, NoSource)]

\* FindPairAdjustment, in what BuildPairLookup sorts.
PairDelta(options, left, right) ==
    LET i == SelectInSeq(options.pairs, LAMBDA p : p.left = left /\ p.right = right)
    IN  IF i = 0 THEN 0 ELSE options.pairs[i].delta

\* With the adjustment of each pair.
MeasureItems(font, items, options) ==
    LET width(i) == AdvanceFor(font, items[i].code, options)
                    + IF i = 1 THEN 0
                      ELSE PairDelta(options, items[i - 1].code, items[i].code)
    IN  FoldLeft(LAMBDA sum, i : sum + width(i), 0, [i \in DOMAIN items |-> i])

LastSpace(items) == SelectLastInSeq(items, LAMBDA item : item.code = Blank)
HasNonSpaceBefore(items, end) == \E i \in 1..(end - 1) : items[i].code # Blank
TrimTrailingSpaces(items) ==
    SubSeq(items, 1, SelectLastInSeq(items, LAMBDA item : item.code # Blank))
TrimLeadingSpaces(items) ==
    LET first == SelectInSeq(items, LAMBDA item : item.code # Blank)
    IN  IF first = 0 THEN <<>> ELSE SubSeq(items, first, Len(items))

Line(items, advance, ellipsized) ==
    [ok |-> TRUE, items |-> items, advance |-> advance, ellipsized |-> ellipsized]

\* ApplyEllipsis: the longest beginning that leaves room for the dots, and ends with
\* no space.
ApplyEllipsis(font, items, advance, options) ==
    LET text == TrimTrailingSpaces(items)
        with(n) == SubSeq(text, 1, n) \o Dots
        fits == {n \in 0..Len(text) : /\ n = 0 \/ text[n].code # Blank
                                      /\ MeasureItems(font, with(n), options) <= options.width}
    IN  IF advance <= options.width \/ ~options.ellipsis THEN Line(items, advance, FALSE)
        ELSE IF ~HasGlyph(font, Dot) \/ 0 \notin fits THEN Refused
        ELSE Line(with(Max(fits)), MeasureItems(font, with(Max(fits)), options), TRUE)

\* finalize_line.
FinalizeLine(laid, font, items, advance, options) ==
    LET line == ApplyEllipsis(font, items, advance, options)
    IN  IF Len(laid.lines) >= options.limits.lines \/ ~line.ok THEN [laid EXCEPT !.ok = FALSE]
        ELSE [laid EXCEPT !.lines = Append(@, line), !.current = <<>>]

\* A break that is not the text's own begins an empty line: the word that became too
\* wide is lost.
LayNextForgettingWord(laid, font, text, i, options) ==
    LET current == Append(laid.current, Item(text[i], i))
        space   == LastSpace(current)
    IN  IF text[i] = LineBreak
        THEN FinalizeLine(laid, font, laid.current, MeasureItems(font, laid.current, options),
                          options)
        ELSE IF /\ options.wrap /\ MeasureItems(font, current, options) > options.width
                /\ space # 0 /\ HasNonSpaceBefore(current, space)
        THEN FinalizeLine(laid, font, TrimTrailingSpaces(SubSeq(current, 1, space - 1)),
                          MeasureItems(font, SubSeq(current, 1, space), options), options)
        ELSE [laid EXCEPT !.current = current]

\* The next code point: a line ends where the text says, or at its last space when
\* it has become too wide; that space's advance stays with the line.
LayNext(laid, font, text, i, options) ==
    LET current == Append(laid.current, Item(text[i], i))
        space   == LastSpace(current)
    IN  IF text[i] = LineBreak
        THEN FinalizeLine(laid, font, laid.current, MeasureItems(font, laid.current, options),
                          options)
        ELSE IF /\ options.wrap /\ MeasureItems(font, current, options) > options.width
                /\ space # 0 /\ HasNonSpaceBefore(current, space)
        THEN [FinalizeLine(laid, font, TrimTrailingSpaces(SubSeq(current, 1, space - 1)),
                           MeasureItems(font, SubSeq(current, 1, space), options), options)
                 EXCEPT !.current =
                     TrimLeadingSpaces(SubSeq(current, space + 1, Len(current)))]
        ELSE [laid EXCEPT !.current = current]

WorkingLines(font, text, options) ==
    LET laid == FoldLeft(LAMBDA state, i : IF state.ok
                                           THEN LayNext(state, font, text, i, options)
                                           ELSE state,
                         [ok |-> TRUE, lines |-> <<>>, current |-> <<>>],
                         [i \in DOMAIN text |-> i])
    IN  IF ~laid.ok THEN laid
        ELSE FinalizeLine(laid, font, laid.current, MeasureItems(font, laid.current, options),
                          options)

HasOnePairEach(pairs) == IsInjective([i \in DOMAIN pairs |-> <<pairs[i].left, pairs[i].right>>])

\* ValidateInputs and BuildPairLookup.
CanLayOut(font, text, options) ==
    /\ Len(text) <= options.limits.codepoints /\ Len(options.pairs) <= options.limits.pairs
    /\ options.width >= 0 /\ options.height >= 0 /\ options.step > 0
    /\ options.atlas_width > 0 /\ options.atlas_height > 0
    /\ \A i \in DOMAIN font.glyphs : IsGlyph(font.glyphs[i])
    /\ \A i \in DOMAIN text : text[i] = LineBreak \/ IsSupported(font, text[i])
    /\ \A p \in ToSet(options.pairs) : IsSupported(font, p.left) /\ IsSupported(font, p.right)
    /\ HasOnePairEach(options.pairs)

\* Where a block of lines begins, and a line.
BlockTop(options, count) ==
    LET height == options.step * count
    IN  CASE options.vertical = "Top" -> options.top
          [] options.vertical = "Center" -> options.top - (options.height - height) \div 2
          [] options.vertical = "Bottom" -> options.top - options.height + height
LineLeft(options, advance) ==
    CASE options.horizontal = "Left" -> options.left
      [] options.horizontal = "Right" -> options.left + options.width - advance
      [] options.horizontal = "Center" -> options.left + (options.width - advance) \div 2

\* The quads of a line: spaces move the cursor and have none.
LineGlyphs(font, line, left, source_y, options) ==
    LET cursor(k) == left + MeasureItems(font, SubSeq(line.items, 1, k), options)
                     - AdvanceFor(font, line.items[k].code, options)
        top == source_y - IF options.origin = "LineOrigin" THEN 0 ELSE font.byte17
        quad(k) ==
            LET c == line.items[k].code
            IN  [code |-> c, source |-> line.items[k].source, left |-> cursor(k), top |-> top,
                 right |-> cursor(k) + GlyphWidth(font, c, options.atlas_width),
                 bottom |-> top - GlyphHeight(font, c, options.atlas_height)]
        shown == SelectSeq([k \in DOMAIN line.items |-> k],
                           LAMBDA k : line.items[k].code # Blank)
    IN  [j \in DOMAIN shown |-> quad(shown[j])]

\* LayoutRetailText.
LayoutText(font, text, options) ==
    LET working == WorkingLines(font, text, options)
        top     == BlockTop(options, Len(working.lines))
        laid(k) ==
            LET line == working.lines[k]
                left == LineLeft(options, line.advance)
                y    == top - options.step * (k - 1)
            IN  [left |-> left, source_y |-> y, advance |-> line.advance,
                 ellipsized |-> line.ellipsized,
                 glyphs |-> LineGlyphs(font, line, left, y, options)]
        lines == [k \in DOMAIN working.lines |-> laid(k)]
    IN  IF /\ CanLayOut(font, text, options) /\ working.ok
           /\ FoldLeft(LAMBDA n, line : n + Len(line.glyphs), 0, lines) <= options.limits.glyphs
        THEN [ok |-> TRUE, lines |-> lines] ELSE Refused

-----------------------------------------------------------------------------
(* The text pass of a frame (frontend_presentation/retail_front_end_frame.cpp): *)
(* the widgets of a screen, each after its parent and its elder siblings' trees, *)
(* drawn with one font.                                                         *)

Absent == <<>>                          \* no text reference
Dollar == 36
TextKinds == {"Text", "Button"}
GlyphTracking == 2                      \* kRetailGlyphTracking
TrianglesOfQuad == 2

\* The first widget of a screen holds all the others.
IsDrawableRoot(widget) == widget.kind = "Container" /\ widget.visible

\* At which depth the recursions come to each widget.
DepthIn(widgets) ==
    LET depth[i \in 0..Len(widgets)] == IF i = 0 THEN -1 ELSE depth[widgets[i].parent] + 1
    IN  depth

\* A widget's text is drawn if it and all that hold it are visible.
Reached(widgets) ==
    LET seen[i \in 0..Len(widgets)] == i = 0 \/ (seen[widgets[i].parent] /\ widgets[i].visible)
    IN  {i \in DOMAIN widgets : seen[i]}

\* A plausible error: what is not drawn may be as deep as it likes.
DrawnWidgetsAreClaimed(widgets) ==
    \A i \in Reached(widgets) : DepthIn(widgets)[i] < DepthLimit

\* CollectVisualNodeClaims: hidden widgets are claimed as well.  The same bound in
\* AppendGuiTextTriangles is never met after it.
ClaimsAreComplete(widgets) ==
    \A i \in DOMAIN widgets : DepthIn(widgets)[i] < DepthLimit

\* The value of a reference, without one dollar sign; nothing for one that the table
\* does not have.
WidgetText(table, reference) ==
    LET found == FindString(table, IF reference[1] = Dollar THEN Tail(reference) ELSE reference)
    IN  IF found.ok THEN found.value ELSE <<>>

MapHorizontalAlignment(authored) == IF authored = "" THEN "Left" ELSE authored

GuiTextOptions(font, widget) ==
    LET cell == LineCellHeight(font, AtlasExtent)
    IN  [left |-> widget.left, top |-> widget.top, width |-> widget.width,
         height |-> widget.height, step |-> IF cell.ok THEN cell.height ELSE widget.height,
         atlas_width |-> AtlasExtent, atlas_height |-> AtlasExtent,
         tracking |-> GlyphTracking,
         horizontal |-> MapHorizontalAlignment(widget.alignment),
         vertical |-> "Center", wrap |-> FALSE, ellipsis |-> FALSE, pairs |-> <<>>,
         origin |-> "LineOrigin",
         limits |-> [codepoints |-> 65536, lines |-> 65536, glyphs |-> 65536, pairs |-> 65536]]

\* IsRasterizableTriangle, of both triangles of a glyph.
IsRasterizable(quad) == quad.left # quad.right /\ quad.top # quad.bottom

\* TriangleAppendBudget, for both triangles.
HasRoom(drawn) == drawn.remaining >= TrianglesOfQuad

\* The quads that have no room are left out, and those that have are shown.
AppendGlyphQuadWhileRoom(drawn, quad, color) ==
    IF ~IsRasterizable(quad) \/ ~HasRoom(drawn) THEN drawn
    ELSE [drawn EXCEPT !.remaining = @ - TrianglesOfQuad,
                       !.quads = Append(@, [quad |-> quad, color |-> color])]

\* Once the budget is exceeded, nothing is drawn.
AppendGlyphQuad(drawn, quad, color) ==
    IF drawn.exceeded \/ ~IsRasterizable(quad) THEN drawn
    ELSE IF ~HasRoom(drawn) THEN [drawn EXCEPT !.exceeded = TRUE]
    ELSE [drawn EXCEPT !.remaining = @ - TrianglesOfQuad,
                       !.quads = Append(@, [quad |-> quad, color |-> color])]

\* AppendGuiTextTriangles, of one widget: a layout that fails leaves it empty.
DrawWidget(drawn, widget, table, font, selected) ==
    LET layout == LayoutText(font, WidgetText(table, widget.reference),
                             GuiTextOptions(font, widget))
        color  == IF selected # "" /\ widget.identifier = selected THEN "selection"
                  ELSE widget.color
    IN  IF widget.kind \notin TextKinds \/ widget.reference = Absent \/ ~font.ok THEN drawn
        ELSE IF ~layout.ok THEN drawn
        ELSE FoldLeft(LAMBDA d, quad : AppendGlyphQuad(d, quad, color), drawn,
                      FlattenSeq([k \in DOMAIN layout.lines |-> layout.lines[k].glyphs]))

\* ComposeRetailFrontEndFrame, where the geometry has left this budget: a frame is
\* given whole or not at all.
NoFrame(error) == [ok |-> FALSE, error |-> error]
DrawTexts(widgets, table, font, selected, budget) ==
    LET drawn == FoldLeft(LAMBDA d, i : IF i \in Reached(widgets)
                                        THEN DrawWidget(d, widgets[i], table, font, selected)
                                        ELSE d,
                          [exceeded |-> FALSE, remaining |-> budget, quads |-> <<>>],
                          [i \in DOMAIN widgets |-> i])
    IN  IF ~IsDrawableRoot(widgets[1]) THEN NoFrame("UnsupportedRootWidget")
        ELSE IF ~ClaimsAreComplete(widgets) \/ drawn.exceeded THEN NoFrame("LimitExceeded")
        ELSE [ok |-> TRUE, quads |-> drawn.quads]

-----------------------------------------------------------------------------
(* What a writer of the formats puts down, and what may become of it.          *)

ZeroPadded(bytes, size) == [i \in 1..size |-> IF i <= Len(bytes) THEN bytes[i] ELSE 0]
WordBytes(n) == ZeroPadded(<<n % 256, n \div 256>>, SpanBytes)

WrittenTable(entries) ==
    LET written(e) == ZeroPadded(e.key, KeyBytes) \o WordBytes(Len(e.value) + 1)
                      \o ZeroPadded(e.value, Align4(Len(e.value) + 1))
    IN  WordBytes(Len(entries)) \o FlattenSeq([i \in DOMAIN entries |-> written(entries[i])])

WrittenFont(font) ==
    LET glyph(g) == <<g.u_left, g.u_right, g.v_top, g.v_bottom>>
    IN  <<FontVersion, AtlasBytes + 1>> \o font.atlas
        \o <<0, 0, font.byte17, Len(font.glyphs)>>
        \o FlattenSeq([i \in DOMAIN font.glyphs |-> glyph(font.glyphs[i])])
        \o <<font.space % 256, 0>>

\* One cell is another, or the end is missing, or there is one cell more.
Damaged(cells) ==
    {[cells EXCEPT ![i] = c] : i \in DOMAIN cells, c \in DamagedWords}
        \cup {SubSeq(cells, 1, n) : n \in 0..(Len(cells) - 1)}
        \cup {Append(cells, c) : c \in DamagedWords}

IsWritable(e) ==
    /\ Len(e.key) \in 1..(KeyBytes - 1) /\ ToSet(e.key) \subseteq Printable
    /\ 0 \notin ToSet(e.value)

\* A table is read as it was written, and a key found in any case, unless two
\* entries would have one key.
TableIsReadBack(entries) ==
    LET table == ParseStringTable(WrittenTable(entries))
        keys  == [i \in DOMAIN entries |-> Lower(entries[i].key)]
    IN  IF /\ Len(entries) <= StringLimit /\ IsInjective(keys)
           /\ \A e \in ToSet(entries) : IsWritable(e)
        THEN /\ table.ok
             /\ \A e \in ToSet(entries) :
                   \A key \in {e.key, Lower(e.key), [i \in DOMAIN e.key |-> Upper(e.key[i])]} :
                      FindString(table, key) = [ok |-> TRUE, value |-> e.value]
        ELSE ~table.ok

\* What is read of any bytes accounts for all of them, and each entry is the one
\* that its key finds.
TableIsSound(bytes) ==
    LET table == ParseStringTable(bytes)
        size(e) == KeyBytes + SpanBytes + Align4(Len(e.value) + 1)
    IN  table.ok =>
            /\ Len(bytes) = FoldLeft(LAMBDA n, e : n + size(e), CountBytes, table.entries)
            /\ \A e \in ToSet(table.entries) : FindString(table, e.key).value = e.value

FontIsReadBack(font) ==
    DecodeFont(WrittenFont(font)) =
        [ok |-> TRUE, atlas |-> font.atlas, byte17 |-> font.byte17, glyphs |-> font.glyphs,
         space |-> font.space]

\* A font that is read can be laid out with, whatever cells it was read from.
FontIsSound(cells) ==
    LET font == DecodeFont(cells)
    IN  font.ok =>
            /\ \A g \in ToSet(font.glyphs) : IsGlyph(g)
            /\ font.space \in -128..127
            /\ Len(cells) - (AtlasBytes + 8 + GlyphCells * Len(font.glyphs)) \in 0..TailLimit

\* No visible part of the text is lost, invented or out of order: but for an
\* ellipsis, which takes the end of its line.
TextIsKept(text, lines) ==
    LET quads   == FlattenSeq([k \in DOMAIN lines |-> lines[k].glyphs])
        sourced == SelectSeq(quads, LAMBDA q : q.source # NoSource)
        visible == {i \in DOMAIN text : text[i] \notin {Blank, LineBreak}}
        lineOf(i) == CHOOSE k \in DOMAIN lines :
                         i \in {q.source : q \in ToSet(lines[k].glyphs)}
        shown   == {q.source : q \in ToSet(sourced)}
        after(k) ==
            {q.source : q \in UNION {ToSet(lines[j].glyphs) : j \in (k + 1)..Len(lines)}}
    IN  /\ \A j \in DOMAIN sourced : sourced[j].code = text[sourced[j].source]
        /\ \A j \in 1..(Len(sourced) - 1) : sourced[j].source < sourced[j + 1].source
        /\ \A i \in visible \ shown : \E k \in DOMAIN lines :
              /\ lines[k].ellipsized
              /\ \A q \in ToSet(lines[k].glyphs) : q.source < i
              /\ \A source \in after(k) \ {NoSource} : i < source
        /\ \A i, j \in shown :
              (\E b \in i..j : text[b] = LineBreak) => lineOf(i) < lineOf(j)

\* Where a line may be broken, and a space moves it on, it is no wider than the
\* rectangle; one that ends with an ellipsis fits, and would not with one character
\* more.
LinesFit(font, text, lines, options) ==
    \A k \in DOMAIN lines :
        LET glyphs  == lines[k].glyphs
            sources == {q.source : q \in ToSet(glyphs)} \ {NoSource}
            items(upto) == [i \in 1..(upto - Min(sources) + 1) |->
                               Item(text[Min(sources) + i - 1], Min(sources) + i - 1)]
            gaps == {i \in Min(sources)..Max(sources) : text[i] = Blank}
        IN  IF lines[k].ellipsized
            THEN /\ options.ellipsis /\ lines[k].advance <= options.width
                 /\ Len(glyphs) >= 3
                 /\ \A j \in (Len(glyphs) - 2)..Len(glyphs) : glyphs[j].source = NoSource
                 /\ sources # {} =>
                      LET next == Max(sources) + 1
                      IN  MeasureItems(font, items(next) \o Dots, options) > options.width
                          \/ text[next] = Blank
            ELSE options.wrap /\ font.space >= 0 /\ sources # {} /\ gaps # {}
                    => MeasureItems(font, items(Max(sources)), options) <= options.width

\* Lines stand where the alignment puts them, one step below another; the quads of
\* a line do not overlap unless it is tightened.
LinesAreAligned(font, lines, options) ==
    /\ \A k \in DOMAIN lines :
          LET line  == lines[k]
              right == options.left + options.width
          IN  /\ CASE options.horizontal = "Left" -> line.left = options.left
                   [] options.horizontal = "Right" -> line.left + line.advance = right
                   [] options.horizontal = "Center" ->
                         line.left - options.left = right - (line.left + line.advance)
              /\ options.tracking >= 0 /\ options.pairs = <<>> /\ font.space >= 0 =>
                   \A j \in 1..(Len(line.glyphs) - 1) :
                      line.glyphs[j].right <= line.glyphs[j + 1].left
              /\ k > 1 => line.source_y = lines[k - 1].source_y - options.step
    /\ LET top    == lines[1].source_y
           bottom == lines[Len(lines)].source_y - options.step
       IN  CASE options.vertical = "Top" -> top = options.top
             [] options.vertical = "Bottom" -> bottom = options.top - options.height
             [] options.vertical = "Center" ->
                   options.top - top = bottom - (options.top - options.height)

TextIsLaidOut(font, text, options) ==
    LET layout == LayoutText(font, text, options)
    IN  IF layout.ok
        THEN /\ TextIsKept(text, layout.lines)
             /\ LinesFit(font, text, layout.lines, options)
             /\ LinesAreAligned(font, layout.lines, options)
        ELSE \/ \E i \in DOMAIN text : text[i] # LineBreak /\ ~IsSupported(font, text[i])
             \/ options.ellipsis
             \/ Len(text) >= options.limits.lines \/ Len(text) > options.limits.glyphs
             \/ Len(text) > options.limits.codepoints \/ ~HasOnePairEach(options.pairs)

\* A screen that is drawn shows the texts of all the widgets that are visible with all
\* that hold them, whole and in order, the selected one in its own color, and a line
\* in the middle of its widget.  Nothing at all is drawn when they need more than the
\* budget, when a widget, even a hidden one, is held by too many others, and when what
\* holds them all is hidden or no container.
ScreenIsDrawn(widgets, table, font, selected, budget) ==
    LET holds(j, i) == j <= i /\ \A m \in (j + 1)..i : widgets[m].parent >= j
        holders(i)  == {j \in DOMAIN widgets : holds(j, i)}
        named(i) == {e \in ToSet(table.entries) :
                        LET reference == Lower(widgets[i].reference)
                        IN  \/ reference = <<Dollar>> \o e.key
                            \/ reference = e.key /\ e.key[1] # Dollar}
        value(i) == IF named(i) = {} THEN <<>> ELSE (CHOOSE e \in named(i) : TRUE).value
        letters(i)  == SelectSeq(value(i), LAMBDA c : c \notin {Blank, LineBreak})
        shows(i) == /\ font.ok /\ widgets[i].kind \in TextKinds
                    /\ \A j \in holders(i) : widgets[j].visible
                    /\ \A c \in ToSet(letters(i)) : IsSupported(font, c)
        shown == SelectSeq([i \in DOMAIN widgets |-> i], shows)
        quads(i) == [k \in DOMAIN letters(i) |-> [code |-> letters(i)[k], widget |-> i]]
        all   == FlattenSeq([k \in DOMAIN shown |-> quads(shown[k])])
        frame == DrawTexts(widgets, table, font, selected, budget)
        container == \A i \in DOMAIN widgets :
                         \E j \in holders(i) : widgets[j].kind = "Container" /\ widgets[j].visible
                                              /\ holders(j) = {j}
        bounded == /\ TrianglesOfQuad * Len(all) <= budget
                   /\ \A i \in DOMAIN widgets : Cardinality(holders(i)) <= DepthLimit
    IN  /\ frame.ok = (container /\ bounded)
        /\ ~frame.ok => frame.error = IF container THEN "LimitExceeded"
                                      ELSE "UnsupportedRootWidget"
        /\ frame.ok =>
             /\ DOMAIN frame.quads = DOMAIN all
             /\ \A j \in DOMAIN all :
                   LET widget == widgets[all[j].widget]
                       drawn  == frame.quads[j]
                   IN  /\ drawn.quad.code = all[j].code
                       /\ (drawn.color = "selection") =
                             (selected # "" /\ widget.identifier = selected)
                       /\ LineBreak \notin ToSet(value(all[j].widget))
                          /\ LineCellHeight(font, AtlasExtent).ok
                            => widget.top - drawn.quad.top =
                                 drawn.quad.bottom - (widget.top - widget.height)

\* Tables, fonts, texts and screens, as they are written and shown, and damaged.
WrittenTextsAreShown ==
    /\ \A entries \in WrittenTables :
          /\ TableIsReadBack(entries)
          /\ \A bytes \in Damaged(WrittenTable(entries)) : TableIsSound(bytes)
    /\ \A font \in WrittenFonts :
          /\ FontIsReadBack(font)
          /\ \A cells \in Damaged(WrittenFont(font)) : FontIsSound(cells)
          /\ \A text \in LaidTexts, options \in Layouts :
                TextIsLaidOut(DecodeFont(WrittenFont(font)), text, options)
    /\ \A screen \in Screens, budget \in Budgets, selected \in {"", "selected"} :
          \A font \in {Refused} \cup {DecodeFont(WrittenFont(f)) : f \in WrittenFonts} :
             ScreenIsDrawn(screen.widgets, ParseStringTable(WrittenTable(screen.entries)), font,
                           selected, budget)
===============================================================================
