------------------------------- MODULE Chunker -------------------------------
(***************************************************************************)
(* What of a note is embedded: chunker_v2.go as a function of the title    *)
(* and the lines of the text, at a smaller scale. A byte of the text is    *)
(* <<its line, its place>>, a byte of a prefix has a negative place, and   *)
(* white space within a text is Newline. Runes have one byte; the types of *)
(* the chunks and the wording of the prefix are left out.                  *)
(***************************************************************************)
EXTENDS Integers, SequencesExt

CONSTANTS
  NoteLines,  \* the lines to choose from: kind, size, and where a sentence ends
  MaxLines, TitleSizes,
  TargetUnits, HardUnits, OverlapUnits, PrefixLimit

VARIABLES
  title,   \* the size of the title
  note,    \* the lines
  chunks   \* of the note, or not computed yet
chunkVars == <<title, note, chunks>>

Newline == <<0, 0>>
Bytes(i, size) == [k \in 1..size |-> <<i, k>>]
PrefixBytes(i, size) == [k \in 1..size |-> <<i, -k>>]
Joined(parts) == FoldLeft(LAMBDA s, p : IF s = <<>> THEN p ELSE s \o <<Newline>> \o p, <<>>, parts)
TrimSpace(s) ==
  LET text == {i \in DOMAIN s : s[i] # Newline}
  IN  IF text = {} THEN <<>> ELSE SubSeq(s, Min(text), Max(text))
Truncated(s, limit) == IF Len(s) <= limit THEN s ELSE SubSeq(s, 1, limit)
Tail60(s) == IF Len(s) <= OverlapUnits THEN s ELSE SubSeq(s, Len(s) - OverlapUnits + 1, Len(s))

------------------------------------------------------------------------------
(* parseChunkV2Blocks: paragraphs and code blocks with their headings.      *)

NewParser == [headings |-> <<0, 0, 0>>, blocks |-> <<>>, paragraph |-> <<>>, code |-> <<>>, fence |-> "none"]
breadcrumb(parser) == SelectSeq(parser.headings, LAMBDA h : h # 0)
Block(parser, lines, code) ==
  IF lines = <<>> THEN parser.blocks
  ELSE Append(parser.blocks, [breadcrumb |-> breadcrumb(parser), bytes |-> Joined(lines), code |-> code])
flushParagraph(parser) ==
  [parser EXCEPT !.blocks = Block(parser, parser.paragraph, FALSE), !.paragraph = <<>>]
flushCode(parser) ==
  [parser EXCEPT !.blocks = Block(parser, parser.code, TRUE), !.code = <<>>, !.fence = "none"]

\* Mutant: the headings below stay.
HeadingBeside(parser, level, i) == [parser EXCEPT !.headings = [@ EXCEPT ![level] = i]]
\* A heading clears those below it; one of a level the parser does not know is text.
Heading(parser, level, i) ==
  [parser EXCEPT !.headings = [l \in 1..3 |-> IF l < level THEN @[l] ELSE IF l = level THEN i ELSE 0]]
consume(parser, lines, i) ==
  LET line == lines[i] bytes == Bytes(i, line.size) IN
  CASE parser.fence # "none" ->
         LET more == [parser EXCEPT !.code = Append(@, bytes)]
         IN  IF line.kind = parser.fence THEN flushCode(more) ELSE more
    [] parser.fence = "none" /\ line.kind \in {"ticks", "tildes"} ->
         [flushParagraph(parser) EXCEPT !.fence = line.kind, !.code = <<bytes>>]
    [] parser.fence = "none" /\ line.kind \in {"#", "##"} ->
         Heading(flushParagraph(parser), Len(line.kind), i)
    [] parser.fence = "none" /\ line.kind = "blank" -> flushParagraph(parser)
    [] OTHER -> [parser EXCEPT !.paragraph = Append(@, bytes)]

parseChunkV2Blocks(lines) ==
  LET end == FoldLeft(LAMBDA parser, i : consume(parser, lines, i), NewParser, [i \in DOMAIN lines |-> i])
  IN  flushCode(flushParagraph(end)).blocks

------------------------------------------------------------------------------
(* Pieces of a block that fit behind its prefix.                            *)

\* The parts of s that end at these places, and the rest.
Parts(s, ends) ==
  LET cuts == <<0>> \o SetToSortSeq(ends \ {Len(s)}, <) \o <<Len(s)>>
  IN  [n \in 1..(Len(cuts) - 1) |-> TrimSpace(SubSeq(s, cuts[n] + 1, cuts[n + 1]))]
splitRunesByBytes(s, limit) ==
  [n \in 1..((Len(s) + limit - 1) \div limit) |->
     SubSeq(s, (n - 1) * limit + 1, IF n * limit < Len(s) THEN n * limit ELSE Len(s))]

\* What is too long by itself goes into pieces of its own (instead[n]).
packOrSplit(values, instead, limit) ==
  LET flushed(acc) == IF acc.current = <<>> THEN acc.done ELSE Append(acc.done, acc.current)
      Add(acc, n) ==
        LET value == values[n] joined == Joined(IF acc.current = <<>> THEN <<value>> ELSE <<acc.current, value>>) IN
        IF value = <<>> THEN acc
        ELSE IF Len(value) > limit THEN [done |-> flushed(acc) \o instead[n], current |-> <<>>]
        ELSE IF Len(joined) > limit THEN [done |-> flushed(acc), current |-> value]
        ELSE [acc EXCEPT !.current = joined]
  IN  flushed(FoldLeft(Add, [done |-> <<>>, current |-> <<>>], [n \in DOMAIN values |-> n]))

splitLinesByBytes(s, limit) ==
  LET lines == Parts(s, {i \in DOMAIN s : s[i] = Newline})
  IN  IF Len(s) <= limit THEN <<s>>
      ELSE packOrSplit(lines, [n \in DOMAIN lines |-> splitRunesByBytes(lines[n], limit)], limit)
splitTextByBytes(lines, s, limit) ==
  LET Stops(b) == b # Newline /\ lines[b[1]].stop = b[2]
      sentences == Parts(s, {i \in DOMAIN s : Stops(s[i])})
  IN  IF Len(s) <= limit THEN <<s>>
      ELSE IF Len(sentences) > 1
      THEN packOrSplit(sentences, [n \in DOMAIN sentences |-> splitLinesByBytes(sentences[n], limit)], limit)
      ELSE splitLinesByBytes(s, limit)

------------------------------------------------------------------------------
(* The builder packs pieces of one section into chunks.                     *)

NewBuilder == [chunks |-> <<>>, prefix |-> <<>>, body |-> <<>>, breadcrumb |-> <<>>]
\* Newline stands for the labels and line ends: they count in the last cut, which may
\* take the end of the section away.
chunkV2Prefix(size, lines, crumb) ==
  LET headings == FoldLeft(LAMBDA s, i : s \o PrefixBytes(i, lines[i].size), <<>>, crumb)
      named == SelectSeq(<<Truncated(PrefixBytes(0, size), PrefixLimit \div 2),
                           Truncated(headings, PrefixLimit \div 2)>>, LAMBDA s : s # <<>>)
  IN  IF named = <<>> THEN <<>> ELSE Truncated(Joined(named) \o <<Newline>>, PrefixLimit)

flush(b, preserveOverlap) ==
  LET content == b.prefix \o b.body
      overlap == TrimSpace(Tail60(b.body))
      kept == IF preserveOverlap /\ Len(b.prefix) + Len(overlap) <= TargetUnits THEN overlap ELSE <<>>
  IN  IF b.body = <<>> THEN b
      ELSE [b EXCEPT !.chunks = @ \o (IF Len(content) > HardUnits THEN splitRunesByBytes(content, HardUnits)
                                      ELSE <<content>>),
                     !.body = kept]
\* A blank line between two pieces.
Glued(body, piece) == IF body = <<>> THEN piece ELSE body \o <<Newline, Newline>> \o piece
Full(b, piece) == Len(b.prefix) + Len(Glued(b.body, piece)) > TargetUnits
addPiece(b, piece) ==
  LET flushed == flush(b, TRUE)
      room == IF ~Full(b, piece) THEN b ELSE IF ~Full(flushed, piece) THEN flushed ELSE [flushed EXCEPT !.body = <<>>]
  IN  [room EXCEPT !.body = Glued(@, piece)]

addBlock(b, size, lines, block) ==
  LET prefix == chunkV2Prefix(size, lines, block.breadcrumb)
      own == IF b.breadcrumb # <<>> /\ b.breadcrumb # block.breadcrumb THEN flush(b, FALSE) ELSE b
      start == IF own.body # <<>> /\ own.prefix # prefix THEN flush(own, FALSE) ELSE own
      limit == IF TargetUnits - Len(prefix) < 1 THEN 1 ELSE TargetUnits - Len(prefix)
      pieces == IF block.code THEN splitLinesByBytes(block.bytes, limit)
                ELSE splitTextByBytes(lines, block.bytes, limit)
  IN  FoldLeft(addPiece, [start EXCEPT !.prefix = prefix, !.breadcrumb = block.breadcrumb], pieces)

Chunk(size, lines) ==
  LET named == [NewBuilder EXCEPT !.chunks = splitRunesByBytes(PrefixBytes(0, size), TargetUnits)]
      built == FoldLeft(LAMBDA b, block : addBlock(b, size, lines, block), named, parseChunkV2Blocks(lines))
  IN  flush(built, FALSE).chunks

------------------------------------------------------------------------------
NotComputed == << <<>> >>
ChunkerInit == title \in TitleSizes /\ note \in BoundedSeq(NoteLines, MaxLines) /\ chunks = NotComputed
ChunkerNext == chunks = NotComputed /\ chunks' = Chunk(title, note) /\ UNCHANGED <<title, note>>

\* What a reader would call the text of a line, and the section it is in: a line
\* counts as code after a fence until the next of its kind.
Fences == [i \in 0..MaxLines |-> LET open[n \in 0..i] ==
             IF n = 0 \/ n > Len(note) THEN "none"
             ELSE IF open[n - 1] = "none" THEN (IF note[n].kind \in {"ticks", "tildes"} THEN note[n].kind ELSE "none")
             ELSE IF note[n].kind = open[n - 1] THEN "none" ELSE open[n - 1]
           IN open[i]]
IsText(i) == Fences[i - 1] # "none" \/ note[i].kind \notin {"#", "##", "blank"}
HeadingOf(kind, i) == {j \in 1..(i - 1) : note[j].kind = kind /\ ~IsText(j)}
SectionOf(i) ==
  LET h1 == HeadingOf("#", i)
      h2 == {j \in HeadingOf("##", i) : \A k \in h1 : k < j}
  IN  (IF h1 = {} THEN <<>> ELSE <<Max(h1)>>) \o (IF h2 = {} THEN <<>> ELSE <<Max(h2)>>)
BodyOf(c) == {c[k] : k \in {j \in DOMAIN c : c[j][2] > 0}}
Starts(s, prefix) == Len(prefix) <= Len(s) /\ SubSeq(s, 1, Len(prefix)) = prefix

\* docs/013: no chunk is longer than the target, so no provider refuses one, and
\* every byte of the text is in a chunk that names the section it is in.
ChunksCoverText ==
  chunks # NotComputed =>
    /\ \A n \in DOMAIN chunks : Len(chunks[n]) <= TargetUnits
    /\ \A i \in DOMAIN note : IsText(i) =>
         LET prefix == chunkV2Prefix(title, note, SectionOf(i)) IN
         \A b \in Range(Bytes(i, note[i].size)) :
           \E n \in DOMAIN chunks : b \in BodyOf(chunks[n]) /\ Starts(chunks[n], prefix)

\* The chunks follow the text: no byte twice in one, between two neighbours at
\* most the overlap, and none that only repeats.
ChunksFollowText ==
  chunks # NotComputed =>
    \A n \in DOMAIN chunks :
      LET body == SelectSeq(chunks[n], LAMBDA b : b[2] > 0)
          Before(a, b) == a[1] < b[1] \/ (a[1] = b[1] /\ a[2] < b[2])
      IN  /\ \A j \in 1..(Len(body) - 1) : Before(body[j], body[j + 1])
          /\ n > 1 /\ body # <<>> =>
               LET again == BodyOf(chunks[n]) \cap BodyOf(chunks[n - 1]) IN
               Cardinality(again) <= OverlapUnits /\ again # BodyOf(chunks[n])
================================================================================
