----------------------------- MODULE MarkdownPipeline --------------------------
(***************************************************************************)
(* What MarkdownPreview does to the lines of a document before it is       *)
(* parsed (markdown-preview/index.tsx, helpers.ts), as a machine that      *)
(* performs one pass per step on every small document, and the outline     *)
(* that the editor takes from the same text.  A line is known by its kind; *)
(* "at" is the line of the document it comes from, 0 for an inserted one.  *)
(***************************************************************************)
EXTENDS Integers, Sequences, FiniteSets, SequencesExt, TLC

CONSTANTS LineKinds,    \* kinds of line the documents are made of: "ticks" is a line of three
                        \* backquotes, "4 ticks" of four, "ticks js" has a language, "indented
                        \* ticks" four spaces before them, "tildes" is the other fence
          MaxLines,
          Headings      \* heading texts, as createSlugger normalises them

VARIABLES document,  \* the kinds of the document's lines
          lines,     \* the lines as the passes left them
          pass,      \* how many passes were performed
          titles     \* texts of its headings, in order
pipelineVars == <<document, lines, pass, titles>>

Source == [i \in DOMAIN document |-> [kind |-> document[i], at |-> i]]
Inserted(kind) == [kind |-> kind, at |-> 0]
Becomes(l, kind) == [l EXCEPT !.kind = kind]

(***************************************************************************)
(* Fences                                                                  *)
(***************************************************************************)

\* Passes on single lines: trimmed.startsWith() switches in and out of code.
Ticks == {"ticks", "ticks js", "ticks toc", "4 ticks", "indented ticks"}
\* The fences of breakLazyListContinuation and extractHeadings, at most three spaces
\* in; a bare one may close a block of its own mark that is not longer.
Fence(kind) ==
  CASE kind = "ticks" -> [mark |-> "tick", length |-> 3, bare |-> TRUE]
    [] kind \in {"ticks js", "ticks toc"} -> [mark |-> "tick", length |-> 3, bare |-> FALSE]
    [] kind = "4 ticks" -> [mark |-> "tick", length |-> 4, bare |-> TRUE]
    [] kind = "tildes" -> [mark |-> "tilde", length |-> 3, bare |-> TRUE]
    [] OTHER -> [mark |-> "none", length |-> 0, bare |-> FALSE]
NoFence == Fence("text")
isClosingFence(f, open) == f.mark = open.mark /\ f.length >= open.length /\ f.bare
\* The fence that is open after a line, and whether the line is code or a fence.
AfterLine(open, kind) ==
  IF open = NoFence THEN Fence(kind) ELSE IF isClosingFence(Fence(kind), open) THEN NoFence ELSE open
OpenAt(ls) == LET open[i \in 0..Len(ls)] == IF i = 0 THEN NoFence ELSE AfterLine(open[i-1], ls[i].kind)
              IN open
InCode(ls, i) == OpenAt(ls)[i-1] # NoFence
IsHeading(kind) == kind = "heading"

\* extractHeadings / buildOutline: the lines of the headings.
buildOutline(ls) == {i \in DOMAIN ls : IsHeading(ls[i].kind) /\ ~InCode(ls, i)}

(***************************************************************************)
(* The passes                                                              *)
(***************************************************************************)

\* Outside of what the pass takes for code every line becomes f(line).
LineByLine(ls, f(_)) ==
  FoldLeft(LAMBDA acc, l : IF l.kind \in Ticks THEN [in |-> ~acc.in, out |-> Append(acc.out, l)]
                           ELSE [acc EXCEPT !.out = @ \o (IF acc.in THEN <<l>> ELSE f(l))],
           [in |-> FALSE, out |-> <<>>], ls).out
\* The table of contents: a fenced block with an entry for every heading.
buildTocMarkdown(ls) ==
  LET entries == [i \in 1..Cardinality(buildOutline(ls)) |-> Inserted("list")] IN
  IF entries = <<>> THEN <<>> ELSE <<Inserted("ticks toc")>> \o entries \o <<Inserted("ticks")>>
\* Without a table the placeholder becomes an empty line.
injectToc(ls, toc) ==
  LineByLine(ls, LAMBDA l : IF l.kind # "toc" THEN <<l>>
                            ELSE IF toc = <<>> THEN <<Becomes(l, "blank")>>
                            ELSE <<[Head(toc) EXCEPT !.at = l.at]>> \o Tail(toc))
\* $...$ for \(...\) is a replacement in the whole text.
mathFixed(ls) == [i \in DOMAIN ls |-> IF ls[i].kind = "math" THEN Becomes(ls[i], "dollar") ELSE ls[i]]
convertWikilinks(ls) ==
  LineByLine(ls, LAMBDA l : IF l.kind = "wikilink" THEN <<Becomes(l, "anchor")>> ELSE <<l>>)
escapeUnsupportedHtml(ls) ==
  LineByLine(ls, LAMBDA l : IF l.kind = "unknown tag" THEN <<Becomes(l, "escaped")>> ELSE <<l>>)
\* Mutant: the passes go on at the line that closed the block.
convertAdmonitionsAgain(ls) ==
  LET from[i \in 1..(Len(ls) + 1), in \in BOOLEAN] ==
        IF i > Len(ls) THEN <<>>
        ELSE IF ls[i].kind \in Ticks THEN <<ls[i]>> \o from[i + 1, ~in]
        ELSE LET ends == {j \in (i + 1)..Len(ls) : ls[j].kind = "end"} IN
             IF ls[i].kind = "admonition" /\ ~in /\ ends # {}
             THEN LET j == CHOOSE k \in ends : \A e \in ends : k <= e IN
                  <<Becomes(ls[i], "div"), Inserted("blank")>> \o SubSeq(ls, i + 1, j - 1)
                  \o <<Inserted("blank"), Becomes(ls[j], "div end")>> \o from[j, in]
             ELSE <<ls[i]>> \o from[i + 1, in]
  IN from[1, FALSE]
\* From line i on: a ::: block that is closed becomes a div with empty lines inside.
convertAdmonitions(ls) ==
  LET from[i \in 1..(Len(ls) + 1), in \in BOOLEAN] ==
        IF i > Len(ls) THEN <<>>
        ELSE IF ls[i].kind \in Ticks THEN <<ls[i]>> \o from[i + 1, ~in]
        ELSE LET ends == {j \in (i + 1)..Len(ls) : ls[j].kind = "end"} IN
             IF ls[i].kind = "admonition" /\ ~in /\ ends # {}
             THEN LET j == CHOOSE k \in ends : \A e \in ends : k <= e IN
                  <<Becomes(ls[i], "div"), Inserted("blank")>> \o SubSeq(ls, i + 1, j - 1)
                  \o <<Inserted("blank"), Becomes(ls[j], "div end")>> \o from[j + 1, in]
             ELSE <<ls[i]>> \o from[i + 1, in]
  IN from[1, FALSE]

\* breakLazyListContinuation: an empty line before a line that would otherwise
\* continue the list or the quotation above it.
classifyPlainLine(kind) ==
  CASE kind = "blank" -> "blank" [] kind = "list" -> "list" [] kind = "quote" -> "blockquote"
    [] kind = "indented" -> "indented" [] OTHER -> "text"
Broken == [inList |-> FALSE, inBlockquote |-> FALSE]
processPlainLine(acc, l) ==
  LET kind == classifyPlainLine(l.kind)
      Put(before, ctx) == [acc EXCEPT !.out = @ \o before \o <<l>>, !.ctx = ctx] IN
  CASE kind = "blockquote" -> Put(<<>>, [inList |-> FALSE, inBlockquote |-> TRUE])
    [] kind # "blockquote" /\ acc.ctx.inBlockquote /\ kind # "blank" -> Put(<<Inserted("blank")>>, Broken)
    [] kind = "list" /\ ~acc.ctx.inBlockquote -> Put(<<>>, [inList |-> TRUE, inBlockquote |-> FALSE])
    [] kind = "text" /\ ~acc.ctx.inBlockquote /\ acc.ctx.inList -> Put(<<Inserted("blank")>>, Broken)
    [] kind = "blank" -> Put(<<>>, Broken)
    [] OTHER -> Put(<<>>, acc.ctx)
breakLazyListContinuation(ls) ==
  FoldLeft(LAMBDA acc, l :
             LET open == AfterLine(acc.open, l.kind) IN
             IF acc.open = NoFence /\ open = NoFence THEN processPlainLine(acc, l)
             ELSE [open |-> open, out |-> Append(acc.out, l),
                   ctx |-> IF acc.open = NoFence \/ open = NoFence THEN Broken ELSE acc.ctx],
           [open |-> NoFence, ctx |-> Broken, out |-> <<>>], ls).out

\* processedContent: the order of the passes.  showInlineToc is a prop of the preview:
\* the editor's pane hides the table, every other reader shows it.
Pass(n, ls, showInlineToc) ==
  CASE n = 1 -> injectToc(ls, IF showInlineToc THEN buildTocMarkdown(Source) ELSE <<>>)
    [] n = 2 -> mathFixed(ls) [] n = 3 -> convertWikilinks(ls) [] n = 4 -> convertAdmonitions(ls)
    [] n = 5 -> escapeUnsupportedHtml(ls) [] n = 6 -> breakLazyListContinuation(ls)
Passes == 6

(***************************************************************************)
(* Anchors                                                                 *)
(***************************************************************************)

\* createSlugger: the text, with a number when the text occurred before.
Slug(texts, i) ==
  LET n == Cardinality({j \in 1..(i - 1) : texts[j] = texts[i]}) IN
  IF n = 0 THEN texts[i] ELSE texts[i] \o "-" \o ToString(n)
createSlugger(texts) == [i \in DOMAIN texts |-> Slug(texts, i)]

PipelineInit ==
  /\ document \in UNION {[1..n -> LineKinds] : n \in 1..MaxLines}
  /\ titles \in [1..Cardinality(buildOutline(Source)) -> Headings]
  /\ lines = Source /\ pass = 0
PipelineNext ==
  /\ pass < Passes /\ pass' = pass + 1
  /\ \E showInlineToc \in BOOLEAN : lines' = Pass(pass + 1, lines, showInlineToc)
  /\ UNCHANGED <<document, titles>>

\* Every line of the document is still there, once and in its place, whatever the
\* passes insert or rewrite: an anchor in the text or a line of code never gets lost.
NothingLost ==
  LET kept == SelectSeq(lines, LAMBDA l : l.at # 0) IN
  Len(kept) = Len(document) /\ \A i \in DOMAIN kept : kept[i].at = i
\* The passes on single lines take line i for code.
TakenForCode(i) == Cardinality({j \in 1..(i - 1) : document[j] \in Ticks}) % 2 = 1
\* The headings of the preview are those of the outline, in the same order: index.tsx
\* gives a heading the anchor of the outline entry with the same number.  Not so when
\* a placeholder in a code block is taken for text: its table may close the block.
OutlineMatchesPreview ==
  pass = Passes /\ (\A i \in DOMAIN document : document[i] = "toc" /\ InCode(Source, i) => TakenForCode(i))
    => {lines[i].at : i \in buildOutline(lines)} = buildOutline(Source)
\* A line in a code block stays as it is, unless it holds a formula, or is a line of a
\* ::: block that began further up, or the passes take it for text: in a block of
\* tildes, or behind a shorter or an unclosed fence.
CodeStays ==
  \A i \in DOMAIN lines :
    LET at == lines[i].at IN
    at # 0 /\ InCode(Source, at) /\ lines[i].kind # document[at] =>
      \/ document[at] = "math" \/ ~TakenForCode(at)
      \/ document[at] \in {"admonition", "end"} /\ \E j \in 1..(at - 1) : document[j] = "admonition"
\* An entry of the outline leads to its own heading: two have one anchor only when the
\* text of the one is the numbered anchor of the other.
AnchorsDiffer ==
  LET anchors == createSlugger(titles) IN
  \A i, j \in DOMAIN titles : i < j /\ anchors[i] = anchors[j] =>
    titles[i] # titles[j] /\ (titles[i] = anchors[i]) # (titles[j] = anchors[j])
\* What docs/005:25 asks: headings of one text get anchors that do not clash.
AnchorsNeverClash == IsInjective(createSlugger(titles))
\* What docs/005:107 asks: the passes rewrite no line in a fenced code block.
CodeIsUntouched ==
  \A i \in DOMAIN lines :
    lines[i].at # 0 /\ InCode(Source, lines[i].at) => lines[i].kind = document[lines[i].at]
================================================================================
