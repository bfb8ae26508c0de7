---------------------------- MODULE NoteMarkdown ----------------------------
(***************************************************************************)
(* lib/note_markdown.js: which runs of a line of Markdown are markers and  *)
(* which are content.  A text is a sequence of characters, one string      *)
(* each; offsets count from 0 as in the source.  A segment keeps its text, *)
(* its styles and whether it is a marker; where a link points is left out. *)
(***************************************************************************)
EXTENDS Integers, Sequences, SequencesExt, FiniteSetsExt, Lists

NL == "\n"
BackTick == "backtick"
Blank == {" ", "\t"}
Digit == {"0", "1", "2", "3", "4", "5", "6", "7", "8", "9"}
Letter == {"a", "b", "x", "X"}
WORD == Letter \cup Digit
Characters == WORD \cup Blank \cup
              {NL, BackTick, "*", "~", "_", "#", "-", "+", ">", "[", "]", "(", ")", "|", "."}

\* `s.slice(a, b)` for 0 <= a, and the character at an offset ("" past the end).
Slice(s, a, b) == SubSeq(s, a + 1, IF b < Len(s) THEN b ELSE Len(s))
From(s, a) == SubSeq(s, a + 1, Len(s))
At(s, i) == IF i \in 0..Len(s) - 1 THEN s[i + 1] ELSE ""

\* How many characters of `allowed` follow offset `i`: what a class and a `*` match.
Run(s, i, allowed) ==
  Max({0} \cup {k \in 1..Len(s) - i : \A j \in i + 1..i + k : s[j] \in allowed})
RunExcept(s, i, stops) ==
  Max({0} \cup {k \in 1..Len(s) - i : \A j \in i + 1..i + k : s[j] \notin stops})

LinesOf(text) ==
  LET upTo[n \in 0..Len(text)] ==
        IF n = 0 THEN << <<>> >>
        ELSE LET lines == upTo[n - 1]
             IN  IF text[n] = NL THEN Append(lines, <<>>)
                 ELSE [lines EXCEPT ![Len(lines)] = Append(@, text[n])]
  IN  upTo[Len(text)]

\* serializeLines, and every `join("\n")`: a break before each line but the first.
Broken(lines) == FlattenSeq([i \in DOMAIN lines |-> <<NL>> \o lines[i]])
SerializeLines(lines) == Tail(Broken(lines))

\* The offset at which each line begins, and the line that contains an offset.
LineStarts(lines) == [i \in DOMAIN lines |-> Len(Broken(SubSeq(lines, 1, i - 1)))]
LineIndexAt(starts, offset) ==
  Max({1} \cup {i \in 1..Len(starts) : offset >= starts[i]})

-----------------------------------------------------------------------------
\* Blocks: how much of the line is its marker, 0 when the line is no such block.
FENCE(line) ==
  LET i == Run(line, 0, Blank)
  IN  \E c \in {BackTick, "~"} : Slice(line, i, i + 3) = <<c, c, c>>

HR(line) ==
  LET bare == AllBut(line, Blank)
  IN  Len(bare) >= 3 /\ \E c \in {"-", "*", "_"} : \A i \in 1..Len(bare) : bare[i] = c

HeadingLen(line) ==
  LET level == Run(line, 0, {"#"})
      gap == Run(line, level, Blank)
  IN  IF level \in 1..6 /\ gap > 0 THEN level + gap ELSE 0

BulletLen(line) ==
  LET i == Run(line, 0, Blank)
      gap == Run(line, i + 1, Blank)
  IN  IF At(line, i) \in {"-", "*", "+"} /\ gap > 0 THEN i + 1 + gap ELSE 0

TaskLen(line) ==
  LET b == BulletLen(line)
      gap == Run(line, b + 3, Blank)
  IN  IF b > 0 /\ At(line, b) = "[" /\ At(line, b + 1) \in {" ", "x", "X"}
         /\ At(line, b + 2) = "]" /\ gap > 0 THEN b + 3 + gap ELSE 0

OrderedLen(line) ==
  LET i == Run(line, 0, Blank)
      n == Run(line, i, Digit)
      gap == Run(line, i + n + 1, Blank)
  IN  IF n \in 1..9 /\ At(line, i + n) \in {".", ")"} /\ gap > 0 THEN i + n + 1 + gap ELSE 0

\* A mutant: the blank after the mark is not optional.
QuoteAndBlank(line) ==
  LET i == Run(line, 0, Blank)
  IN  IF At(line, i) = ">" THEN i + 2 ELSE 0

QuoteLen(line) ==
  LET i == Run(line, 0, Blank)
  IN  IF At(line, i) = ">" THEN i + 1 + (IF At(line, i + 1) \in Blank THEN 1 ELSE 0) ELSE 0

Headings == <<"h1", "h2", "h3", "h4", "h5", "h6">>

\* blockOf: the kind of a line and the length of its marker.
BlockOf(line) ==
  IF HR(line) THEN [kind |-> "hr", width |-> Len(line)]
  ELSE IF HeadingLen(line) > 0
       THEN [kind |-> Headings[Run(line, 0, {"#"})], width |-> HeadingLen(line)]
  ELSE IF TaskLen(line) > 0 THEN [kind |-> "task", width |-> TaskLen(line)]
  ELSE IF BulletLen(line) > 0 THEN [kind |-> "bullet", width |-> BulletLen(line)]
  ELSE IF OrderedLen(line) > 0 THEN [kind |-> "ordered", width |-> OrderedLen(line)]
  ELSE IF QuoteLen(line) > 0 THEN [kind |-> "quote", width |-> QuoteLen(line)]
  ELSE [kind |-> "paragraph", width |-> 0]

-----------------------------------------------------------------------------
\* Spans.  A hit is the segments a span gives and the characters it consumes.
Segment(text, styles, marker) == [text |-> text, styles |-> styles, marker |-> marker]
Under(kind, segments) ==
  [i \in DOMAIN segments |-> [segments[i] EXCEPT !.styles = <<kind>> \o @]]
NoHit == [length |-> 0, segments |-> <<>>]

SPANS == <<
  [kind |-> "code",   mark |-> <<BackTick>>],
  [kind |-> "strike", mark |-> <<"~", "~">>],
  [kind |-> "bold",   mark |-> <<"*", "*">>],
  [kind |-> "bold",   mark |-> <<"_", "_">>],
  [kind |-> "italic", mark |-> <<"*">>],
  [kind |-> "italic", mark |-> <<"_">>] >>

\* The lengths of content after which the span closes: the shortest is taken.  A mark of one
\* character may not occur in the content, and "_" may not close right before a word.
Closes(rest, mark) ==
  LET w == Len(mark)
  IN  {k \in 1..Len(rest) - 2 * w :
         /\ Slice(rest, 0, w) = mark
         /\ Slice(rest, w + k, 2 * w + k) = mark
         /\ w = 1 => RunExcept(rest, 1, {mark[1]}) = k
         /\ mark = <<"_">> => At(rest, 2 * w + k) \notin WORD}

\* [[Target]] and [[Target|Label]]: the label is shown, what stands before it is marker.
MatchWiki(rest) ==
  LET t == RunExcept(rest, 2, {"]", "|"})
      piped == At(rest, 2 + t) = "|"
      open == IF piped THEN 3 + t ELSE 2
      shown == IF piped THEN RunExcept(rest, 3 + t, {"]"}) ELSE t
  IN  IF Slice(rest, 0, 2) = <<"[", "[">> /\ t > 0
         /\ Slice(rest, open + shown, open + shown + 2) = <<"]", "]">>
      THEN [length |-> open + shown + 2,
            segments |-> << Segment(Slice(rest, 0, open), <<"wiki">>, TRUE),
                            Segment(Slice(rest, open, open + shown), <<"wiki">>, FALSE),
                            Segment(<<"]", "]">>, <<"wiki">>, TRUE) >>]
      ELSE NoHit

\* [label](url): the address is marker.
MatchLink(rest) ==
  LET l == RunExcept(rest, 1, {"]"})
      end == 3 + l + RunExcept(rest, 3 + l, {")"})
  IN  IF At(rest, 0) = "[" /\ Slice(rest, 1 + l, 3 + l) = <<"]", "(">> /\ At(rest, end) = ")"
      THEN [length |-> end + 1,
            segments |-> << Segment(<<"[">>, <<"link">>, TRUE),
                            Segment(Slice(rest, 1, 1 + l), <<"link">>, FALSE),
                            Segment(Slice(rest, 1 + l, end + 1), <<"link">>, TRUE) >>]
      ELSE NoHit

\* What follows takes the tokenizer of the content as `inline`.

\* A mutant: the closing mark is not kept.
SpanUnclosed(span, content, inline) ==
  <<Segment(span.mark, <<span.kind>>, TRUE)>> \o Under(span.kind, inline[content])

\* Every span but code tokenizes its content too.
SpanSegments(span, content, inline) ==
  LET inner == IF span.kind = "code" THEN <<Segment(content, <<>>, FALSE)>>
               ELSE inline[content]
  IN  <<Segment(span.mark, <<span.kind>>, TRUE)>> \o Under(span.kind, inner)
        \o <<Segment(span.mark, <<span.kind>>, TRUE)>>

\* matchSpan: wiki links, links, then the first of SPANS that closes.
MatchSpan(rest, inline) ==
  LET wiki == MatchWiki(rest)
      link == MatchLink(rest)
      closed == {i \in DOMAIN SPANS : Closes(rest, SPANS[i].mark) # {}}
      span == SPANS[Min(closed)]
      k == Min(Closes(rest, span.mark))
      w == Len(span.mark)
  IN  IF wiki.length > 0 THEN wiki
      ELSE IF link.length > 0 THEN link
      ELSE IF closed # {}
           THEN [length |-> 2 * w + k, segments |-> SpanSegments(span, Slice(rest, w, w + k), inline)]
      ELSE NoHit

\* The text up to the first span as one plain run, the span, and the rest after it.
InlineSegments[text \in Seq(Characters)] ==
  LET Hit(i) == MatchSpan(From(text, i), InlineSegments)
      spans == {i \in 0..Len(text) - 1 : Hit(i).length > 0}
      first == Min(spans)
      Plain(n) == IF n > 0 THEN <<Segment(Slice(text, 0, n), <<>>, FALSE)>> ELSE <<>>
  IN  IF spans = {} THEN Plain(Len(text))
      ELSE Plain(first) \o Hit(first).segments
             \o InlineSegments[From(text, first + Hit(first).length)]

\* decorateLine: only the document knows whether the line stands inside a fence.
DecorateLine(line, inFence) ==
  LET b == BlockOf(line)
      marker == Slice(line, 0, b.width)
      body == From(line, b.width)
  IN  IF FENCE(line) THEN [kind |-> "fence", segments |-> <<Segment(line, <<"fence">>, TRUE)>>]
      ELSE IF inFence
           THEN [kind |-> "code",
                 segments |-> IF line = <<>> THEN <<>> ELSE <<Segment(line, <<"fence">>, FALSE)>>]
      ELSE [kind |-> b.kind,
            segments |-> (IF b.width > 0 THEN <<Segment(marker, <<b.kind>>, TRUE)>> ELSE <<>>)
                           \o InlineSegments[body]]

\* decorate: a line stands inside a fence when an odd number of fence lines precede it.
InFence(lines, i) == Cardinality({j \in 1..i - 1 : FENCE(lines[j])}) % 2 = 1
Decorate(lines) == [i \in 1..Len(lines) |-> DecorateLine(lines[i], InFence(lines, i))]

\* noteMarkdownHolds: the segments of a decorated line rebuild it.
TextOf(segments) == FlattenSeq([i \in DOMAIN segments |-> segments[i].text])
NoteMarkdownHolds(line, inFence) == TextOf(DecorateLine(line, inFence).segments) = line
=============================================================================
