---- MODULE FuzzyMatch ----
(* How a hunk of a patch finds its place in a file (fuzzy_match.py). A text is a        *)
(* sequence of symbols: words, blanks, tabs and newlines. Four ways to match are tried  *)
(* in turn, each looser than the one before; the first that finds anything decides, and *)
(* it must have found one place only. A match <<s, e>> is the symbols from s to e.      *)
EXTENDS Naturals, FiniteSets, SequencesExt

Blanks == {" ", "\t"}

TrimLeft(line) ==
    LET words == {i \in DOMAIN line : line[i] \notin Blanks}
    IN IF words = {} THEN <<>> ELSE SubSeq(line, Min(words), Len(line))

Trim(line) == Reverse(TrimLeft(Reverse(TrimLeft(line))))

LinesOf(text) ==
    FoldLeft(LAMBDA lines, c : IF c = "\n" THEN Append(lines, <<>>)
                               ELSE [lines EXCEPT ![Len(lines)] = Append(@, c)],
             << <<>> >>, text)

Joined(lines) ==
    IF lines = <<>> THEN <<>>
    ELSE FoldLeft(LAMBDA text, line : text \o <<"\n">> \o line, Head(lines), Tail(lines))

\* Every place the pattern stands at, also those that overlap.
Exact(content, pattern) ==
    {<<s, s + Len(pattern) - 1>> :
        s \in {i \in 1 .. Len(content) + 1 - Len(pattern) :
                  SubSeq(content, i, i + Len(pattern) - 1) = pattern}}

\* Where a block of whole lines stands among the lines of a text.
Blocks(lines, found, wanted) ==
    LET before(i) == Len(Joined(SubSeq(lines, 1, i))) + (IF i = 0 THEN 0 ELSE 1)
    IN {<<before(i) + 1, before(i + Len(wanted)) - 1>> :
           i \in {k \in 0 .. Len(lines) - Len(wanted) :
                     SubSeq(found, k + 1, k + Len(wanted)) = wanted}}

\* Whole lines, compared as N makes them.
LineMatches(content, pattern, N(_)) ==
    LET Made(lines) == [i \in DOMAIN lines |-> N(lines[i])]
    IN Blocks(LinesOf(content), Made(LinesOf(content)), Made(LinesOf(pattern)))

\* Runs of blanks become one space.
Normalized(text) ==
    FoldLeft(LAMBDA t, c : IF c \notin Blanks THEN Append(t, c)
                           ELSE IF t # <<>> /\ Last(t) = " " THEN t ELSE Append(t, " "),
             <<>>, text)

\* From a match of the normalized text back to the original: from the first symbol that
\* became its first one to the last that became its last, and the blanks behind it.
PlaceOf(original, map, m) ==
    LET last == Max({i \in DOMAIN map : map[i] = m[2]})
        behind == {i \in last .. Len(original) :
                      \A j \in last + 1 .. i : original[j] \in Blanks}
    IN <<Min({i \in DOMAIN map : map[i] = m[1]}), Max(behind)>>

\* For every symbol of the original the place in the normalized text it is counted to;
\* the blanks of a run behind its first are counted to the symbol that follows.
PlacesIn(original, normalized) ==
    FoldLeft(LAMBDA s, i :
                 LET c == original[i]
                     on == s.n <= Len(normalized)
                 IN [map |-> Append(s.map, s.n),
                     n |-> IF on /\ \/ c = normalized[s.n]
                                    \/ /\ {c, normalized[s.n]} \subseteq Blanks
                                       /\ i < Len(original) /\ original[i + 1] \notin Blanks
                           THEN s.n + 1 ELSE s.n],
             [map |-> <<>>, n |-> 1], [i \in DOMAIN original |-> i]).map

PlacesOf(original, map, matches) == {PlaceOf(original, map, m) : m \in matches}
BlankMatches(content, pattern) ==
    PlacesOf(content, PlacesIn(content, Normalized(content)),
             Exact(Normalized(content), Normalized(pattern)))

FirstFound(tried) ==
    LET found == {i \in DOMAIN tried : tried[i] # {}}
    IN IF found = {} THEN {} ELSE tried[Min(found)]

Matches(content, pattern) ==
    FirstFound(<<Exact(content, pattern), LineMatches(content, pattern, Trim),
                 BlankMatches(content, pattern), LineMatches(content, pattern, TrimLeft)>>)

Replaced(content, m, new) ==
    [ok |-> TRUE,
     text |-> SubSeq(content, 1, m[1] - 1) \o new \o SubSeq(content, m[2] + 1, Len(content))]

ReplacedOnce(content, found, new) ==
    IF Cardinality(found) # 1 THEN [ok |-> FALSE, text |-> content]
    ELSE Replaced(content, CHOOSE m \in found : TRUE, new)

FindAndReplace(content, old, new) ==
    IF old = <<>> \/ old = new THEN [ok |-> FALSE, text |-> content]
    ELSE ReplacedOnce(content, Matches(content, old), new)

------------------------------------------------------------------------------

Words(text) == SelectSeq(text, LAMBDA c : c \notin Blanks)

\* Whatever way a pattern (not the empty one) was found: the place holds the words and line ends of the
\* pattern, all of them and no others, and one that stands there exactly is not passed over.
MatchHoldsPattern(content, pattern) ==
    /\ \A m \in Matches(content, pattern) :
          Words(SubSeq(content, m[1], m[2])) = Words(pattern)
    /\ Exact(content, pattern) # {} => Matches(content, pattern) = Exact(content, pattern)

\* What is replaced is all that was there to choose from: a pattern with two exact places
\* is refused, and the rest of the file keeps its words.
ReplacesOnce(content, old, new) ==
    LET r == FindAndReplace(content, old, new)
    IN IF r.ok
       THEN /\ Cardinality(Exact(content, old)) <= 1
            /\ \E i \in 0 .. Len(content), j \in 0 .. Len(content) :
                  /\ i <= j
                  /\ Words(SubSeq(content, i + 1, j)) = Words(old)
                  /\ r.text = SubSeq(content, 1, i) \o new \o SubSeq(content, j + 1, Len(content))
       ELSE r.text = content
====
