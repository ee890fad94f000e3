-------------------------------- MODULE Chunking --------------------------------
(* Splitting a text into messages of a bounded length, without tearing the code blocks *)
(* of its Markdown apart (adapters/channels/chunking.py).  Positions count from 1.     *)
EXTENDS Integers, Sequences, SequencesExt, FiniteSets, FiniteSetsExt

CONSTANTS
    Lines,      \* the lines texts are made of: sequences of characters
    MaxLines,   \* how many of them at most
    Limits      \* the limits a text is split for

Newline == "\n"
Mark == {"backtick", "tilde"}
IsSpace(c) == c \in {" ", Newline}

Texts ==
    {FoldLeft(LAMBDA t, l : t \o <<Newline>> \o l, Head(ls), Tail(ls)) :
        ls \in UNION {[1 .. n -> Lines] : n \in 1 .. MaxLines}}

NoFence == [start |-> 0, stop |-> 0, line |-> <<>>, size |-> 0, char |-> ""]
Failed == <<>>

--------------------------------------------------------------------------------
(* Fences.                                                                         *)

Starts(t) == SelectSeq([i \in DOMAIN t |-> i], LAMBDA i : i = 1 \/ t[i - 1] = Newline)
\* The last character of the line that starts at i; i - 1 for an empty line.
LineEnd(t, i) == Min({j \in i .. Len(t) : t[j] = Newline} \cup {Len(t) + 1}) - 1

\* _FENCE_RE at the line that starts at i: up to three blanks, then three marks of a kind.
FenceAt(t, i) ==
    LET e == LineEnd(t, i)
        at == {j \in i .. Min({i + 3, e}) : t[j] \in Mark /\ \A k \in i .. j - 1 : t[k] = " "}
        j == Max(at)
        size == Max({n \in 1 .. e - j + 1 : \A k \in j .. j + n - 1 : t[k] = t[j]})
    IN  IF at = {} \/ size < 3 THEN NoFence
        ELSE [start |-> i, stop |-> e, line |-> SubSeq(t, i, e), size |-> size, char |-> t[j]]

\* Nothing but blanks after the marks.
IsBare(f) == \A k \in DOMAIN f.line : f.line[k] \in {" ", f.char}

Closes(open, f) == f.char = open.char /\ f.size >= open.size /\ IsBare(f)

\* parse_fence_spans: what is open after the lines so far, and the spans that were closed.
Scanned(t) ==
    FoldLeft(LAMBDA r, i :
                 LET f == FenceAt(t, i)
                 IN  IF f = NoFence THEN r
                     ELSE IF r.open = NoFence THEN [r EXCEPT !.open = f]
                     ELSE IF Closes(r.open, f)
                          THEN [open |-> NoFence,
                                spans |-> r.spans \cup {[r.open EXCEPT !.stop = f.stop]}]
                          ELSE r,
             [open |-> NoFence, spans |-> {}], Starts(t))

Spans(t) ==
    LET r == Scanned(t)
    IN  r.spans \cup IF r.open = NoFence THEN {} ELSE {[r.open EXCEPT !.stop = Len(t)]}

\* find_fence_span_at
SpanAt(spans, i) ==
    LET at == {f \in spans : i \in f.start .. f.stop}
    IN  IF at = {} THEN NoFence ELSE CHOOSE f \in at : TRUE

--------------------------------------------------------------------------------
(* Splitting.                                                                      *)

\* find_safe_break: the last character to go along, at most e, when p went before.
SafeBreak(t, p, e, spans) ==
    LET at == {i \in p + 2 .. e : IsSpace(t[i]) /\ SpanAt(spans, i) = NoFence}
        ends == {i \in at : t[i] = Newline}
    IN  IF ends # {} THEN Max(ends) ELSE IF at # {} THEN Max(at) ELSE e

\* A part of the text, with what opens its block again and what closes it.
Part(reopen, body, close) == [reopen |-> reopen, body |-> body, close |-> close]
Whole(part) == part.reopen \o part.body \o part.close

Closing(f) == <<Newline>> \o [k \in 1 .. f.size |-> f.char]

\* What is left of the budget when the part has to close the block f.
Room(budget, f) == budget - Len(Closing(f))

\* One round of chunk_text: the part after p, where it ends, and how the next one begins.
\* A cut inside a block is looked for again, with room for what closes the block.
Split(t, limit, spans, p, reopen) ==
    LET budget == limit - Len(reopen)
        e == SafeBreak(t, p, p + budget, spans)
        f == SpanAt(spans, e)
        room == Room(budget, f)
        e2 == SafeBreak(t, p, p + room, spans)
    IN  IF budget > 0 /\ Len(t) - p <= budget
        THEN [end |-> Len(t), part |-> Part(reopen, SubSeq(t, p + 1, Len(t)), <<>>), next |-> <<>>]
        ELSE IF budget > 0 /\ f = NoFence
        THEN [end |-> e, part |-> Part(reopen, SubSeq(t, p + 1, e), <<>>), next |-> <<>>]
        ELSE IF budget > 0 /\ room > 0
        THEN [end |-> e2, part |-> Part(reopen, SubSeq(t, p + 1, e2), Closing(f)),
              next |-> f.line \o <<Newline>>]
        ELSE [end |-> p, part |-> Part(reopen, <<>>, <<>>), next |-> <<>>]

RECURSIVE Rest(_, _, _, _, _)
Rest(t, limit, spans, p, reopen) ==
    LET s == Split(t, limit, spans, p, reopen)
    IN  IF s.end = p THEN <<Failed>>
        ELSE IF s.end = Len(t) THEN <<s.part>>
        ELSE <<s.part>> \o Rest(t, limit, spans, s.end, s.next)

\* chunk_text; a ValueError is a part that failed.
ChunkText(t, limit) ==
    IF Len(t) <= limit THEN <<Part(<<>>, t, <<>>)>> ELSE Rest(t, limit, Spans(t), 0, <<>>)

--------------------------------------------------------------------------------
(* What the readers of the messages rely on.                                       *)

\* Which characters a reader of Markdown takes for code.
CodeOf(t) == {i \in DOMAIN t : SpanAt(Spans(t), i) # NoFence}
IsOpen(t) == Scanned(t).open # NoFence

\* No message is too long, and nothing of the text is lost or sent twice.
ChunksFit(t, limit, parts) ==
    /\ \A k \in DOMAIN parts : Len(Whole(parts[k])) <= limit
    /\ FlattenSeq([k \in DOMAIN parts |-> parts[k].body]) = t

\* Where part k ends in the text.
EndOf(parts, k) == Len(FlattenSeq([j \in 1 .. k |-> parts[j].body]))
\* A cut inside a line of marks leaves half a fence on either side.
CutsFence(t, parts) ==
    \E k \in 1 .. Len(parts) - 1 : \E i \in ToSet(Starts(t)) :
        FenceAt(t, i) # NoFence /\ EndOf(parts, k) \in i .. LineEnd(t, i) - 1

\* What is code in the text is code in the message it comes with, what is not is not, and a
\* message closes the block it is in unless it is the last: unless a fence itself is cut.
CodeStaysCode(t, parts) ==
    ~CutsFence(t, parts) =>
        \A k \in DOMAIN parts :
            LET before == Len(parts[k].reopen)
                from == EndOf(parts, k) - Len(parts[k].body)
                code == CodeOf(Whole(parts[k]))
            IN  /\ \A i \in DOMAIN parts[k].body :
                       (before + i \in code) <=> (from + i \in CodeOf(t))
                /\ k < Len(parts) => ~IsOpen(Whole(parts[k]))

ChunkingIsSound(t, limit) ==
    LET parts == ChunkText(t, limit)
    IN  Failed \in ToSet(parts) \/ (ChunksFit(t, limit, parts) /\ CodeStaysCode(t, parts))
================================================================================
