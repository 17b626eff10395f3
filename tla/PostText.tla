----------------------------- MODULE PostText ------------------------------
(***************************************************************************)
(* Cutting the text of a post into messages: _split_chunks. A character is  *)
(* a letter, a space or the end of a line; the text was stripped when it    *)
(* was stored.                                                              *)
(***************************************************************************)
EXTENDS Integers, Sequences

CONSTANT ChunkLimit  \* _CHUNK_LIMIT, in characters

ASSUME ChunkAssumption == ChunkLimit \in Nat \ {0}

Letter == "x"
Space  == " "
Line   == "/"
Blank  == {Space, Line}

Text == Seq({Letter} \cup Blank)

Largest(S) == CHOOSE n \in S : \A o \in S : o <= n

\* str.rfind: how many characters come before the last occurrence, or -1.
RFind(text, what) ==
  LET found == {i \in 0 .. Len(text) - Len(what) : SubSeq(text, i + 1, i + Len(what)) = what}
  IN IF found = {} THEN -1 ELSE Largest(found)

RStrip(text) ==
  SubSeq(text, 1, Largest({0} \cup {i \in DOMAIN text : text[i] \notin Blank}))

LStrip(text) ==
  LET words == {i \in DOMAIN text : text[i] \notin Blank}
  IN IF words = {} THEN << >>
     ELSE SubSeq(text, CHOOSE i \in words : \A j \in words : i <= j, Len(text))

\* Between paragraphs, else between lines, else between words, else anywhere; a
\* paragraph or a line that ends early in the window does not count.
SplitAt(text) ==
  LET window == SubSeq(text, 1, ChunkLimit)
      ends   == <<RFind(window, <<Line, Line>>), RFind(window, <<Line>>), RFind(window, <<Space>>)>>
      late   == {i \in 1 .. 2 : ends[i] >= ChunkLimit \div 2}
      choice == IF late = {} THEN 3 ELSE CHOOSE i \in late : \A j \in late : i <= j
  IN IF ends[choice] > 0 THEN ends[choice] ELSE ChunkLimit

FirstChunk(text) ==
  IF Len(text) <= ChunkLimit THEN text ELSE RStrip(SubSeq(text, 1, SplitAt(text)))

Rest(text) ==
  IF Len(text) <= ChunkLimit THEN << >> ELSE LStrip(SubSeq(text, SplitAt(text) + 1, Len(text)))

\* The parts stand in the text, one after the other and unchanged; what is left
\* between them, before and after, is blank.
MadeOf(text, parts) ==
  \E at \in [DOMAIN parts -> 0 .. Len(text)] :
    /\ \A i \in DOMAIN parts :
         /\ at[i] + Len(parts[i]) <= Len(text)
         /\ \A c \in DOMAIN parts[i] : parts[i][c] = text[at[i] + c]
    /\ \A i, j \in DOMAIN parts : i < j => at[i] + Len(parts[i]) <= at[j]
    /\ \A c \in DOMAIN text :
         text[c] \in Blank \/ \E i \in DOMAIN parts : c \in at[i] + 1 .. at[i] + Len(parts[i])
=============================================================================
