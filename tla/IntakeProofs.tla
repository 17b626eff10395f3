---------------------------- MODULE IntakeProofs ----------------------------
(***************************************************************************)
(* What the bot's door promises, for any layers of the rate limit the        *)
(* configuration admits, any number of users, handlers, taps and failures.  *)
(***************************************************************************)
EXTENDS Intake, WellFoundedInduction, SequenceTheorems, FiniteSetTheorems, TLAPS

-----------------------------------------------------------------------------
(***************************************************************************)
(* Chunks. A text that does not begin with a blank is cut into a chunk that  *)
(* fits a message and is not empty, and a rest that is shorter; only blanks *)
(* are lost at the cut.                                                     *)
(***************************************************************************)

LEMMA FirstExists ==
  ASSUME NEW S, S \subseteq Nat, S # {}
  PROVE  \E i \in S : \A j \in S : i <= j
<1>1. PICK i \in S : \A j \in S : ~(<<j, i>> \in OpToRel(<, Nat))
  BY NatLessThanWellFounded, WFMin
<1>2. \A j \in S : ~(j < i)
  BY <1>1 DEF OpToRel
<1>3. QED
  BY <1>2

LEMMA LargestExists ==
  ASSUME NEW S, S \subseteq Int, S # {}, \E n \in Int : \A i \in S : i <= n
  PROVE  Largest(S) \in S /\ \A o \in S : o <= Largest(S)
<1>0. PICK n \in Int : \A i \in S : i <= n
  OBVIOUS
<1> DEFINE gaps == {n - i : i \in S}
<1>1. gaps \subseteq Nat
  <2>1. ASSUME NEW i \in S PROVE n - i \in Nat
    <3>1. i \in Int /\ i <= n
      BY <1>0
    <3>2. QED
      BY <3>1
  <2>2. QED
    BY <2>1
<1>2. gaps # {}
  OBVIOUS
<1>3. PICK g \in gaps : \A h \in gaps : g <= h
  <2> HIDE DEF gaps
  <2>1. QED
    BY <1>1, <1>2, FirstExists
<1>4. PICK m \in S : g = n - m
  OBVIOUS
<1>5. \A o \in S : o <= m
  <2>1. ASSUME NEW o \in S PROVE o <= m
    <3>1. n - o \in gaps
      OBVIOUS
    <3>2. n - m <= n - o
      BY <1>3, <1>4, <3>1
    <3>3. m \in Int /\ o \in Int
      OBVIOUS
    <3>4. QED
      BY <3>2, <3>3
  <2>2. QED
    BY <2>1
<1>6. QED
  BY <1>5 DEF Largest

Char == {Letter} \cup Blank

LEMMA PartTypes ==
  ASSUME NEW text \in Text, NEW m \in 1 .. Len(text) + 1, NEW n \in 0 .. Len(text)
  PROVE  /\ SubSeq(text, m, n) \in Text
         /\ Len(SubSeq(text, m, n)) = IF m <= n THEN n - m + 1 ELSE 0
         /\ \A i \in 1 .. n - m + 1 : SubSeq(text, m, n)[i] = text[m + i - 1]
<1>1. text \in Seq(Char) /\ m \in Int /\ n \in Int /\ Len(text) \in Nat
  BY DEF Text, Char
<1>2. \A i \in m .. n : text[i] \in Char
  BY <1>1
<1>3. QED
  BY <1>1, <1>2, SubSeqProperties DEF Text, Char

LEMMA RFindTypes ==
  ASSUME NEW text, NEW n \in Nat, Len(text) = n, NEW what, NEW w \in Nat \ {0}, Len(what) = w
  PROVE  RFind(text, what) = -1 \/ RFind(text, what) \in 0 .. n - 1
<1> DEFINE found == {i \in 0 .. n - w : SubSeq(text, i + 1, i + Len(what)) = what}
<1>1. RFind(text, what) = IF found = {} THEN -1 ELSE Largest(found)
  BY DEF RFind
<1>2. found \subseteq 0 .. n - 1
  OBVIOUS
<1> HIDE DEF found
<1>3. CASE found = {}
  BY <1>1, <1>3
<1>4. CASE found # {}
  <2>1. found \subseteq Int /\ \E m \in Int : \A i \in found : i <= m
    <3>1. found \subseteq Int
      BY <1>2
    <3>2. \A i \in found : i <= n
      BY <1>2
    <3>3. QED
      BY <3>1, <3>2
  <2>2. Largest(found) \in found
    BY <1>4, <2>1, LargestExists
  <2>3. QED
    BY <1>1, <1>2, <1>4, <2>2
<1>5. QED
  BY <1>3, <1>4

LEMMA SplitTypes ==
  ASSUME NEW text \in Text, Len(text) > ChunkLimit
  PROVE  SplitAt(text) \in 1 .. ChunkLimit
<1> USE ChunkAssumption
<1> DEFINE window == SubSeq(text, 1, ChunkLimit)
           ends   == <<RFind(window, <<Line, Line>>), RFind(window, <<Line>>), RFind(window, <<Space>>)>>
           late   == {i \in 1 .. 2 : ends[i] >= ChunkLimit \div 2}
           choice == IF late = {} THEN 3 ELSE CHOOSE i \in late : \A j \in late : i <= j
<1>1. Len(text) \in Nat /\ ChunkLimit \in 0 .. Len(text)
  BY DEF Text
<1>2. Len(window) = ChunkLimit
  BY <1>1, PartTypes
<1>3. \A i \in 1 .. 3 : ends[i] \in Int /\ (ends[i] = -1 \/ ends[i] \in 0 .. ChunkLimit - 1)
  <2>1. Len(<<Line, Line>>) = 2 /\ Len(<<Line>>) = 1 /\ Len(<<Space>>) = 1
    OBVIOUS
  <2> HIDE DEF window
  <2>2. \A what \in {<<Line, Line>>, <<Line>>, <<Space>>} :
          RFind(window, what) = -1 \/ RFind(window, what) \in 0 .. ChunkLimit - 1
    <3>1. TAKE what \in {<<Line, Line>>, <<Line>>, <<Space>>}
    <3>2. PICK n \in Nat : n = ChunkLimit /\ Len(window) = n
      BY <1>2
    <3>3. PICK w \in Nat \ {0} : Len(what) = w
      <4>1. Len(what) = 1 \/ Len(what) = 2
        BY <2>1
      <4>2. 1 \in Nat \ {0} /\ 2 \in Nat \ {0}
        OBVIOUS
      <4>3. QED
        BY <4>1, <4>2
    <3>4. RFind(window, what) = -1 \/ RFind(window, what) \in 0 .. n - 1
      BY <3>2, <3>3, RFindTypes
    <3>5. QED
      BY <3>2, <3>4
  <2>3. \A i \in 1 .. 3 : \E what \in {<<Line, Line>>, <<Line>>, <<Space>>} : ends[i] = RFind(window, what)
    OBVIOUS
  <2>4. QED
    BY <2>2, <2>3
<1>4. choice \in 1 .. 3
  <2>1. late \subseteq Nat /\ late \subseteq 1 .. 3
    OBVIOUS
  <2> HIDE DEF late
  <2>2. CASE late = {}
    BY <2>2
  <2>3. CASE late # {}
    BY <2>1, <2>3, FirstExists
  <2>4. QED
    BY <2>2, <2>3
<1>5. SplitAt(text) = IF ends[choice] > 0 THEN ends[choice] ELSE ChunkLimit
  BY DEF SplitAt
<1> HIDE DEF ends, choice
<1>6. QED
  BY <1>3, <1>4, <1>5

LEMMA RStripTypes ==
  ASSUME NEW text \in Text, NEW n \in Nat, Len(text) = n
  PROVE  /\ RStrip(text) \in Text /\ Len(RStrip(text)) \in 0 .. n
         /\ text # << >> /\ text[1] \notin Blank => Len(RStrip(text)) \in 1 .. n
         /\ \A i \in 1 .. Len(RStrip(text)) : RStrip(text)[i] = text[i]
         /\ \A i \in Len(RStrip(text)) + 1 .. n : text[i] \in Blank
<1> DEFINE kept == {0} \cup {i \in DOMAIN text : text[i] \notin Blank}
<1>1. DOMAIN text = 1 .. n
  BY DEF Text
<1>2. kept \subseteq 0 .. n /\ kept # {}
  BY <1>1
<1>3. text # << >> /\ text[1] \notin Blank => 1 \in kept
  <2>1. text # << >> => n >= 1
    BY DEF Text
  <2>2. QED
    BY <1>1, <2>1
<1>4. RStrip(text) = SubSeq(text, 1, Largest(kept))
  BY DEF RStrip
<1> HIDE DEF kept
<1>5. kept \subseteq Int /\ \E m \in Int : \A i \in kept : i <= m
  <2>1. n \in Int /\ \A i \in kept : i <= n
    BY <1>2
  <2>2. QED
    BY <1>2, <2>1
<1>6. Largest(kept) \in kept /\ \A i \in kept : i <= Largest(kept)
  BY <1>2, <1>5, LargestExists
<1>7. PICK l \in 0 .. n : l = Largest(kept)
  BY <1>2, <1>6
<1>8. 1 \in 1 .. Len(text) + 1 /\ l \in 0 .. Len(text)
  OBVIOUS
<1>9. /\ RStrip(text) \in Text /\ Len(RStrip(text)) = l
      /\ \A i \in 1 .. l : RStrip(text)[i] = text[i]
  <2>1. /\ RStrip(text) \in Text /\ Len(RStrip(text)) = IF 1 <= l THEN l - 1 + 1 ELSE 0
        /\ \A i \in 1 .. l - 1 + 1 : RStrip(text)[i] = text[1 + i - 1]
    BY <1>4, <1>7, <1>8, PartTypes
  <2>2. QED
    BY <2>1
<1>10. text # << >> /\ text[1] \notin Blank => 1 <= l
  BY <1>3, <1>6, <1>7
<1>11. ASSUME NEW i \in l + 1 .. n PROVE text[i] \in Blank
  <2>1. text[i] \notin Blank => i \in kept
    BY <1>1 DEF kept
  <2>2. QED
    BY <1>6, <1>7, <2>1
<1>12. QED
  BY <1>9, <1>10, <1>11

LEMMA LStripTypes ==
  ASSUME NEW text \in Text
  PROVE  /\ LStrip(text) \in Text /\ Len(LStrip(text)) <= Len(text)
         /\ LStrip(text) # << >> => LStrip(text)[1] \notin Blank
         /\ \E s \in 0 .. Len(text) :
              /\ Len(LStrip(text)) = Len(text) - s
              /\ \A i \in 1 .. Len(text) - s : LStrip(text)[i] = text[s + i]
              /\ \A i \in 1 .. s : text[i] \in Blank
<1> DEFINE words == {i \in DOMAIN text : text[i] \notin Blank}
           start == CHOOSE i \in words : \A j \in words : i <= j
<1>1. Len(text) \in Nat /\ DOMAIN text = 1 .. Len(text)
  BY DEF Text
<1>2. CASE words = {}
  <2>1. LStrip(text) = << >>
    BY <1>2 DEF LStrip
  <2>2. << >> \in Text /\ Len(<< >>) = 0
    BY DEF Text
  <2>3. \A i \in 1 .. Len(text) : text[i] \in Blank
    BY <1>1, <1>2
  <2>4. \E s \in 0 .. Len(text) :
          /\ Len(LStrip(text)) = Len(text) - s
          /\ \A i \in 1 .. Len(text) - s : LStrip(text)[i] = text[s + i]
          /\ \A i \in 1 .. s : text[i] \in Blank
    <3>1. Len(text) \in 0 .. Len(text) /\ Len(LStrip(text)) = Len(text) - Len(text)
      BY <1>1, <2>1, <2>2
    <3>2. \A i \in 1 .. Len(text) - Len(text) : LStrip(text)[i] = text[Len(text) + i]
      BY <1>1
    <3>3. QED
      BY <2>3, <3>1, <3>2
  <2>5. LStrip(text) \in Text /\ Len(LStrip(text)) <= Len(text)
    BY <1>1, <2>1, <2>2
  <2>6. QED
    BY <2>1, <2>4, <2>5
<1>3. CASE words # {}
  <2>1. words \subseteq Nat
    BY <1>1
  <2>2. start \in words /\ \A j \in words : start <= j
    <3> HIDE DEF words
    <3>1. QED
      BY <1>3, <2>1, FirstExists
  <2>3. start \in 1 .. Len(text) /\ text[start] \notin Blank
    BY <1>1, <2>2
  <2>4. LStrip(text) = SubSeq(text, start, Len(text))
    BY <1>3 DEF LStrip
  <2> HIDE DEF start
  <2>5. /\ LStrip(text) \in Text /\ Len(LStrip(text)) = Len(text) - start + 1
        /\ \A i \in 1 .. Len(text) - start + 1 : LStrip(text)[i] = text[start + i - 1]
    BY <1>1, <2>3, <2>4, PartTypes
  <2>6. LStrip(text)[1] = text[start]
    BY <1>1, <2>3, <2>5
  <2>7. ASSUME NEW i \in 1 .. start - 1 PROVE text[i] \in Blank
    <3>1. i \in 1 .. Len(text) /\ ~(start <= i)
      BY <1>1, <2>3
    <3>2. i \notin words
      BY <2>2, <3>1
    <3>3. QED
      BY <1>1, <3>1, <3>2
  <2>8. PICK s \in 0 .. Len(text) : start = s + 1
    <3>1. start - 1 \in 0 .. Len(text) /\ start = (start - 1) + 1
      BY <1>1, <2>3
    <3>2. QED
      BY <3>1
  <2>9. /\ Len(LStrip(text)) = Len(text) - s
        /\ \A i \in 1 .. Len(text) - s : LStrip(text)[i] = text[s + i]
        /\ \A i \in 1 .. s : text[i] \in Blank
    <3>1. Len(text) - start + 1 = Len(text) - s /\ start - 1 = s
      BY <1>1, <2>8
    <3>2. \A i \in 1 .. Len(text) - s : start + i - 1 = s + i
      BY <1>1, <2>8
    <3>3. QED
      BY <2>5, <2>7, <3>1, <3>2
  <2>10. Len(LStrip(text)) <= Len(text)
    BY <1>1, <2>3, <2>5
  <2>11. QED
    BY <2>3, <2>5, <2>6, <2>9, <2>10
<1>4. QED
  BY <1>2, <1>3

(* The text is its start, some blanks, and its end. *)
CutInTwo(text, start, end) ==
  \E k \in 0 .. Len(text) : \E r \in k .. Len(text) :
    /\ Len(start) = k /\ \A i \in 1 .. k : start[i] = text[i]
    /\ Len(end) = Len(text) - r /\ \A i \in 1 .. Len(text) - r : end[i] = text[r + i]
    /\ \A i \in k + 1 .. r : text[i] \in Blank

(* One message more: it fits, it says something, less is left to say, and the *)
(* two are what there was to say.                                           *)
LEMMA ChunkTypes ==
  ASSUME NEW text \in Text, text # << >>, text[1] \notin Blank
  PROVE  /\ FirstChunk(text) \in Text /\ Len(FirstChunk(text)) \in 1 .. ChunkLimit
         /\ Rest(text) \in Text /\ Len(Rest(text)) < Len(text)
         /\ Rest(text) # << >> => Rest(text)[1] \notin Blank
         /\ CutInTwo(text, FirstChunk(text), Rest(text))
<1> USE ChunkAssumption
<1>1. Len(text) \in Nat /\ Len(text) >= 1
  BY DEF Text
<1>2. CASE Len(text) <= ChunkLimit
  <2>1. FirstChunk(text) = text /\ Rest(text) = << >> /\ << >> \in Text /\ Len(<< >>) = 0
    BY <1>2 DEF FirstChunk, Rest, Text
  <2>2. CutInTwo(text, text, << >>)
    BY <1>1 DEF CutInTwo
  <2>3. QED
    BY <1>1, <1>2, <2>1, <2>2
<1>3. CASE Len(text) > ChunkLimit
  <2> DEFINE window == SubSeq(text, 1, SplitAt(text))
             tail   == SubSeq(text, SplitAt(text) + 1, Len(text))
  <2>1. SplitAt(text) \in 1 .. ChunkLimit /\ SplitAt(text) \in 0 .. Len(text)
    BY <1>1, <1>3, SplitTypes
  <2>2. /\ window \in Text /\ Len(window) = SplitAt(text)
        /\ \A i \in 1 .. SplitAt(text) : window[i] = text[i]
    BY <1>1, <2>1, PartTypes
  <2>3. /\ tail \in Text /\ Len(tail) = Len(text) - SplitAt(text)
        /\ \A i \in 1 .. Len(text) - SplitAt(text) : tail[i] = text[SplitAt(text) + i]
    <3>1. PICK n \in 1 .. Len(text) : n = SplitAt(text)
      BY <1>1, <1>3, <2>1
    <3>2. n + 1 \in 1 .. Len(text) + 1 /\ Len(text) \in 0 .. Len(text)
      BY <1>1
    <3>3. /\ SubSeq(text, n + 1, Len(text)) \in Text
          /\ Len(SubSeq(text, n + 1, Len(text))) = IF n + 1 <= Len(text) THEN Len(text) - (n + 1) + 1 ELSE 0
          /\ \A i \in 1 .. Len(text) - (n + 1) + 1 : SubSeq(text, n + 1, Len(text))[i] = text[n + 1 + i - 1]
      BY <3>2, PartTypes
    <3>4. \A i \in 1 .. Len(text) - n : i \in 1 .. Len(text) - (n + 1) + 1 /\ n + 1 + i - 1 = n + i
      BY <1>1
    <3>5. QED
      BY <1>1, <3>1, <3>3, <3>4
  <2>4. FirstChunk(text) = RStrip(window) /\ Rest(text) = LStrip(tail)
    BY <1>1, <1>3 DEF FirstChunk, Rest
  <2>5. window # << >> /\ window[1] \notin Blank
    BY <2>1, <2>2
  <2> HIDE DEF window, tail
  <2>6. FirstChunk(text) \in Text /\ Len(FirstChunk(text)) \in 1 .. SplitAt(text)
    <3>1. PICK n \in Nat : n = SplitAt(text) /\ Len(window) = n
      BY <2>1, <2>2
    <3>2. QED
      BY <2>2, <2>4, <2>5, <3>1, RStripTypes
  <2>7. Rest(text) \in Text /\ Len(Rest(text)) <= Len(tail) /\ (Rest(text) # << >> => Rest(text)[1] \notin Blank)
    BY <2>3, <2>4, LStripTypes
  <2>8. Len(FirstChunk(text)) \in Int /\ Len(Rest(text)) \in Int
    BY <2>6, <2>7 DEF Text
  <2>9. CutInTwo(text, FirstChunk(text), Rest(text))
    <3>1. PICK n \in 1 .. Len(text) : n = SplitAt(text)
      BY <1>1, <1>3, <2>1
    <3>2. /\ \A i \in 1 .. Len(FirstChunk(text)) : FirstChunk(text)[i] = window[i]
          /\ \A i \in Len(FirstChunk(text)) + 1 .. n : window[i] \in Blank
      BY <2>2, <2>4, <3>1, RStripTypes
    <3>0. \E s \in 0 .. Len(tail) :
            /\ Len(LStrip(tail)) = Len(tail) - s
            /\ \A i \in 1 .. Len(tail) - s : LStrip(tail)[i] = tail[s + i]
            /\ \A i \in 1 .. s : tail[i] \in Blank
      BY <2>3, LStripTypes
    <3>3. PICK s \in 0 .. Len(tail) :
            /\ Len(Rest(text)) = Len(tail) - s
            /\ \A i \in 1 .. Len(tail) - s : Rest(text)[i] = tail[s + i]
            /\ \A i \in 1 .. s : tail[i] \in Blank
      BY <2>4, <3>0
    <3>4. PICK k \in 1 .. n : k = Len(FirstChunk(text))
      BY <2>6, <3>1
    <3>5. PICK r \in n .. Len(text) : r = n + s
      <4>1. n + s \in n .. Len(text)
        BY <1>1, <2>3, <3>1, <3>3
      <4>2. QED
        BY <4>1
    <3>6. Len(tail) = Len(text) - n /\ Len(Rest(text)) = Len(text) - r
      BY <1>1, <2>3, <3>1, <3>3, <3>5
    <3>7. \A i \in 1 .. k : FirstChunk(text)[i] = text[i]
      BY <2>2, <3>1, <3>2, <3>4
    <3>8. ASSUME NEW i \in 1 .. Len(text) - r PROVE Rest(text)[i] = text[r + i]
      <4>1. i \in 1 .. Len(tail) - s /\ s + i \in 1 .. Len(text) - n /\ n + (s + i) = r + i
        BY <1>1, <3>1, <3>3, <3>5, <3>6
      <4>2. QED
        BY <2>3, <3>1, <3>3, <4>1
    <3>9. ASSUME NEW i \in k + 1 .. r PROVE text[i] \in Blank
      <4>1. CASE i <= n
        <5>1. i \in k + 1 .. n /\ i \in 1 .. n
          BY <3>1, <3>4, <3>5, <4>1
        <5>2. QED
          BY <2>2, <3>1, <3>2, <3>4, <5>1
      <4>2. CASE i > n
        <5>1. i - n \in 1 .. s /\ i - n \in 1 .. Len(text) - n /\ n + (i - n) = i
          BY <1>1, <3>1, <3>4, <3>5, <4>2
        <5>2. QED
          BY <2>3, <3>1, <3>3, <5>1
      <4>3. QED
        BY <3>1, <3>4, <3>5, <4>1, <4>2
    <3>10. k \in 0 .. Len(text) /\ r \in k .. Len(text)
      BY <1>1, <3>1, <3>4, <3>5
    <3>11. QED
      BY <3>4, <3>6, <3>7, <3>8, <3>9, <3>10 DEF CutInTwo
  <2>10. QED
    BY <1>1, <2>1, <2>2, <2>3, <2>6, <2>7, <2>8, <2>9
<1>4. QED
  BY <1>1, <1>2, <1>3

-----------------------------------------------------------------------------
(***************************************************************************)
(* The rate limit. Next touches its counters in six ways alone.             *)
(***************************************************************************)

LEMMA LayerTypes ==
  /\ Len(Layers) \in Nat \ {0} /\ DOMAIN Layers = 1 .. Len(Layers)
  /\ \A i \in DOMAIN Layers : Layers[i] \in Layer
<1>1. Layers \in Seq(Layer) /\ Layers # << >>
  BY LayersAssumption DEF ValidLayers
<1>2. QED
  BY <1>1

LEMMA KeyTypes ==
  /\ \A i \in DOMAIN Layers, u \in Users : KeyOf(i, u) \in Keys
  /\ \A k \in Keys : Limit(k) \in Nat \ {0} /\ Window(k) \in Nat \ {0}
<1>1. \A i \in DOMAIN Layers, u \in Users : KeyOf(i, u) \in Keys
  BY DEF Keys
<1>2. ASSUME NEW k \in Keys PROVE Limit(k) \in Nat \ {0} /\ Window(k) \in Nat \ {0}
  <2>1. PICK i \in DOMAIN Layers, u \in Users : k = KeyOf(i, u)
    BY DEF Keys
  <2>2. k[1] = i
    BY <2>1 DEF KeyOf
  <2>3. Layers[i] \in Layer
    BY LayerTypes
  <2>4. QED
    BY <2>2, <2>3 DEF Limit, Window, Layer
<1>3. QED
  BY <1>1, <1>2

LEMMA FreeTypes == Free \in Message /\ Free.pc = "idle"
<1>1. (CHOOSE u \in Users : TRUE) \in Users
  BY IntakeAssumption
<1>2. 1 \in DOMAIN Layers
  BY LayerTypes
<1>3. QED
  BY <1>1, <1>2 DEF Free, Message

(* What the counters of a window have in common. *)
Paced == \A k \in Keys : passed[k] <= count[k] + waived[k] /\ passed[k] <= Limit(k) + waived[k]

LEMMA CountStep ==
  ASSUME LimiterTypeOK, NEW k \in Keys, count' = [count EXCEPT ![k] = Counted(k)], Arm(k)
  PROVE  /\ count' \in [Keys -> Nat] /\ left' \in [Keys -> Nat]
         /\ count[k] <= count'[k] /\ \A o \in Keys \ {k} : count'[o] = count[o]
         /\ Allows(k) => count'[k] = count[k] + 1 /\ count'[k] <= Limit(k)
<1>1. Limit(k) \in Nat /\ Window(k) \in Nat
  BY KeyTypes
<1>2. count[k] \in Nat
  BY DEF LimiterTypeOK
<1>3. Counted(k) \in Nat /\ count[k] <= Counted(k)
  BY <1>1, <1>2 DEF Counted
<1>4. count' \in [Keys -> Nat] /\ count'[k] = Counted(k) /\ \A o \in Keys \ {k} : count'[o] = count[o]
  BY <1>3 DEF LimiterTypeOK
<1>5. left' \in [Keys -> Nat]
  BY <1>1 DEF Arm, LimiterTypeOK
<1>6. Allows(k) => Counted(k) = count[k] + 1 /\ Counted(k) <= Limit(k)
  BY <1>1, <1>2 DEF Allows, Counted
<1>7. QED
  BY <1>3, <1>4, <1>5, <1>6

LEMMA ChargeStep ==
  ASSUME LimiterTypeOK, Paced, NEW k \in Keys, Charge(k), UNCHANGED throttle
  PROVE  LimiterTypeOK' /\ Paced'
<1>1. \A o \in Keys : Limit(o) \in Nat
  BY KeyTypes
<1>2. \A o \in Keys : count[o] \in Nat /\ passed[o] \in Nat /\ waived[o] \in Nat
  BY DEF LimiterTypeOK
<1>3. /\ count' \in [Keys -> Nat] /\ left' \in [Keys -> Nat]
      /\ count[k] <= count'[k] /\ \A o \in Keys \ {k} : count'[o] = count[o]
      /\ Allows(k) => count'[k] = count[k] + 1 /\ count'[k] <= Limit(k)
  BY CountStep DEF Charge
<1>4. passed' \in [Keys -> Nat] /\ (\A o \in Keys \ {k} : passed'[o] = passed[o]) /\ waived' = waived
  BY <1>2 DEF Charge, LimiterTypeOK
<1>5. passed'[k] = IF Allows(k) THEN passed[k] + 1 ELSE passed[k]
  BY <1>2 DEF Charge, LimiterTypeOK
<1>6. passed'[k] <= count'[k] + waived[k] /\ passed'[k] <= Limit(k) + waived[k]
  <2>1. passed[k] <= count[k] + waived[k] /\ passed[k] <= Limit(k) + waived[k] /\ count'[k] \in Nat
    BY <1>3 DEF Paced
  <2>2. CASE Allows(k)
    BY <1>1, <1>2, <1>3, <1>5, <2>1, <2>2
  <2>3. CASE ~Allows(k)
    BY <1>1, <1>2, <1>3, <1>5, <2>1, <2>3
  <2>4. QED
    BY <2>2, <2>3
<1>7. Paced'
  <2>1. \A o \in Keys : passed'[o] <= count'[o] + waived'[o] /\ passed'[o] <= Limit(o) + waived'[o]
    BY <1>3, <1>4, <1>6 DEF Paced
  <2>2. QED
    BY <2>1 DEF Paced, Keys, KeyOf, Limit
<1>8. LimiterTypeOK'
  BY <1>3, <1>4 DEF LimiterTypeOK, throttle, Keys, KeyOf
<1>9. QED
  BY <1>7, <1>8

LEMMA WaveStep ==
  ASSUME LimiterTypeOK, Paced, NEW k \in Keys, WavePast(k), UNCHANGED throttle
  PROVE  LimiterTypeOK' /\ Paced'
<1>1. \A o \in Keys : Limit(o) \in Nat
  BY KeyTypes
<1>2. \A o \in Keys : count[o] \in Nat /\ passed[o] \in Nat /\ waived[o] \in Nat
  BY DEF LimiterTypeOK
<1>3. /\ count' \in [Keys -> Nat] /\ left' \in [Keys -> Nat]
      /\ \A o \in Keys : count[o] <= count'[o]
  <2>1. CASE UNCHANGED <<count, left>>
    BY <1>2, <2>1 DEF LimiterTypeOK
  <2>2. CASE count' = [count EXCEPT ![k] = Counted(k)] /\ Arm(k)
    <3>1. /\ count' \in [Keys -> Nat] /\ left' \in [Keys -> Nat]
          /\ count[k] <= count'[k] /\ \A o \in Keys \ {k} : count'[o] = count[o]
      BY <2>2, CountStep
    <3>2. QED
      BY <1>2, <3>1
  <2>3. QED
    BY <2>1, <2>2 DEF WavePast
<1>4. /\ passed' \in [Keys -> Nat] /\ waived' \in [Keys -> Nat]
      /\ \A o \in Keys : \/ passed'[o] = passed[o] /\ waived'[o] = waived[o]
                         \/ passed'[o] = passed[o] + 1 /\ waived'[o] = waived[o] + 1
  <2>1. CASE UNCHANGED <<passed, waived>>
    BY <2>1 DEF LimiterTypeOK
  <2>2. CASE passed' = [passed EXCEPT ![k] = @ + 1] /\ waived' = [waived EXCEPT ![k] = @ + 1]
    BY <1>2, <2>2 DEF LimiterTypeOK
  <2>3. QED
    BY <2>1, <2>2 DEF WavePast
<1>5. Paced'
  <2>1. ASSUME NEW o \in Keys
        PROVE  passed'[o] <= count'[o] + waived'[o] /\ passed'[o] <= Limit(o) + waived'[o]
    <3>1. passed[o] <= count[o] + waived[o] /\ passed[o] <= Limit(o) + waived[o]
      BY DEF Paced
    <3>2. /\ count[o] <= count'[o] /\ count'[o] \in Nat /\ Limit(o) \in Nat
          /\ count[o] \in Nat /\ passed[o] \in Nat /\ waived[o] \in Nat
      BY <1>1, <1>2, <1>3
    <3>3. QED
      BY <1>4, <3>1, <3>2
  <2>2. \A o \in Keys : passed'[o] <= count'[o] + waived'[o] /\ passed'[o] <= Limit(o) + waived'[o]
    BY <2>1
  <2>3. QED
    BY <2>2 DEF Paced, Keys, KeyOf, Limit
<1>6. LimiterTypeOK'
  BY <1>3, <1>4 DEF LimiterTypeOK, throttle, Keys, KeyOf
<1>7. QED
  BY <1>5, <1>6

LEMMA ExpireStep ==
  ASSUME LimiterTypeOK, Paced, Expire
  PROVE  LimiterTypeOK' /\ Paced'
<1>1. \A n \in Nat : Earlier(n) \in Nat
  BY DEF Earlier
<1>2. left' \in [Keys -> Nat] /\ count' \in [Keys -> Nat]
  BY <1>1 DEF Expire, LimiterTypeOK
<1>3. passed' \in [Keys -> Nat] /\ waived' \in [Keys -> Nat]
  BY DEF Expire, LimiterTypeOK
<1>4. claim' \in [Users -> Nat]
  BY <1>1 DEF Expire, LimiterTypeOK
<1>5. heard' \in [Users -> {"nothing", "notice", "lost"}]
  BY DEF Expire, LimiterTypeOK
<1>6. \A k \in Keys : passed'[k] <= count'[k] + waived'[k] /\ passed'[k] <= Limit(k) + waived'[k]
  <2>1. TAKE k \in Keys
  <2>2. Limit(k) \in Nat /\ passed[k] <= count[k] + waived[k] /\ passed[k] <= Limit(k) + waived[k]
    BY KeyTypes DEF Paced
  <2>3. \/ count'[k] = count[k] /\ passed'[k] = passed[k] /\ waived'[k] = waived[k]
        \/ count'[k] = 0 /\ passed'[k] = 0 /\ waived'[k] = 0
    BY DEF Expire, LimiterTypeOK
  <2>4. QED
    BY <2>2, <2>3
<1>7. QED
  BY <1>2, <1>3, <1>4, <1>5, <1>6 DEF LimiterTypeOK, Paced, Keys, KeyOf, Limit

LEMMA ThrottleStep ==
  ASSUME LimiterTypeOK, Paced, UNCHANGED gate,
         claim' \in [Users -> Nat], heard' \in [Users -> {"nothing", "notice", "lost"}]
  PROVE  LimiterTypeOK' /\ Paced'
BY DEF gate, LimiterTypeOK, Paced, Keys, KeyOf, Limit

-----------------------------------------------------------------------------
(***************************************************************************)
(* Types, and who is at work: while a keyboard or an instant job is followed *)
(* no message is handled, and never both of them are followed.              *)
(***************************************************************************)

Alone   == Following => \A m \in Slots : At(m, "idle")
Vacant  == /\ picker.screen = "none" => picker = NoPicker /\ \A t \in Taps : tap[t] = "free"
           /\ post.pc = "none" => post = NoPost
           /\ picker.screen = "none" \/ post.pc = "none"
(* What the handlers here hold is among the jobs of the cap.                 *)
Running == /\ Held <= active
           /\ post.pc \in {"placed", "created"} => post.job = "none"
Legible == /\ post.stored => post.text \in Texts
           /\ post.rest # << >> => post.rest[1] \notin Blank

Door == TypeOK /\ Paced /\ Alone /\ Vacant /\ Running /\ Legible

LEMMA FaultTypes ==
  ASSUME faults \in Nat, Fine \/ Fault
  PROVE  faults' \in Nat
BY DEF Fine, Fault

LEMMA CreatedTypes ==
  /\ IsFiniteSet(Created) /\ Cardinality(Created) \in Nat
  /\ Held = Cardinality(Created) + (IF post.pc = "created" \/ post.job = "running" THEN 1 ELSE 0)
<1>1. Created \in SUBSET Taps
  BY DEF Created
<1>2. IsFiniteSet(Created)
  BY <1>1, FS_Subset, IntakeAssumption
<1>3. QED
  BY <1>2, FS_CardinalityType DEF Held

(* Without a tap between its job and the queue it is the post alone that holds. *)
LEMMA PostHolds ==
  ASSUME \A t \in Taps : tap[t] # "created"
  PROVE  Held = IF post.pc = "created" \/ post.job = "running" THEN 1 ELSE 0
<1>1. Created = {}
  BY DEF Created
<1>2. Cardinality(Created) = 0
  BY <1>1, FS_EmptySet
<1>3. QED
  BY <1>2 DEF Held

LEMMA PostHoldsNext ==
  ASSUME \A t \in Taps : tap'[t] # "created"
  PROVE  Held' = IF post'.pc = "created" \/ post'.job = "running" THEN 1 ELSE 0
<1>1. Created' = {}
  BY DEF Created
<1>2. Cardinality(Created)' = 0
  BY <1>1, FS_EmptySet
<1>3. QED
  BY <1>2 DEF Held

LEMMA RunningStays ==
  ASSUME Running, UNCHANGED <<tap, post, active>>
  PROVE  Running'
BY DEF Running, Held, Created

LEMMA InitDoor == Init => Door
<1> SUFFICES ASSUME Init PROVE Door
  OBVIOUS
<1>1. LimiterTypeOK /\ Paced
  <2>1. \A k \in Keys : Limit(k) \in Nat
    BY KeyTypes
  <2>2. \A k \in Keys : count[k] = 0 /\ passed[k] = 0 /\ waived[k] = 0
    BY DEF Init, LimiterInit
  <2>3. QED
    BY <2>1, <2>2 DEF Init, LimiterInit, LimiterTypeOK, Paced
<1>2. picker \in Picker /\ post \in Post
  BY DEF Init, NoPicker, NoPost, Picker, Post, Text
<1>3. active \in 0 .. Cap
  BY IntakeAssumption DEF Init
<1>4. msg \in [Slots -> Message]
  BY FreeTypes DEF Init
<1>5. tap \in [Taps -> Tap] /\ row \in BOOLEAN /\ faults \in Nat
  BY DEF Init, Tap
<1>6. TypeOK
  BY <1>1, <1>2, <1>3, <1>4, <1>5 DEF TypeOK
<1>7. Alone /\ Vacant /\ Legible
  BY DEF Init, Alone, Vacant, Legible, Following, NoPicker, NoPost
<1>8. Running
  <2>1. (\A t \in Taps : tap[t] = "free") /\ post = NoPost /\ active = 0
    BY DEF Init
  <2>2. Held = 0
    BY <2>1, PostHolds DEF NoPost
  <2>3. QED
    BY <2>1, <2>2 DEF Running, NoPost
<1>9. QED
  BY <1>1, <1>6, <1>7, <1>8 DEF Door

(* What any step of a message handler leaves in place. *)
LEMMA MessageStep ==
  ASSUME Door, NEW m \in Slots, NEW r \in Message, msg' = [msg EXCEPT ![m] = r],
         ~Following, UNCHANGED <<following, active>>,
         row' \in BOOLEAN, faults' \in Nat, LimiterTypeOK', Paced'
  PROVE  Door'
<1>1. msg' \in [Slots -> Message]
  BY DEF Door, TypeOK
<1>2. UNCHANGED <<picker, tap, post, active>>
  BY DEF following
<1>3. TypeOK'
  BY <1>1, <1>2 DEF Door, TypeOK
<1>4. Alone' /\ Vacant' /\ Legible'
  BY <1>2 DEF Door, Alone, Vacant, Legible, Following
<1>5. Running'
  BY <1>2, RunningStays DEF Door
<1>6. QED
  BY <1>3, <1>4, <1>5 DEF Door

Weight(pc) == IF pc = "created" THEN 1 ELSE 0

LEMMA WeightTypes ==
  ASSUME NEW pc
  PROVE  Weight(pc) \in Nat /\ (pc = "created" => Weight(pc) = 1) /\ (pc # "created" => Weight(pc) = 0)
BY DEF Weight

(* What any step of a tap's handler leaves in place. *)
LEMMA TapStep ==
  ASSUME Door, NEW t \in Taps, NEW pc \in Tap, TapTo(t, pc),
         picker.screen # "none", picker' \in Picker, picker'.screen # "none",
         UNCHANGED Elsewhere, active' \in 0 .. Cap, faults' \in Nat,
         active + Weight(pc) <= active' + Weight(tap[t])
  PROVE  Door'
<1>1. tap' \in [Taps -> Tap]
  BY DEF Door, TypeOK, TapTo
<1>2. UNCHANGED <<limiter, msg, row, post>>
  BY DEF Elsewhere
<1>3. LimiterTypeOK' /\ Paced'
  BY <1>2 DEF limiter, gate, throttle, Door, TypeOK, LimiterTypeOK, Paced, Keys, KeyOf, Limit
<1>4. TypeOK'
  BY <1>1, <1>2, <1>3 DEF Door, TypeOK
<1>5. post.pc = "none" /\ post = NoPost
  BY DEF Door, Vacant
<1>6. Alone' /\ Vacant'
  BY <1>2, <1>5 DEF Door, Alone, Vacant, Following, At
<1>7. Legible'
  BY <1>2, <1>5 DEF Legible, NoPost
<1>8. Running'
  <2>1. PICK n \in Nat : n = Cardinality(Created) /\ n <= active
    <3>1. Held = Cardinality(Created) + 0
      BY <1>5, CreatedTypes DEF NoPost
    <3>2. QED
      BY <3>1, CreatedTypes DEF Door, Running
  <2>2. tap'[t] = pc /\ \A o \in Taps \ {t} : tap'[o] = tap[o]
    BY DEF Door, TypeOK, TapTo
  <2>3. Created' = IF pc = "created" THEN Created \cup {t} ELSE Created \ {t}
    BY <2>2 DEF Created
  <2>4. t \in Created <=> tap[t] = "created"
    BY DEF Created
  <2>5. active \in Nat /\ active' \in Nat
    BY IntakeAssumption DEF Door, TypeOK
  <2>6. Cardinality(Created)' <= active'
    <3>1. CASE pc = "created"
      <4>1. Cardinality(Created)' = IF tap[t] = "created" THEN n ELSE n + 1
        BY <2>1, <2>3, <2>4, <3>1, CreatedTypes, FS_AddElement
      <4>2. QED
        BY <2>1, <2>5, <3>1, <4>1, WeightTypes
    <3>2. CASE pc # "created"
      <4>1. Cardinality(Created)' = IF tap[t] = "created" THEN n - 1 ELSE n
        BY <2>1, <2>3, <2>4, <3>2, CreatedTypes, FS_RemoveElement
      <4>2. QED
        BY <2>1, <2>5, <3>2, <4>1, WeightTypes
    <3>3. QED
      BY <3>1, <3>2
  <2>7. Cardinality(Created)' \in Nat
    <3>1. Created' \in SUBSET Taps
      BY DEF Created
    <3>2. QED
      BY <3>1, FS_Subset, FS_CardinalityType, IntakeAssumption
  <2>8. Held' = Cardinality(Created)' + 0 /\ post'.pc = "none"
    BY <1>2, <1>5 DEF Held, NoPost
  <2>9. QED
    BY <2>6, <2>7, <2>8 DEF Running
<1>9. QED
  BY <1>3, <1>4, <1>6, <1>7, <1>8 DEF Door

(* What the cap owes an instant job. *)
Owed == /\ post.pc = "created" \/ post.job = "running" => active >= 1
        /\ post.pc \in {"placed", "created"} => post.job = "none"

LEMMA JobIsOwed == Door => Owed
<1> SUFFICES ASSUME Door PROVE Owed
  OBVIOUS
<1>1. active \in Nat
  BY IntakeAssumption DEF Door, TypeOK
<1>2. QED
  BY <1>1, CreatedTypes DEF Door, Running, Owed

(* What any step of an instant job leaves in place. *)
LEMMA InstantStep ==
  ASSUME Door, post.pc # "none", post' \in Post, post'.pc # "none",
         UNCHANGED Rests, active' \in 0 .. Cap, Owed', Legible', faults' \in Nat
  PROVE  Door'
<1>1. UNCHANGED <<limiter, msg, row, picker, tap>>
  BY DEF Rests
<1>2. LimiterTypeOK' /\ Paced'
  BY <1>1 DEF limiter, gate, throttle, Door, TypeOK, LimiterTypeOK, Paced, Keys, KeyOf, Limit
<1>3. TypeOK'
  BY <1>1, <1>2 DEF Door, TypeOK
<1>4. Alone' /\ Vacant'
  BY <1>1 DEF Door, Alone, Vacant, Following, At
<1>5. Running'
  <2>1. \A t \in Taps : tap'[t] # "created"
    BY <1>1 DEF Door, Vacant
  <2>2. active' \in Nat
    BY IntakeAssumption
  <2>3. QED
    BY <2>1, <2>2, PostHoldsNext DEF Owed, Running
<1>6. QED
  BY <1>2, <1>3, <1>4, <1>5 DEF Door

(* What a step that leaves the message handlers, the keyboard and the job alone keeps. *)
LEMMA BystanderStep ==
  ASSUME Door, UNCHANGED <<msg, following, faults>>, row' \in BOOLEAN,
         active' \in 0 .. Cap, Running', LimiterTypeOK', Paced'
  PROVE  Door'
<1>1. UNCHANGED <<msg, picker, tap, post, faults>>
  BY DEF following
<1>2. TypeOK'
  BY <1>1 DEF Door, TypeOK
<1>3. Alone' /\ Vacant' /\ Legible'
  BY <1>1 DEF Door, Alone, Vacant, Legible, Following, At
<1>4. QED
  BY <1>2, <1>3 DEF Door

LEMMA LimiterStays ==
  ASSUME LimiterTypeOK, Paced, UNCHANGED limiter
  PROVE  LimiterTypeOK' /\ Paced'
BY DEF limiter, gate, throttle, LimiterTypeOK, Paced, Keys, KeyOf, Limit

LEMMA HandleLinkDoor ==
  ASSUME Door, NEW m \in Slots, HandleLink(m)
  PROVE  Door'
<1>1. TypeOK /\ LimiterTypeOK /\ Paced /\ msg[m] \in Message /\ row \in BOOLEAN /\ faults \in Nat
  BY DEF Door, TypeOK
<1>2. ASSUME ~At(m, "idle") PROVE ~Following
  BY <1>2 DEF Door, Alone
<1>3. KeyOf(msg[m].layer, msg[m].user) \in Keys /\ msg[m].user \in Users
  BY <1>1, KeyTypes DEF Message
<1>4. CASE \E u \in Users : Receive(m, u)
  <2>1. PICK u \in Users : Receive(m, u)
    BY <1>4
  <2> DEFINE r == [[msg[m] EXCEPT !.pc = "gate"] EXCEPT !.user = u]
  <2>2. r \in Message
    BY <1>1 DEF Message
  <2>3. msg' = [msg EXCEPT ![m] = r]
    BY <1>1, <2>1 DEF Receive, TypeOK
  <2>4. LimiterTypeOK' /\ Paced'
    BY <1>1, <2>1, LimiterStays DEF Receive
  <2>5. ~Following /\ UNCHANGED <<following, active>> /\ row' \in BOOLEAN /\ faults' \in Nat
    BY <1>1, <2>1 DEF Receive
  <2>6. QED
    BY <2>2, <2>3, <2>4, <2>5, MessageStep
<1>5. CASE Check(m)
  <2> DEFINE k == KeyOf(msg[m].layer, msg[m].user)
             onward == IF msg[m].layer < Len(Layers)
                         THEN [msg[m] EXCEPT !.layer = msg[m].layer + 1]
                         ELSE [[msg[m] EXCEPT !.layer = 1] EXCEPT !.pc = "reading"]
             refused == [msg[m] EXCEPT !.pc = "refused"]
  <2>1. onward \in Message
    <3>1. CASE msg[m].layer < Len(Layers)
      <4>1. msg[m].layer + 1 \in DOMAIN Layers
        BY <1>1, <3>1, LayerTypes DEF Message
      <4>2. QED
        BY <1>1, <3>1, <4>1 DEF Message
    <3>2. CASE ~(msg[m].layer < Len(Layers))
      <4>1. 1 \in DOMAIN Layers
        BY LayerTypes
      <4>2. QED
        BY <1>1, <3>2, <4>1 DEF Message
    <3>3. QED
      BY <3>1, <3>2
  <2>2. refused \in Message
    BY <1>1 DEF Message
  <2>3. msg' = [msg EXCEPT ![m] = onward] \/ msg' = [msg EXCEPT ![m] = refused]
    BY <1>1, <1>5 DEF Check, Goes, TypeOK
  <2> HIDE DEF onward, refused
  <2>4. PICK r \in Message : msg' = [msg EXCEPT ![m] = r]
    BY <2>1, <2>2, <2>3
  <2>5. LimiterTypeOK' /\ Paced'
    <3>1. CASE Charge(k)
      BY <1>1, <1>3, <1>5, <3>1, ChargeStep DEF Check
    <3>2. CASE WavePast(k)
      BY <1>1, <1>3, <1>5, <3>2, WaveStep DEF Check
    <3>3. QED
      BY <1>5, <3>1, <3>2 DEF Check
  <2>6. faults' \in Nat
    BY <1>1, <1>5, FaultTypes DEF Check
  <2>7. ~Following /\ UNCHANGED <<following, active>> /\ row' \in BOOLEAN
    BY <1>1, <1>2, <1>5 DEF Check, At
  <2>8. QED
    BY <2>4, <2>5, <2>6, <2>7, MessageStep
<1>6. CASE Notify(m)
  <2> DEFINE telling == [msg[m] EXCEPT !.pc = "telling"]
             u == msg[m].user
  <2>1. telling \in Message
    BY <1>1 DEF Message
  <2>2. msg' = [msg EXCEPT ![m] = telling] \/ msg' = [msg EXCEPT ![m] = Free]
    BY <1>1, <1>6 DEF Notify, Goes, Ends, TypeOK
  <2> HIDE DEF telling
  <2>3. PICK r \in Message : msg' = [msg EXCEPT ![m] = r]
    BY <2>1, <2>2, FreeTypes
  <2>4. UNCHANGED gate
    BY <1>6 DEF Notify
  <2>5. LimiterTypeOK' /\ Paced'
    <3>1. CASE Claim(u)
      <4>1. claim' \in [Users -> Nat] /\ heard' \in [Users -> {"nothing", "notice", "lost"}]
        BY <1>1, <3>1, NoticeAssumption DEF Claim, LimiterTypeOK
      <4>2. QED
        BY <1>1, <2>4, <4>1, ThrottleStep
    <3>2. CASE UNCHANGED throttle
      BY <1>1, <2>4, <3>2, LimiterStays DEF limiter
    <3>3. QED
      BY <1>6, <3>1, <3>2 DEF Notify
  <2>6. faults' \in Nat
    BY <1>1, <1>6, FaultTypes DEF Notify
  <2>7. ~Following /\ UNCHANGED <<following, active>> /\ row' \in BOOLEAN
    BY <1>1, <1>2, <1>6 DEF Notify, At
  <2>8. QED
    BY <2>3, <2>5, <2>6, <2>7, MessageStep
<1>7. CASE Tell(m)
  <2>1. msg' = [msg EXCEPT ![m] = Free] /\ Free \in Message
    BY <1>7, FreeTypes DEF Tell, Ends
  <2>2. claim' \in [Users -> Nat]
    BY <1>1, <1>7 DEF Tell, LimiterTypeOK
  <2>3. heard' \in [Users -> {"nothing", "notice", "lost"}]
    BY <1>1, <1>3, <1>7 DEF Tell, LimiterTypeOK
  <2>4. LimiterTypeOK' /\ Paced'
    BY <1>1, <1>7, <2>2, <2>3, ThrottleStep DEF Tell
  <2>5. faults' \in Nat
    BY <1>1, <1>7, FaultTypes DEF Tell
  <2>6. ~Following /\ UNCHANGED <<following, active>> /\ row' \in BOOLEAN
    BY <1>1, <1>2, <1>7 DEF Tell, At
  <2>7. QED
    BY <2>1, <2>4, <2>5, <2>6, MessageStep
<1>8. CASE ReadCache(m)
  <2> DEFINE known == [[msg[m] EXCEPT !.pc = "analyzed"] EXCEPT !.described = DescribedByRow]
             asked == [msg[m] EXCEPT !.pc = "fetching"]
  <2>1. known \in Message /\ asked \in Message
    BY <1>1 DEF Message, DescribedByRow
  <2>2. msg' = [msg EXCEPT ![m] = known] \/ msg' = [msg EXCEPT ![m] = asked]
    BY <1>1, <1>8 DEF ReadCache, Goes, TypeOK
  <2> HIDE DEF known, asked
  <2>3. PICK r \in Message : msg' = [msg EXCEPT ![m] = r]
    BY <2>1, <2>2
  <2>4. LimiterTypeOK' /\ Paced'
    BY <1>1, <1>8, LimiterStays DEF ReadCache
  <2>5. faults' \in Nat
    BY <1>1, <1>8, FaultTypes DEF ReadCache
  <2>6. ~Following /\ UNCHANGED <<following, active>> /\ row' \in BOOLEAN
    BY <1>1, <1>2, <1>8 DEF ReadCache, At
  <2>7. QED
    BY <2>3, <2>4, <2>5, <2>6, MessageStep
<1>9. CASE Fetch(m)
  <2>1. PICK described \in BOOLEAN :
          msg' = [msg EXCEPT ![m] = [[msg[m] EXCEPT !.pc = "analyzed"] EXCEPT !.described = described]]
    BY <1>1, <1>9 DEF Fetch, TypeOK
  <2>2. [[msg[m] EXCEPT !.pc = "analyzed"] EXCEPT !.described = described] \in Message
    BY <1>1 DEF Message
  <2>3. LimiterTypeOK' /\ Paced'
    BY <1>1, <1>9, LimiterStays DEF Fetch
  <2>4. faults' \in Nat
    BY <1>1, <1>9, FaultTypes DEF Fetch, Upsert
  <2>5. row' \in BOOLEAN
    BY <1>1, <1>9 DEF Fetch, Upsert
  <2>6. ~Following /\ UNCHANGED <<following, active>>
    BY <1>2, <1>9 DEF Fetch, At
  <2>7. QED
    BY <2>1, <2>2, <2>3, <2>4, <2>5, <2>6, MessageStep
<1>10. CASE LeaveIt(m)
  <2>1. msg' = [msg EXCEPT ![m] = Free] /\ Free \in Message
    BY <1>10, FreeTypes DEF LeaveIt, Ends
  <2>2. LimiterTypeOK' /\ Paced'
    BY <1>1, <1>10, LimiterStays DEF LeaveIt
  <2>3. ~Following /\ UNCHANGED <<following, active>> /\ row' \in BOOLEAN /\ faults' \in Nat
    BY <1>1, <1>2, <1>10 DEF LeaveIt, At
  <2>4. QED
    BY <2>1, <2>2, <2>3, MessageStep
<1>11. ASSUME At(m, "analyzed"), Quiet(m), Ends(m)
       PROVE  /\ msg' \in [Slots -> Message] /\ \A o \in Slots : At(o, "idle")'
              /\ picker = NoPicker /\ post = NoPost /\ \A t \in Taps : tap[t] = "free"
  <2>1. msg' \in [Slots -> Message]
    BY <1>1, <1>11, FreeTypes DEF Ends, TypeOK
  <2>2. \A o \in Slots : msg'[o].pc = "idle"
    BY <1>1, <1>11, FreeTypes DEF Ends, Quiet, At, TypeOK
  <2>3. ~Following
    BY <1>2, <1>11 DEF At
  <2>4. QED
    BY <2>1, <2>2, <2>3 DEF At, Following, Door, Vacant
<1>12. CASE ShowPicker(m)
  <2>1. /\ msg' \in [Slots -> Message] /\ \A o \in Slots : At(o, "idle")'
        /\ post = NoPost /\ UNCHANGED <<row, tap, post, faults>> /\ active' \in 0 .. Cap
    BY <1>11, <1>12 DEF ShowPicker
  <2>2. picker' \in Picker /\ picker'.screen = "choose"
    BY <1>12 DEF ShowPicker, NoPicker, Picker
  <2>3. LimiterTypeOK' /\ Paced'
    BY <1>1, <1>12, LimiterStays DEF ShowPicker
  <2>4. TypeOK'
    BY <1>1, <2>1, <2>2, <2>3 DEF TypeOK
  <2>5. Alone' /\ Vacant' /\ Legible'
    BY <2>1, <2>2 DEF Alone, Vacant, Legible, NoPost
  <2>6. Running'
    <3>1. (\A t \in Taps : tap'[t] # "created") /\ post'.pc = "none" /\ post'.job = "none" /\ active' \in Nat
      BY <1>11, <1>12, <2>1, IntakeAssumption DEF ShowPicker, NoPost
    <3>2. QED
      BY <3>1, PostHoldsNext DEF Running
  <2>7. QED
    BY <2>3, <2>4, <2>5, <2>6 DEF Door
<1>13. CASE PlaceInstant(m)
  <2>1. /\ msg' \in [Slots -> Message] /\ \A o \in Slots : At(o, "idle")'
        /\ picker = NoPicker /\ (\A t \in Taps : tap[t] = "free")
        /\ UNCHANGED <<row, tap, picker, faults>> /\ active' \in 0 .. Cap
    BY <1>11, <1>13 DEF PlaceInstant
  <2>2. msg[m].described \in BOOLEAN
    BY <1>1 DEF Message
  <2>3. post' \in Post /\ post'.pc = "placed" /\ post'.job = "none" /\ post'.stored = FALSE /\ post'.rest = << >>
    <3>1. NoPost \in Post /\ NoPost.job = "none" /\ NoPost.stored = FALSE /\ NoPost.rest = << >>
      BY DEF NoPost, Post, Text
    <3>2. post' = [[NoPost EXCEPT !.pc = "placed"] EXCEPT !.described = msg[m].described]
      BY <1>13 DEF PlaceInstant
    <3>3. PICK described \in BOOLEAN : post' = [[NoPost EXCEPT !.pc = "placed"] EXCEPT !.described = described]
      BY <2>2, <3>2
    <3>4. QED
      BY <3>1, <3>3 DEF Post
  <2>4. LimiterTypeOK' /\ Paced'
    BY <1>1, <1>13, LimiterStays DEF PlaceInstant
  <2>5. TypeOK'
    BY <1>1, <2>1, <2>3, <2>4 DEF TypeOK
  <2>6. Alone' /\ Vacant' /\ Legible'
    BY <2>1, <2>3 DEF Alone, Vacant, Legible, NoPicker
  <2>7. Running'
    <3>1. (\A t \in Taps : tap'[t] # "created") /\ active' \in Nat
      BY <2>1, IntakeAssumption
    <3>2. QED
      BY <2>3, <3>1, PostHoldsNext DEF Running
  <2>8. QED
    BY <2>4, <2>5, <2>6, <2>7 DEF Door
<1>14. QED
  BY <1>4, <1>5, <1>6, <1>7, <1>8, <1>9, <1>10, <1>12, <1>13 DEF HandleLink

LEMMA ShowsTypes ==
  ASSUME Door, NEW screen \in {"started", "refused", "expired", "cancelled"}, Shows(screen), picker.screen # "none"
  PROVE  /\ picker' \in Picker /\ picker'.screen # "none" /\ faults' \in Nat
         /\ picker'.screen = screen \/ picker'.screen = picker.screen
         /\ picker'.jobs = picker.jobs /\ picker'.state = picker.state
         /\ picker'.overlap = picker.overlap /\ picker'.kept = picker.kept /\ picker'.unheard = picker.unheard
<1>1. picker \in Picker /\ faults \in Nat
  BY DEF Door, TypeOK
<1>2. faults' \in Nat
  BY <1>1, FaultTypes DEF Shows
<1>3. CASE picker' = picker
  BY <1>1, <1>2, <1>3
<1>4. CASE picker' = [picker EXCEPT !.screen = screen]
  BY <1>1, <1>2, <1>4 DEF Picker
<1>5. QED
  BY <1>3, <1>4 DEF Shows

LEMMA HandleTapDoor ==
  ASSUME Door, NEW t \in Taps, HandleTap(t)
  PROVE  Door'
<1>1. TypeOK /\ picker \in Picker /\ faults \in Nat /\ active \in 0 .. Cap /\ Cap \in Nat
  BY IntakeAssumption DEF Door, TypeOK
<1>2. ASSUME ~TapAt(t, "free") PROVE picker.screen # "none"
  BY <1>2 DEF Door, Vacant, TapAt
<1>3. ASSUME NEW pc \in Tap \ {"created"}, TapTo(t, pc), picker.screen # "none", picker' \in Picker,
             picker'.screen # "none", UNCHANGED <<Elsewhere, active>>, faults' \in Nat
      PROVE  Door'
  <2>1. active + Weight(pc) <= active' + Weight(tap[t]) /\ active' \in 0 .. Cap
    BY <1>1, <1>3 DEF Weight
  <2>2. QED
    BY <1>3, <2>1, TapStep
<1>4. CASE Press(t)
  <2>1. TapTo(t, "pressed") /\ "pressed" \in Tap \ {"created"} /\ UNCHANGED <<Elsewhere, picker, active, faults>>
    BY <1>4 DEF Press, Tap
  <2>2. picker.screen # "none"
    BY <1>4 DEF Press
  <2>3. QED
    BY <1>1, <1>3, <2>1, <2>2
<1>5. CASE CancelPicker(t)
  <2>1. TapTo(t, "over") /\ "over" \in Tap \ {"created"} /\ UNCHANGED <<Elsewhere, active>> /\ Shows("cancelled")
    BY <1>5 DEF CancelPicker, Tap
  <2>2. picker.screen # "none"
    BY <1>2, <1>5 DEF CancelPicker, TapAt
  <2>3. QED
    BY <1>3, <2>1, <2>2, ShowsTypes
<1>6. CASE LoadState(t)
  <2>1. UNCHANGED <<Elsewhere, active>> /\ {"loaded", "over"} \subseteq Tap \ {"created"}
    BY <1>6 DEF LoadState, Tap
  <2>2. picker.screen # "none"
    BY <1>2, <1>6 DEF LoadState, TapAt
  <2>3. CASE Fine /\ TapTo(t, "loaded") /\ picker' = [picker EXCEPT !.overlap = @ \/ \E o \in Taps : Busy(o)]
    <3>1. PICK overlap \in BOOLEAN : picker' = [picker EXCEPT !.overlap = overlap]
      BY <2>3
    <3>2. picker' \in Picker /\ picker'.screen # "none"
      BY <1>1, <2>2, <3>1 DEF Picker
    <3>3. faults' \in Nat
      BY <1>1, <2>3, FaultTypes
    <3>4. QED
      BY <1>3, <2>1, <2>2, <2>3, <3>2, <3>3
  <2>4. CASE Fault /\ TapTo(t, "over") /\ UNCHANGED picker
    BY <1>1, <1>3, <2>1, <2>2, <2>4, FaultTypes
  <2>5. CASE TapTo(t, "over") /\ Shows("expired")
    BY <1>3, <2>1, <2>2, <2>5, ShowsTypes
  <2>6. QED
    BY <1>6, <2>3, <2>4, <2>5 DEF LoadState
<1>7. CASE CreateJob(t)
  <2>1. UNCHANGED Elsewhere /\ {"created", "over"} \subseteq Tap
    BY <1>7 DEF CreateJob, Tap
  <2>2. picker.screen # "none"
    BY <1>2, <1>7 DEF CreateJob, TapAt
  <2>3. CASE /\ active < Cap /\ active' = active + 1 /\ TapTo(t, "created") /\ Fine /\ UNCHANGED picker
    <3>1. /\ active' \in 0 .. Cap /\ faults' \in Nat
          /\ active + Weight("created") <= active' + Weight(tap[t])
      BY <1>1, <2>3, FaultTypes DEF Weight
    <3>2. QED
      BY <1>1, <2>1, <2>2, <2>3, <3>1, TapStep
  <2>4. CASE UNCHANGED active /\ TapTo(t, "over") /\ Shows("refused")
    BY <1>3, <2>1, <2>2, <2>4, ShowsTypes
  <2>5. QED
    BY <1>7, <2>3, <2>4 DEF CreateJob
<1>8. CASE Publish(t)
  <2>1. tap[t] = "created" /\ UNCHANGED Elsewhere /\ picker.screen # "none"
    BY <1>2, <1>8 DEF Publish, TapAt
  <2>2. PICK outcome \in Outcomes :
          /\ Enqueue(outcome)
          /\ TapTo(t, IF outcome = "taken" THEN "queued" ELSE "over")
          /\ picker' = [picker EXCEPT !.jobs = IF Runs(outcome) THEN @ + 1 ELSE @,
                                      !.screen = IF outcome = "taken" THEN @ ELSE "refused",
                                      !.unheard = @ \/ outcome = "unheard"]
    BY <1>8 DEF Publish
  <2>3. faults' \in Nat
    BY <1>1, <2>2, FaultTypes DEF Enqueue
  <2>4. active >= 1
    <3>1. Created # {} /\ Cardinality(Created) # 0
      BY <2>1, CreatedTypes, FS_EmptySet DEF Created
    <3>2. Held >= 1 /\ Held \in Nat
      BY <3>1, CreatedTypes
    <3>3. QED
      BY <1>1, <3>2 DEF Door, Running
  <2>5. active' \in 0 .. Cap /\ active + 0 <= active' + 1
    BY <1>1, <2>2, <2>4 DEF Enqueue
  <2>6. ASSUME NEW pc \in {"queued", "over"}
        PROVE  pc \in Tap /\ active + Weight(pc) <= active' + Weight(tap[t])
    <3>1. Weight(pc) = 0 /\ Weight(tap[t]) = 1
      BY <2>1, WeightTypes
    <3>2. QED
      BY <2>5, <3>1 DEF Tap
  <2>7. picker' \in Picker /\ picker'.screen # "none"
    <3>1. picker.jobs \in Nat /\ picker.jobs + 1 \in Nat /\ picker.unheard \in BOOLEAN
      BY <1>1 DEF Picker
    <3>2. picker' = [[[picker EXCEPT !.jobs = IF Runs(outcome) THEN picker.jobs + 1 ELSE picker.jobs]
                              EXCEPT !.screen = IF outcome = "taken" THEN picker.screen ELSE "refused"]
                              EXCEPT !.unheard = (picker.unheard \/ outcome = "unheard")]
      BY <2>2
    <3>3. (IF Runs(outcome) THEN picker.jobs + 1 ELSE picker.jobs) \in Nat
      BY <3>1
    <3>4. PICK jobs \in Nat, screen \in {picker.screen, "refused"}, unheard \in BOOLEAN :
            picker' = [[[picker EXCEPT !.jobs = jobs] EXCEPT !.screen = screen] EXCEPT !.unheard = unheard]
      BY <3>2, <3>3
    <3>5. screen \in {"choose", "started", "refused", "expired", "cancelled"}
      BY <1>1, <2>1 DEF Picker
    <3>6. QED
      BY <1>1, <3>4, <3>5 DEF Picker
  <2>8. PICK pc \in {"queued", "over"} : TapTo(t, pc)
    BY <2>2
  <2>9. QED
    BY <2>1, <2>3, <2>5, <2>6, <2>7, <2>8, TapStep
<1>9. CASE DeleteState(t)
  <2>1. UNCHANGED <<Elsewhere, active>> /\ faults' \in Nat
    BY <1>1, <1>9, FaultTypes DEF DeleteState
  <2>2. picker.screen # "none"
    BY <1>2, <1>9 DEF DeleteState, TapAt
  <2>3. picker' \in Picker /\ picker'.screen # "none"
    <3>1. CASE picker' = [picker EXCEPT !.state = FALSE]
      BY <1>1, <2>2, <3>1 DEF Picker
    <3>2. CASE picker' = [picker EXCEPT !.kept = @ \/ picker.state]
      <4>1. PICK kept \in BOOLEAN : picker' = [picker EXCEPT !.kept = kept]
        BY <3>2
      <4>2. QED
        BY <1>1, <2>2, <4>1 DEF Picker
    <3>3. QED
      BY <1>9, <3>1, <3>2 DEF DeleteState
  <2>4. PICK pc \in Tap \ {"created"} : TapTo(t, pc)
    BY <1>9 DEF DeleteState, Tap
  <2>5. QED
    BY <1>3, <2>1, <2>2, <2>3, <2>4
<1>10. CASE ShowStarted(t)
  <2>1. UNCHANGED <<Elsewhere, active>> /\ TapTo(t, "over") /\ "over" \in Tap \ {"created"} /\ Shows("started")
    BY <1>10 DEF ShowStarted, Tap
  <2>2. picker.screen # "none"
    BY <1>2, <1>10 DEF ShowStarted, TapAt
  <2>3. QED
    BY <1>3, <2>1, <2>2, ShowsTypes
<1>11. QED
  BY <1>4, <1>5, <1>6, <1>7, <1>8, <1>9, <1>10 DEF HandleTap

LEMMA PostStepDoor ==
  ASSUME Door, PostStep
  PROVE  Door'
<1>1. TypeOK /\ post \in Post /\ faults \in Nat /\ active \in 0 .. Cap /\ Cap \in Nat /\ Texts \subseteq Text
  BY IntakeAssumption DEF Door, TypeOK
<1>2. Owed /\ Legible
  BY JobIsOwed DEF Door
<1>3. ASSUME post.pc = "none" PROVE post.job = "none" /\ post.button = FALSE /\ post.reader = "none"
  BY <1>3 DEF Door, Vacant, NoPost
<1>4. CASE CreateInstant
  <2>1. UNCHANGED Rests /\ faults' \in Nat /\ post.pc = "placed" /\ post.job = "none"
    BY <1>1, <1>2, <1>4, FaultTypes DEF CreateInstant, Owed
  <2>2. CASE active < Cap /\ active' = active + 1 /\ post' = [post EXCEPT !.pc = "created"]
    <3>1. post' \in Post /\ post'.pc = "created" /\ post'.job = "none"
      BY <1>1, <2>1, <2>2 DEF Post
    <3>2. active' \in 0 .. Cap /\ active' >= 1
      BY <1>1, <2>2
    <3>3. Owed' /\ Legible'
      BY <1>1, <1>2, <2>2, <3>1, <3>2 DEF Owed, Legible, Post
    <3>4. QED
      BY <2>1, <3>1, <3>2, <3>3, InstantStep
  <2>3. CASE post' = [post EXCEPT !.pc = "over"] /\ UNCHANGED active
    <3>1. post' \in Post /\ post'.pc = "over" /\ active' \in 0 .. Cap
      BY <1>1, <2>3 DEF Post
    <3>2. Owed' /\ Legible'
      BY <1>1, <1>2, <2>3 DEF Owed, Legible, Post
    <3>3. QED
      BY <2>1, <3>1, <3>2, InstantStep
  <2>4. QED
    BY <1>4, <2>2, <2>3 DEF CreateInstant
<1>11. CASE PublishInstant
  <2>1. UNCHANGED Rests /\ post.pc = "created" /\ post.job = "none" /\ active >= 1
    BY <1>2, <1>11 DEF PublishInstant, Owed
  <2>2. PICK outcome \in Outcomes :
          /\ Enqueue(outcome)
          /\ post' = [post EXCEPT !.pc = IF outcome = "taken" THEN "queued" ELSE "over",
                                  !.job = IF Runs(outcome) THEN "running" ELSE @]
    BY <1>11 DEF PublishInstant
  <2>3. faults' \in Nat /\ active' \in 0 .. Cap
    BY <1>1, <2>1, <2>2, FaultTypes DEF Enqueue
  <2>4. PICK pc \in {"queued", "over"}, job \in {"none", "running"} :
          /\ post' = [[post EXCEPT !.pc = pc] EXCEPT !.job = job]
          /\ job = "running" <=> Runs(outcome)
    BY <2>1, <2>2
  <2>5. post' \in Post /\ post'.pc = pc /\ post'.job = job
    BY <1>1, <2>4 DEF Post
  <2>6. Runs(outcome) => active' = active
    BY <2>2 DEF Runs, Enqueue
  <2>7. Owed'
    BY <2>1, <2>4, <2>5, <2>6 DEF Owed
  <2>8. Legible'
    BY <1>1, <1>2, <2>4 DEF Legible, Post
  <2>9. QED
    BY <2>1, <2>3, <2>5, <2>7, <2>8, InstantStep
<1>5. CASE StoreText
  <2>1. UNCHANGED <<Rests, active>> /\ faults' \in Nat /\ post.pc # "none"
    BY <1>1, <1>5, FaultTypes DEF StoreText
  <2>2. CASE post' = [post EXCEPT !.pc = "over"]
    <3>1. post' \in Post /\ post'.pc # "none" /\ active' \in 0 .. Cap
      BY <1>1, <2>1, <2>2 DEF Post
    <3>2. Owed' /\ Legible'
      BY <1>1, <1>2, <2>1, <2>2 DEF Owed, Legible, Post
    <3>3. QED
      BY <2>1, <3>1, <3>2, InstantStep
  <2>3. CASE \E text \in Texts : post' = [post EXCEPT !.pc = "over", !.stored = TRUE, !.text = text]
    <3>1. PICK text \in Texts : post' = [[[post EXCEPT !.pc = "over"] EXCEPT !.stored = TRUE] EXCEPT !.text = text]
      BY <2>3
    <3>2. text \in Text
      BY <1>1
    <3>3. post' \in Post /\ post'.pc # "none" /\ active' \in 0 .. Cap
      BY <1>1, <2>1, <3>1, <3>2 DEF Post
    <3>4. Owed' /\ Legible'
      BY <1>1, <1>2, <2>1, <3>1 DEF Owed, Legible, Post
    <3>5. QED
      BY <2>1, <3>3, <3>4, InstantStep
  <2>4. QED
    BY <1>5, <2>2, <2>3 DEF StoreText
<1>6. CASE Deliver
  <2>1. UNCHANGED Rests /\ faults' \in Nat /\ post.pc # "none" /\ post.pc \notin {"placed", "created"}
    BY <1>1, <1>2, <1>3, <1>6, FaultTypes DEF Deliver, Owed
  <2>2. active' \in 0 .. Cap
    BY <1>1, <1>2, <1>6 DEF Deliver, Owed
  <2>3. post.stored \in BOOLEAN
    BY <1>1 DEF Post
  <2>4. CASE post' = [post EXCEPT !.job = "sent", !.button = post.stored]
    <3>1. PICK stored \in BOOLEAN : post' = [[post EXCEPT !.job = "sent"] EXCEPT !.button = stored]
      BY <2>3, <2>4
    <3>2. post' \in Post /\ post'.pc # "none"
      BY <1>1, <2>1, <3>1 DEF Post
    <3>3. Owed' /\ Legible'
      BY <1>1, <1>2, <2>1, <3>1 DEF Owed, Legible, Post
    <3>4. QED
      BY <2>1, <2>2, <3>2, <3>3, InstantStep
  <2>5. CASE post' = [post EXCEPT !.job = "sent"]
    <3>1. post' \in Post /\ post'.pc # "none"
      BY <1>1, <2>1, <2>5 DEF Post
    <3>2. Owed' /\ Legible'
      BY <1>1, <1>2, <2>1, <2>5 DEF Owed, Legible, Post
    <3>3. QED
      BY <2>1, <2>2, <3>1, <3>2, InstantStep
  <2>6. QED
    BY <1>6, <2>4, <2>5 DEF Deliver
<1>7. CASE OpenText
  <2>1. UNCHANGED <<Rests, active>> /\ faults' \in Nat /\ post.pc # "none"
    BY <1>1, <1>3, <1>7, FaultTypes DEF OpenText
  <2>2. CASE post.stored /\ post' = [post EXCEPT !.reader = "sending", !.rest = post.text]
    <3>1. post' = [[post EXCEPT !.reader = "sending"] EXCEPT !.rest = post.text] /\ post.text \in Text
      BY <1>1, <2>2 DEF Post
    <3>2. post' \in Post /\ post'.pc # "none"
      BY <1>1, <2>1, <3>1 DEF Post
    <3>3. post.text[1] \notin Blank
      BY <1>2, <2>2, IntakeAssumption DEF Legible
    <3>4. Owed' /\ Legible'
      BY <1>1, <1>2, <2>1, <3>1, <3>3 DEF Owed, Legible, Post
    <3>5. QED
      BY <1>1, <2>1, <3>2, <3>4, InstantStep
  <2>3. CASE post' = [post EXCEPT !.reader = "over"]
    <3>1. post' \in Post /\ post'.pc # "none"
      BY <1>1, <2>1, <2>3 DEF Post
    <3>2. Owed' /\ Legible'
      BY <1>1, <1>2, <2>1, <2>3 DEF Owed, Legible, Post
    <3>3. QED
      BY <1>1, <2>1, <3>1, <3>2, InstantStep
  <2>4. CASE post' = [post EXCEPT !.reader = "over", !.torn = TRUE]
    <3>1. post' \in Post /\ post'.pc # "none"
      BY <1>1, <2>1, <2>4 DEF Post
    <3>2. Owed' /\ Legible'
      BY <1>1, <1>2, <2>1, <2>4 DEF Owed, Legible, Post
    <3>3. QED
      BY <1>1, <2>1, <3>1, <3>2, InstantStep
  <2>5. QED
    BY <1>7, <2>2, <2>3, <2>4 DEF OpenText
<1>8. CASE SendChunk
  <2>1. UNCHANGED <<Rests, active>> /\ faults' \in Nat /\ post.pc # "none"
    BY <1>1, <1>3, <1>8, FaultTypes DEF SendChunk
  <2>2. CASE post' = [post EXCEPT !.got = Append(@, FirstChunk(post.rest)), !.rest = Rest(post.rest)]
    <3>1. post.rest \in Text /\ post.rest # << >> /\ post.rest[1] \notin Blank
      BY <1>1, <1>2, <1>8 DEF SendChunk, Legible, Post
    <3>2. PICK chunk, rest \in Text : /\ chunk = FirstChunk(post.rest) /\ rest = Rest(post.rest)
                                      /\ rest # << >> => rest[1] \notin Blank
      BY <3>1, ChunkTypes
    <3>3. post' = [[post EXCEPT !.got = Append(post.got, chunk)] EXCEPT !.rest = rest]
      BY <2>2, <3>2
    <3>4. Append(post.got, chunk) \in Seq(Text)
      BY <1>1, <3>2 DEF Post
    <3>5. post' \in Post /\ post'.pc # "none"
      BY <1>1, <2>1, <3>2, <3>3, <3>4 DEF Post
    <3>6. Owed' /\ Legible'
      BY <1>1, <1>2, <2>1, <3>2, <3>3 DEF Owed, Legible, Post
    <3>7. QED
      BY <1>1, <2>1, <3>5, <3>6, InstantStep
  <2>3. CASE post' = [post EXCEPT !.reader = "over", !.torn = TRUE]
    <3>1. post' \in Post /\ post'.pc # "none"
      BY <1>1, <2>1, <2>3 DEF Post
    <3>2. Owed' /\ Legible'
      BY <1>1, <1>2, <2>1, <2>3 DEF Owed, Legible, Post
    <3>3. QED
      BY <1>1, <2>1, <3>1, <3>2, InstantStep
  <2>4. QED
    BY <1>8, <2>2, <2>3 DEF SendChunk
<1>9. CASE AllSent
  <2>1. UNCHANGED <<Rests, active, faults>> /\ post.pc # "none"
    BY <1>1, <1>3, <1>9 DEF AllSent
  <2>2. post' \in Post /\ post'.pc # "none"
    BY <1>1, <1>9, <2>1 DEF AllSent, Post
  <2>3. Owed' /\ Legible'
    BY <1>1, <1>2, <1>9, <2>1 DEF AllSent, Owed, Legible, Post
  <2>4. QED
    BY <1>1, <2>1, <2>2, <2>3, InstantStep
<1>12. QED
  BY <1>4, <1>5, <1>6, <1>7, <1>8, <1>9, <1>11 DEF PostStep

(* What the end of the bot leaves of a keyboard, and of an instant job. *)
LEMMA BotStopsSteps ==
  ASSUME Door, BotStops
  PROVE  /\ msg' \in [Slots -> Message] /\ \A m \in Slots : msg'[m].pc = "idle"
         /\ tap' \in [Taps -> Tap]
         /\ \A t \in Taps : \/ tap[t] = "free" /\ tap'[t] = "free"
                            \/ tap[t] = "pressed" /\ tap'[t] = "pressed"
                            \/ tap[t] # "free" /\ tap'[t] = "over"
         /\ picker' \in Picker
         /\ picker'.screen = picker.screen /\ picker'.state = picker.state /\ picker'.jobs = picker.jobs
         /\ picker'.overlap = picker.overlap /\ picker'.unheard = picker.unheard
         /\ picker'.kept <=> picker.kept \/ (picker.state /\ \E t \in Taps : tap[t] = "queued")
         /\ post' \in Post
         /\ post'.pc = IF post.pc = "none" THEN "none" ELSE "over"
         /\ post'.reader = IF post.reader = "sending" THEN "over" ELSE post.reader
         /\ post'.torn <=> post.torn \/ (post.reader = "sending" /\ post.rest # << >>)
         /\ post'.job = post.job /\ post'.stored = post.stored /\ post'.lapsed = post.lapsed
         /\ post'.button = post.button /\ post'.text = post.text /\ post'.rest = post.rest /\ post'.got = post.got
         /\ post'.described = post.described
<1>1. picker \in Picker /\ post \in Post /\ tap \in [Taps -> Tap]
  BY DEF Door, TypeOK
<1>2. msg' \in [Slots -> Message] /\ \A m \in Slots : msg'[m].pc = "idle"
  BY FreeTypes DEF BotStops
<1>3. PICK waiting \in SUBSET {t \in Taps : TapAt(t, "pressed")} :
        tap' = [t \in Taps |-> IF TapAt(t, "free") \/ t \in waiting THEN tap[t] ELSE "over"]
  BY DEF BotStops
<1>4. \A t \in Taps : /\ tap'[t] = IF tap[t] = "free" \/ t \in waiting THEN tap[t] ELSE "over"
                      /\ t \in waiting => tap[t] = "pressed"
  BY <1>3 DEF TapAt
<1>5. /\ tap' \in [Taps -> Tap]
      /\ \A t \in Taps : \/ tap[t] = "free" /\ tap'[t] = "free"
                         \/ tap[t] = "pressed" /\ tap'[t] = "pressed"
                         \/ tap[t] # "free" /\ tap'[t] = "over"
  <2>1. tap' \in [Taps -> Tap]
    BY <1>1, <1>3 DEF Tap
  <2>2. QED
    BY <1>4, <2>1
<1>6. /\ picker' \in Picker
      /\ picker'.screen = picker.screen /\ picker'.state = picker.state /\ picker'.jobs = picker.jobs
      /\ picker'.overlap = picker.overlap /\ picker'.unheard = picker.unheard
      /\ picker'.kept <=> picker.kept \/ (picker.state /\ \E t \in Taps : tap[t] = "queued")
  <2>1. PICK kept \in BOOLEAN :
          kept <=> picker.kept \/ (picker.state /\ \E t \in Taps : TapAt(t, "queued"))
    OBVIOUS
  <2>2. picker' = [picker EXCEPT !.kept = (picker.kept \/ (picker.state /\ \E t \in Taps : TapAt(t, "queued")))]
    BY DEF BotStops
  <2>3. picker' = [picker EXCEPT !.kept = kept]
    <3>1. kept = (picker.kept \/ (picker.state /\ \E t \in Taps : TapAt(t, "queued")))
      BY <1>1, <2>1 DEF Picker
    <3>2. QED
      BY <2>2, <3>1
  <2>4. /\ picker' \in Picker /\ picker'.kept = kept
        /\ picker'.screen = picker.screen /\ picker'.state = picker.state /\ picker'.jobs = picker.jobs
        /\ picker'.overlap = picker.overlap /\ picker'.unheard = picker.unheard
    BY <1>1, <2>3 DEF Picker
  <2>5. QED
    BY <2>1, <2>4 DEF TapAt
<1>7. PICK torn \in BOOLEAN : torn <=> post.torn \/ (post.reader = "sending" /\ post.rest # << >>)
  OBVIOUS
<1>8. PICK pc \in {"none", "over"}, reader \in {"none", "over"} :
        /\ pc = IF post.pc = "none" THEN "none" ELSE "over"
        /\ reader = IF post.reader = "sending" THEN "over" ELSE post.reader
  BY <1>1 DEF Post
<1>9. post' = [[[post EXCEPT !.pc = pc] EXCEPT !.reader = reader] EXCEPT !.torn = torn]
  <2>1. post' = [[[post EXCEPT !.pc = IF post.pc = "none" THEN post.pc ELSE "over"]
                       EXCEPT !.reader = IF post.reader = "sending" THEN "over" ELSE post.reader]
                       EXCEPT !.torn = (post.torn \/ (post.reader = "sending" /\ post.rest # << >>))]
    BY DEF BotStops
  <2>2. torn = (post.torn \/ (post.reader = "sending" /\ post.rest # << >>))
    BY <1>1, <1>7 DEF Post
  <2>3. pc = IF post.pc = "none" THEN post.pc ELSE "over"
    BY <1>8
  <2>4. QED
    BY <1>8, <2>1, <2>2, <2>3
<1>10. /\ post' \in Post /\ post'.pc = pc /\ post'.reader = reader /\ post'.torn = torn
       /\ post'.job = post.job /\ post'.stored = post.stored /\ post'.lapsed = post.lapsed
       /\ post'.button = post.button /\ post'.text = post.text /\ post'.rest = post.rest /\ post'.got = post.got
       /\ post'.described = post.described
  BY <1>1, <1>9 DEF Post
<1>11. QED
  BY <1>2, <1>5, <1>6, <1>7, <1>8, <1>10

LEMMA BotStopsDoor ==
  ASSUME Door, BotStops
  PROVE  Door'
<1>1. TypeOK /\ LimiterTypeOK /\ Paced /\ faults \in Nat /\ active \in 0 .. Cap
      /\ picker \in Picker /\ post \in Post
  BY DEF Door, TypeOK
<1>2. LimiterTypeOK' /\ Paced'
  <2>1. UNCHANGED gate /\ claim' \in [Users -> Nat]
    BY <1>1 DEF BotStops, LimiterTypeOK
  <2>2. heard' \in [Users -> {"nothing", "notice", "lost"}]
    BY <1>1 DEF BotStops, LimiterTypeOK
  <2>3. QED
    BY <1>1, <2>1, <2>2, ThrottleStep
<1>3. faults' \in Nat /\ UNCHANGED <<row, active>>
  BY <1>1, FaultTypes DEF BotStops
<1>4. TypeOK'
  BY <1>1, <1>2, <1>3, BotStopsSteps DEF TypeOK
<1>5. Alone'
  BY BotStopsSteps DEF Alone, At
<1>6. Vacant'
  <2>1. ASSUME picker.screen = "none" PROVE picker' = NoPicker /\ \A t \in Taps : tap'[t] = "free"
    <3>1. picker = NoPicker /\ \A t \in Taps : tap[t] = "free"
      BY <2>1 DEF Door, Vacant
    <3>2. picker'.kept = FALSE
      BY <3>1, BotStopsSteps DEF NoPicker, Picker
    <3>3. picker' = picker
      BY <1>1, <3>1, <3>2, BotStopsSteps DEF NoPicker, Picker
    <3>4. QED
      BY <3>1, <3>3, BotStopsSteps
  <2>2. ASSUME post.pc = "none" PROVE post' = NoPost
    <3>1. post = NoPost
      BY <2>2 DEF Door, Vacant
    <3>2. post'.torn = FALSE
      BY <3>1, BotStopsSteps DEF NoPost, Post
    <3>3. post' = post
      BY <1>1, <3>1, <3>2, BotStopsSteps DEF NoPost, Post
    <3>4. QED
      BY <3>1, <3>3
  <2>3. picker'.screen = picker.screen /\ (post'.pc = "none" <=> post.pc = "none")
    BY BotStopsSteps
  <2>4. QED
    BY <2>1, <2>2, <2>3 DEF Door, Vacant
<1>7. Running'
  <2>1. \A t \in Taps : tap'[t] # "created"
    BY BotStopsSteps
  <2>2. post'.pc \notin {"placed", "created"} /\ post'.job = post.job
    BY BotStopsSteps
  <2>3. post.job = "running" => active >= 1
    BY JobIsOwed DEF Owed
  <2>4. QED
    BY <1>1, <1>3, <2>1, <2>2, <2>3, PostHoldsNext, IntakeAssumption DEF Running
<1>8. Legible'
  BY BotStopsSteps DEF Door, Legible
<1>9. QED
  BY <1>2, <1>4, <1>5, <1>6, <1>7, <1>8 DEF Door

LEMMA NextDoor == Door /\ [Next]_vars => Door'
<1> SUFFICES ASSUME Door, [Next]_vars PROVE Door'
  OBVIOUS
<1>1. TypeOK /\ LimiterTypeOK /\ Paced /\ active \in 0 .. Cap /\ Cap \in Nat /\ row \in BOOLEAN /\ post \in Post
      /\ picker \in Picker /\ faults \in Nat
  BY IntakeAssumption DEF Door, TypeOK
<1>2. Running /\ Legible /\ Vacant /\ Alone
  BY DEF Door
<1>3. CASE \E m \in Slots : HandleLink(m)
  BY <1>3, HandleLinkDoor
<1>4. CASE \E t \in Taps : HandleTap(t)
  BY <1>4, HandleTapDoor
<1>5. CASE PostStep
  BY <1>5, PostStepDoor
<1>6. CASE RowExpires
  <2>1. UNCHANGED <<limiter, msg, following, active, faults>> /\ row' \in BOOLEAN
    BY <1>6 DEF RowExpires
  <2>2. LimiterTypeOK' /\ Paced'
    BY <1>1, <2>1, LimiterStays
  <2>3. Running'
    BY <1>2, <2>1, RunningStays DEF following
  <2>4. QED
    BY <1>1, <2>1, <2>2, <2>3, BystanderStep
<1>7. CASE StateExpires
  <2>1. UNCHANGED <<limiter, msg, row, post, tap, active, faults>>
    BY <1>7 DEF StateExpires, Elsewhere
  <2>2. picker' \in Picker /\ picker'.screen = picker.screen
    BY <1>1, <1>7 DEF StateExpires, Picker
  <2>3. picker.screen # "none"
    BY <1>2, <1>7 DEF StateExpires, Vacant, NoPicker
  <2>4. LimiterTypeOK' /\ Paced'
    BY <1>1, <2>1, LimiterStays
  <2>5. TypeOK'
    BY <1>1, <2>1, <2>2, <2>4 DEF TypeOK
  <2>6. Alone' /\ Vacant' /\ Legible'
    BY <1>2, <2>1, <2>2, <2>3 DEF Alone, Vacant, Legible, Following, At
  <2>7. Running'
    BY <1>2, <2>1, RunningStays
  <2>8. QED
    BY <2>4, <2>5, <2>6, <2>7 DEF Door
<1>8. CASE TextExpires
  <2>1. UNCHANGED <<Rests, active, faults>>
    BY <1>8 DEF TextExpires
  <2>2. post.pc # "none"
    BY <1>2, <1>8 DEF TextExpires, Vacant, NoPost
  <2>3. post' \in Post /\ post'.pc # "none"
    BY <1>1, <1>8, <2>2 DEF TextExpires, Post
  <2>4. Owed' /\ Legible'
    BY <1>1, <1>2, <1>8, <2>1, JobIsOwed DEF TextExpires, Owed, Legible, Post
  <2>5. QED
    BY <1>1, <2>1, <2>2, <2>3, <2>4, InstantStep
<1>9. CASE JobOver
  <2>1. UNCHANGED <<limiter, msg, row, following, faults>>
    BY <1>9 DEF JobOver
  <2>2. Held \in Nat
    BY CreatedTypes
  <2>3. active' \in 0 .. Cap /\ Held <= active'
    BY <1>1, <1>9, <2>2 DEF JobOver
  <2>6. Running'
    BY <1>2, <2>1, <2>3 DEF Running, Held, Created, following
  <2>4. LimiterTypeOK' /\ Paced'
    BY <1>1, <2>1, LimiterStays
  <2>5. QED
    BY <1>1, <2>1, <2>3, <2>4, <2>6, BystanderStep
<1>10. CASE ForgetPicker
  <2>1. UNCHANGED <<limiter, msg, row, post, faults>> /\ active' = 0
    BY <1>10 DEF ForgetPicker, Elsewhere
  <2>2. picker' = NoPicker /\ picker' \in Picker /\ picker'.screen = "none"
    BY <1>10 DEF ForgetPicker, NoPicker, Picker
  <2>3. tap' \in [Taps -> Tap] /\ \A t \in Taps : tap'[t] = "free"
    BY <1>10 DEF ForgetPicker, Tap
  <2>4. LimiterTypeOK' /\ Paced'
    BY <1>1, <2>1, LimiterStays
  <2>5. TypeOK'
    BY <1>1, <2>1, <2>2, <2>3, <2>4 DEF TypeOK
  <2>6. post = NoPost /\ post.pc = "none" /\ picker.screen # "none"
    BY <1>2, <1>10 DEF ForgetPicker, Vacant
  <2>7. Alone' /\ Vacant' /\ Legible'
    BY <1>2, <2>1, <2>2, <2>3, <2>6 DEF Alone, Vacant, Legible, Following, At, NoPost
  <2>8. Running'
    <3>1. (\A t \in Taps : tap'[t] # "created") /\ post'.pc = "none" /\ post'.job = "none"
      BY <2>1, <2>3, <2>6 DEF NoPost
    <3>2. QED
      BY <2>1, <3>1, PostHoldsNext DEF Running
  <2>9. QED
    BY <2>4, <2>5, <2>7, <2>8 DEF Door
<1>11. CASE ForgetPost
  <2>1. UNCHANGED <<limiter, msg, row, picker, tap, faults>> /\ active' = 0 /\ post.pc # "none"
    BY <1>11 DEF ForgetPost, Rests
  <2>2. post' = NoPost /\ post' \in Post /\ post'.pc = "none"
    BY <1>11 DEF ForgetPost, NoPost, Post, Text
  <2>3. LimiterTypeOK' /\ Paced'
    BY <1>1, <2>1, LimiterStays
  <2>4. TypeOK'
    BY <1>1, <2>1, <2>2, <2>3 DEF TypeOK
  <2>5. Alone' /\ Vacant' /\ Legible'
    BY <1>2, <2>1, <2>2 DEF Alone, Vacant, Legible, Following, At, NoPost
  <2>6. Running'
    <3>1. (\A t \in Taps : tap'[t] # "created") /\ post'.pc = "none" /\ post'.job = "none"
      BY <1>2, <2>1, <2>2 DEF Vacant, NoPost
    <3>2. QED
      BY <2>1, <3>1, PostHoldsNext DEF Running
  <2>7. QED
    BY <2>3, <2>4, <2>5, <2>6 DEF Door
<1>12. CASE Tick
  <2>1. UNCHANGED <<msg, row, following, active, faults>> /\ Expire
    BY <1>12 DEF Tick
  <2>2. LimiterTypeOK' /\ Paced'
    BY <1>1, <2>1, ExpireStep
  <2>3. Running'
    BY <1>2, <2>1, RunningStays DEF following
  <2>4. QED
    BY <1>1, <2>1, <2>2, <2>3, BystanderStep
<1>13. CASE UNCHANGED vars
  <2>1. UNCHANGED <<limiter, msg, row, following, active, faults>>
    BY <1>13 DEF vars
  <2>2. LimiterTypeOK' /\ Paced'
    BY <1>1, <2>1, LimiterStays
  <2>3. Running'
    BY <1>2, <2>1, RunningStays DEF following
  <2>4. QED
    BY <1>1, <2>1, <2>2, <2>3, BystanderStep
<1>14. CASE BotStops
  BY <1>14, BotStopsDoor
<1>15. QED
  BY <1>3, <1>4, <1>5, <1>6, <1>7, <1>8, <1>9, <1>10, <1>11, <1>12, <1>13, <1>14 DEF Next

LEMMA DoorHolds == Spec => []Door
<1>1. Init => Door
  BY InitDoor
<1>2. Door /\ [Next]_vars => Door'
  BY NextDoor
<1>3. QED
  BY <1>1, <1>2, PTL DEF Spec

(* Every variable of the door keeps its type: a layer index of a message is  *)
(* one of the configuration's, the cap is not exceeded, and what is left of  *)
(* a text to send is a text.                                                *)
THEOREM TypeCorrect == Spec => []TypeOK
<1>1. Door => TypeOK
  BY DEF Door
<1>2. QED
  BY <1>1, DoorHolds, PTL

(* No window lets more requests through than the limit of its layer and one    *)
(* for each error of Redis in it, however many handlers ask at once.         *)
THEOREM LimitHolds == Spec => []WindowLetsLimitPass
<1>1. Door => WindowLetsLimitPass
  BY DEF Door, Paced, WindowLetsLimitPass
<1>2. QED
  BY <1>1, DoorHolds, PTL

-----------------------------------------------------------------------------
(***************************************************************************)
(* The keyboard.                                                            *)
(***************************************************************************)

(* Without an overlap one tap at a time is between the state and its deletion, *)
(* and a job that is there was that tap's, or has taken the state with it.  *)
OneTap ==
  ~picker.overlap /\ ~picker.kept /\ ~picker.unheard =>
    /\ \A t, o \in Taps : Busy(t) /\ Busy(o) => t = o
    /\ \A t \in Taps : tap[t] \in {"loaded", "created"} => picker.jobs = 0
    /\ picker.jobs = 0 \/ picker.jobs = 1
    /\ picker.jobs = 1 => ~picker.state \/ \E t \in Taps : tap[t] = "queued"

Negative == {"refused", "expired", "cancelled"}

(* Which taps the jobs, and the refusals on the screen, come from. *)
Traced ==
  /\ \A t \in Taps : tap[t] \in {"queued", "deleted"} => picker.jobs > 0
  /\ picker.jobs > 0 => \E t \in Taps : tap[t] \in {"queued", "deleted", "over"}
  /\ picker.screen \in Negative => \E t \in Taps : tap[t] = "over"

Keyboard == OneTap /\ Traced /\ PickerTellsTheOutcome

Fresh == /\ \A t \in Taps : tap[t] = "free"
         /\ picker.jobs = 0 /\ picker.screen \in {"none", "choose"}

LEMMA FreshKeyboard == Fresh => Keyboard
BY DEF Fresh, Keyboard, OneTap, Busy, Traced, Negative, PickerTellsTheOutcome

LEMMA KeyboardSteps ==
  ASSUME Door, [Next]_vars
  PROVE  \/ UNCHANGED <<picker, tap>>
         \/ Fresh'
         \/ StateExpires \/ BotStops
         \/ \E t \in Taps : HandleTap(t)
<1>1. CASE \E m \in Slots : HandleLink(m)
  <2>1. PICK m \in Slots : HandleLink(m)
    BY <1>1
  <2>2. CASE ShowPicker(m)
    <3>1. tap' = tap /\ picker'.jobs = 0 /\ picker'.screen = "choose"
      BY <2>2 DEF ShowPicker, NoPicker
    <3>2. ~Following
      BY <2>2 DEF ShowPicker, Door, Alone, At
    <3>3. \A t \in Taps : tap[t] = "free"
      BY <3>2 DEF Following, Door, Vacant
    <3>4. QED
      BY <3>1, <3>3 DEF Fresh
  <2>3. CASE ~ShowPicker(m)
    BY <2>1, <2>3 DEF HandleLink, Receive, Check, Notify, Tell, ReadCache, Fetch, LeaveIt, PlaceInstant, following
  <2>4. QED
    BY <2>2, <2>3
<1>2. CASE PostStep
  BY <1>2 DEF PostStep, CreateInstant, PublishInstant, StoreText, Deliver, OpenText, SendChunk, AllSent, Rests
<1>3. CASE ForgetPicker
  <2>1. picker'.jobs = 0 /\ picker'.screen = "none" /\ \A t \in Taps : tap'[t] = "free"
    BY <1>3 DEF ForgetPicker, NoPicker
  <2>2. QED
    BY <2>1 DEF Fresh
<1>4. CASE RowExpires \/ TextExpires \/ JobOver \/ ForgetPost \/ Tick \/ UNCHANGED vars
  BY <1>4 DEF RowExpires, TextExpires, JobOver, ForgetPost, Tick, Rests, following, vars
<1>5. QED
  BY <1>1, <1>2, <1>3, <1>4 DEF Next

LEMMA BotStopsKeyboard ==
  ASSUME Door, Keyboard, BotStops
  PROVE  Keyboard'
<1>1. picker.jobs \in Nat
  BY DEF Door, TypeOK, Picker
<1>2. \A t \in Taps : \/ tap[t] = "free" /\ tap'[t] = "free"
                      \/ tap[t] = "pressed" /\ tap'[t] = "pressed"
                      \/ tap[t] # "free" /\ tap'[t] = "over"
  BY BotStopsSteps
<1>3. /\ picker'.screen = picker.screen /\ picker'.state = picker.state /\ picker'.jobs = picker.jobs
      /\ picker'.overlap = picker.overlap /\ picker'.unheard = picker.unheard
      /\ picker'.kept <=> picker.kept \/ (picker.state /\ \E t \in Taps : tap[t] = "queued")
  BY BotStopsSteps
<1>4. \A t \in Taps : ~Busy(t)' /\ tap'[t] \notin {"loaded", "created", "queued", "deleted"}
  BY <1>2 DEF Busy
<1>5. OneTap'
  BY <1>3, <1>4 DEF Keyboard, OneTap
<1>6. Traced'
  <2>1. \A t \in Taps : tap[t] \in {"queued", "deleted", "over"} => tap'[t] = "over"
    BY <1>2
  <2>2. QED
    BY <1>3, <1>4, <2>1 DEF Keyboard, Traced
<1>7. PickerTellsTheOutcome'
  <2>1. Pressed' = Pressed
    BY <1>2 DEF Pressed
  <2>2. QED
    BY <1>3, <2>1 DEF Keyboard, PickerTellsTheOutcome
<1>8. QED
  BY <1>5, <1>6, <1>7 DEF Keyboard

LEMMA TapKeyboard ==
  ASSUME Door, Keyboard, NEW t \in Taps, HandleTap(t)
  PROVE  Keyboard'
<1>1. picker \in Picker /\ picker.jobs \in Nat /\ tap \in [Taps -> Tap]
  BY DEF Door, TypeOK, Picker
<1>2. ASSUME NEW pc, TapTo(t, pc)
      PROVE  tap'[t] = pc /\ \A o \in Taps \ {t} : tap'[o] = tap[o]
  BY <1>1, <1>2 DEF TapTo
<1>4. ASSUME \A o \in Taps : tap[o] # "free" => tap'[o] # "free",
             picker'.screen = picker.screen, picker'.jobs = picker.jobs, picker'.unheard = picker.unheard
      PROVE  PickerTellsTheOutcome'
  <2>1. Pressed \subseteq Pressed'
    BY <1>4 DEF Pressed
  <2>2. QED
    BY <1>4, <2>1 DEF Keyboard, PickerTellsTheOutcome
<1>3. ASSUME tap[t] \in {"pressed", "loaded", "created"}, tap'[t] = "over",
             \A o \in Taps \ {t} : tap'[o] = tap[o],
             picker'.screen \in Negative \/ picker'.screen = picker.screen,
             picker'.jobs = picker.jobs, picker'.state = picker.state, picker'.overlap = picker.overlap,
             picker'.kept = picker.kept, picker'.unheard = picker.unheard
      PROVE  Keyboard'
  <2>1. OneTap'
    BY <1>3 DEF Keyboard, OneTap, Busy
  <2>2. Traced'
    BY <1>3 DEF Keyboard, Traced
  <2>3. PickerTellsTheOutcome'
    <3>1. CASE picker'.screen \in Negative
      <4>1. picker'.screen # "started"
        BY <3>1 DEF Negative
      <4>2. ASSUME picker'.jobs > 0 PROVE \E a, b \in Pressed' : a # b
        <5>1. PICK o \in Taps : tap[o] \in {"queued", "deleted", "over"}
          BY <1>3, <4>2 DEF Keyboard, Traced
        <5>2. o # t
          BY <1>3, <5>1
        <5>3. o \in Pressed' /\ t \in Pressed'
          BY <1>3, <5>1, <5>2 DEF Pressed
        <5>4. QED
          BY <5>2, <5>3
      <4>3. QED
        BY <4>1, <4>2 DEF PickerTellsTheOutcome
    <3>2. CASE picker'.screen = picker.screen
      BY <1>3, <1>4, <3>2
    <3>3. QED
      BY <1>3, <3>1, <3>2
  <2>4. QED
    BY <2>1, <2>2, <2>3 DEF Keyboard
<1>5. ASSUME tap[t] \in {"pressed", "loaded"}, TapTo(t, "over"),
             Shows("cancelled") \/ Shows("expired") \/ Shows("refused")
      PROVE  Keyboard'
  <2>1. tap'[t] = "over" /\ \A o \in Taps \ {t} : tap'[o] = tap[o]
    BY <1>2, <1>5
  <2>2. picker.screen # "none"
    BY <1>5 DEF Door, Vacant
  <2>3. PICK screen \in Negative : Shows(screen)
    BY <1>5 DEF Negative
  <2>4. /\ picker'.screen \in Negative \/ picker'.screen = picker.screen
        /\ picker'.jobs = picker.jobs /\ picker'.state = picker.state
        /\ picker'.overlap = picker.overlap /\ picker'.kept = picker.kept /\ picker'.unheard = picker.unheard
    <3>1. screen \in {"started", "refused", "expired", "cancelled"}
      BY DEF Negative
    <3>2. QED
      BY <2>2, <2>3, <3>1, ShowsTypes
  <2>5. QED
    BY <1>3, <1>5, <2>1, <2>4
<1>6. CASE Press(t)
  <2>1. tap[t] = "free" /\ tap'[t] = "pressed" /\ picker' = picker /\ \A o \in Taps \ {t} : tap'[o] = tap[o]
    BY <1>2, <1>6 DEF Press, TapAt
  <2>2. OneTap' /\ Traced'
    BY <2>1 DEF Keyboard, OneTap, Busy, Traced
  <2>3. QED
    BY <1>4, <2>1, <2>2 DEF Keyboard
<1>7. CASE CancelPicker(t)
  BY <1>5, <1>7 DEF CancelPicker, TapAt
<1>8. CASE LoadState(t)
  <2>1. tap[t] = "pressed"
    BY <1>8 DEF LoadState, TapAt
  <2>2. CASE Shows("expired") /\ TapTo(t, "over")
    BY <1>5, <2>1, <2>2
  <2>3. CASE UNCHANGED picker /\ TapTo(t, "over")
    <3>1. tap'[t] = "over" /\ \A o \in Taps \ {t} : tap'[o] = tap[o]
      BY <1>2, <2>3
    <3>2. QED
      BY <1>3, <2>1, <2>3, <3>1
  <2>4. CASE /\ picker.state /\ TapTo(t, "loaded")
             /\ picker' = [picker EXCEPT !.overlap = @ \/ \E o \in Taps : Busy(o)]
    <3>1. tap'[t] = "loaded" /\ \A o \in Taps \ {t} : tap'[o] = tap[o]
      BY <1>2, <2>4
    <3>3. /\ picker'.screen = picker.screen /\ picker'.jobs = picker.jobs
          /\ picker'.state = picker.state /\ picker'.kept = picker.kept /\ picker'.unheard = picker.unheard
      BY <1>1, <2>4 DEF Picker
    <3>4. picker'.overlap <=> picker.overlap \/ \E o \in Taps : Busy(o)
      BY <1>1, <2>4, Zenon DEF Picker
    <3>5. OneTap'
      <4>1. SUFFICES ASSUME ~picker'.overlap, ~picker'.kept, ~picker'.unheard PROVE OneTap'
        BY DEF OneTap
      <4>2. ~picker.overlap /\ ~picker.kept /\ ~picker.unheard /\ \A o \in Taps : ~Busy(o)
        BY <3>3, <3>4, <4>1
      <4>3. picker.jobs = 0
        BY <2>4, <4>2 DEF Keyboard, OneTap, Busy
      <4>4. \A o \in Taps : tap[o] \notin {"loaded", "created", "queued"}
        BY <4>2 DEF Busy
      <4>5. QED
        BY <3>1, <3>3, <4>3, <4>4 DEF OneTap, Busy
    <3>6. Traced'
      BY <2>1, <3>1, <3>3 DEF Keyboard, Traced
    <3>7. QED
      BY <1>4, <2>1, <3>1, <3>3, <3>5, <3>6 DEF Keyboard
  <2>5. QED
    BY <1>8, <2>2, <2>3, <2>4 DEF LoadState
<1>9. CASE CreateJob(t)
  <2>1. tap[t] = "loaded"
    BY <1>9 DEF CreateJob, TapAt
  <2>2. CASE Shows("refused") /\ TapTo(t, "over")
    BY <1>5, <2>1, <2>2
  <2>3. CASE UNCHANGED picker /\ TapTo(t, "created")
    <3>1. tap'[t] = "created" /\ \A o \in Taps \ {t} : tap'[o] = tap[o]
      BY <1>2, <2>3
    <3>2. OneTap' /\ Traced'
      BY <2>1, <2>3, <3>1 DEF Keyboard, OneTap, Busy, Traced
    <3>3. QED
      BY <1>4, <2>3, <3>1, <3>2 DEF Keyboard
  <2>4. QED
    BY <1>9, <2>2, <2>3 DEF CreateJob
<1>10. CASE Publish(t)
  <2>1. tap[t] = "created"
    BY <1>10 DEF Publish, TapAt
  <2>2. PICK outcome \in Outcomes :
          /\ TapTo(t, IF outcome = "taken" THEN "queued" ELSE "over")
          /\ picker' = [picker EXCEPT !.jobs = IF Runs(outcome) THEN @ + 1 ELSE @,
                                      !.screen = IF outcome = "taken" THEN @ ELSE "refused",
                                      !.unheard = @ \/ outcome = "unheard"]
    BY <1>10 DEF Publish
  <2>3. /\ tap'[t] = IF outcome = "taken" THEN "queued" ELSE "over"
        /\ \A o \in Taps \ {t} : tap'[o] = tap[o]
    BY <1>2, <2>2
  <2>4. /\ picker'.jobs = IF Runs(outcome) THEN picker.jobs + 1 ELSE picker.jobs
        /\ picker'.screen = IF outcome = "taken" THEN picker.screen ELSE "refused"
        /\ picker'.state = picker.state /\ picker'.kept = picker.kept /\ picker'.overlap = picker.overlap
    BY <1>1, <2>2 DEF Picker
  <2>5. picker'.unheard <=> picker.unheard \/ outcome = "unheard"
    BY <1>1, <2>2, Zenon DEF Picker
  <2>6. CASE outcome = "taken"
    <3>1. /\ tap'[t] = "queued" /\ picker'.jobs = picker.jobs + 1 /\ picker'.screen = picker.screen
          /\ picker'.unheard <=> picker.unheard
      BY <2>3, <2>4, <2>5, <2>6 DEF Runs
    <3>2. OneTap'
      <4>1. SUFFICES ASSUME ~picker'.overlap, ~picker'.kept, ~picker'.unheard PROVE OneTap'
        BY DEF OneTap
      <4>2. ~picker.overlap /\ ~picker.kept /\ ~picker.unheard
        BY <2>4, <3>1, <4>1
      <4>3. picker.jobs = 0 /\ picker'.jobs = 1
        BY <2>1, <3>1, <4>2 DEF Keyboard, OneTap
      <4>4. \A o \in Taps : Busy(o) => o = t
        BY <2>1, <4>2 DEF Keyboard, OneTap, Busy
      <4>5. \A o \in Taps \ {t} : ~Busy(o)'
        BY <2>3, <4>4 DEF Busy
      <4>6. QED
        BY <3>1, <4>3, <4>5 DEF OneTap, Busy
    <3>3. Traced'
      <4>1. picker'.jobs > 0
        BY <1>1, <3>1
      <4>2. picker.screen \in Negative => \E o \in Taps \ {t} : tap[o] = "over"
        BY <2>1 DEF Keyboard, Traced
      <4>3. QED
        BY <2>3, <3>1, <4>1, <4>2 DEF Traced
    <3>4. PickerTellsTheOutcome'
      <4>1. picker'.jobs > 0
        BY <1>1, <3>1
      <4>2. ASSUME picker'.screen \in Negative PROVE \E a, b \in Pressed' : a # b
        <5>1. PICK o \in Taps : tap[o] = "over"
          BY <3>1, <4>2 DEF Keyboard, Traced
        <5>2. o # t
          BY <2>1, <5>1
        <5>3. o \in Pressed' /\ t \in Pressed'
          BY <2>3, <3>1, <5>1, <5>2 DEF Pressed
        <5>4. QED
          BY <5>2, <5>3
      <4>3. QED
        BY <4>1, <4>2 DEF PickerTellsTheOutcome, Negative
    <3>5. QED
      BY <3>2, <3>3, <3>4 DEF Keyboard
  <2>7. CASE outcome = "unheard"
    <3>1. /\ tap'[t] = "over" /\ picker'.jobs = picker.jobs + 1 /\ picker'.screen = "refused"
          /\ picker'.unheard
      BY <2>3, <2>4, <2>5, <2>7 DEF Runs
    <3>2. picker'.jobs > 0
      BY <1>1, <3>1
    <3>3. QED
      BY <2>3, <3>1, <3>2 DEF Keyboard, OneTap, Traced, PickerTellsTheOutcome
  <2>8. CASE outcome \in {"released", "stuck"}
    <3>1. /\ tap'[t] = "over" /\ picker'.jobs = picker.jobs /\ picker'.screen \in Negative
      BY <2>3, <2>4, <2>8 DEF Runs, Negative
    <3>2. picker'.unheard = picker.unheard
      <4>1. picker.unheard \in BOOLEAN
        BY <1>1 DEF Picker
      <4>2. picker'.unheard = (picker.unheard \/ outcome = "unheard")
        BY <1>1, <2>2, Zenon DEF Picker
      <4>3. QED
        BY <2>8, <4>1, <4>2
    <3>3. QED
      BY <1>3, <2>1, <2>3, <2>4, <3>1, <3>2
  <2>9. QED
    BY <2>6, <2>7, <2>8 DEF Outcomes
<1>11. CASE DeleteState(t)
  <2>1. tap[t] = "queued" /\ picker.jobs > 0
    BY <1>11 DEF DeleteState, TapAt, Keyboard, Traced
  <2>2. PICK pc \in {"deleted", "over"} : TapTo(t, pc)
    BY <1>11 DEF DeleteState
  <2>3. tap'[t] = pc /\ \A o \in Taps \ {t} : tap'[o] = tap[o]
    BY <1>2, <2>2
  <2>4. CASE picker' = [picker EXCEPT !.state = FALSE]
    <3>1. /\ picker'.screen = picker.screen /\ picker'.jobs = picker.jobs /\ picker'.overlap = picker.overlap
          /\ picker'.unheard = picker.unheard /\ picker'.kept = picker.kept /\ picker'.state = FALSE
      BY <1>1, <2>4 DEF Picker
    <3>2. OneTap' /\ Traced'
      BY <2>1, <2>2, <2>3, <3>1 DEF Keyboard, OneTap, Busy, Traced
    <3>3. QED
      BY <1>4, <2>1, <2>2, <2>3, <3>1, <3>2 DEF Keyboard
  <2>5. CASE picker' = [picker EXCEPT !.kept = @ \/ picker.state]
    <3>1. PICK kept \in BOOLEAN : kept <=> picker.kept \/ picker.state
      OBVIOUS
    <3>2. kept = (picker.kept \/ picker.state)
      BY <1>1, <3>1 DEF Picker
    <3>3. picker' = [picker EXCEPT !.kept = kept]
      BY <2>5, <3>2
    <3>4. /\ picker'.screen = picker.screen /\ picker'.jobs = picker.jobs /\ picker'.overlap = picker.overlap
          /\ picker'.unheard = picker.unheard /\ picker'.kept = kept /\ picker'.state = picker.state
      BY <1>1, <3>3 DEF Picker
    <3>5. OneTap' /\ Traced'
      BY <2>1, <2>2, <2>3, <3>1, <3>4 DEF Keyboard, OneTap, Busy, Traced
    <3>6. QED
      BY <1>4, <2>1, <2>2, <2>3, <3>4, <3>5 DEF Keyboard
  <2>6. QED
    BY <1>11, <2>4, <2>5 DEF DeleteState
<1>12. CASE ShowStarted(t)
  <2>1. tap[t] = "deleted" /\ picker.jobs > 0 /\ Shows("started")
    BY <1>12 DEF ShowStarted, TapAt, Keyboard, Traced
  <2>2. tap'[t] = "over" /\ \A o \in Taps \ {t} : tap'[o] = tap[o]
    BY <1>2, <1>12 DEF ShowStarted
  <2>3. picker.screen # "none"
    BY <2>1 DEF Door, Vacant
  <2>4. /\ picker'.screen = "started" \/ picker'.screen = picker.screen
        /\ picker'.jobs = picker.jobs /\ picker'.state = picker.state
        /\ picker'.overlap = picker.overlap /\ picker'.kept = picker.kept /\ picker'.unheard = picker.unheard
    BY <2>1, <2>3, ShowsTypes
  <2>5. OneTap' /\ Traced'
    BY <2>1, <2>2, <2>4 DEF Keyboard, OneTap, Busy, Traced, Negative
  <2>6. PickerTellsTheOutcome'
    <3>1. CASE picker'.screen = "started"
      BY <2>1, <2>4, <3>1 DEF PickerTellsTheOutcome
    <3>2. CASE picker'.screen = picker.screen
      BY <1>4, <2>1, <2>2, <2>4, <3>2
    <3>3. QED
      BY <2>4, <3>1, <3>2
  <2>7. QED
    BY <2>5, <2>6 DEF Keyboard
<1>13. QED
  BY <1>6, <1>7, <1>8, <1>9, <1>10, <1>11, <1>12 DEF HandleTap

LEMMA KeyboardHolds == Spec => []Keyboard
<1>1. Init => Keyboard
  <2>1. Init => Fresh
    BY DEF Init, Fresh, NoPicker
  <2>2. QED
    BY <2>1, FreshKeyboard
<1>2. Door /\ Keyboard /\ [Next]_vars => Keyboard'
  <2> SUFFICES ASSUME Door, Keyboard, [Next]_vars PROVE Keyboard'
    OBVIOUS
  <2>1. CASE UNCHANGED <<picker, tap>>
    BY <2>1 DEF Keyboard, OneTap, Busy, Traced, PickerTellsTheOutcome, Pressed
  <2>2. CASE Fresh'
    BY <2>2, FreshKeyboard, PTL
  <2>3. CASE StateExpires
    <3>1. UNCHANGED tap /\ picker' = [picker EXCEPT !.state = FALSE] /\ picker \in Picker
      BY <2>3 DEF StateExpires, Door, TypeOK
    <3>2. /\ picker'.screen = picker.screen /\ picker'.jobs = picker.jobs /\ picker'.state = FALSE
          /\ picker'.kept = picker.kept /\ picker'.overlap = picker.overlap /\ picker'.unheard = picker.unheard
      BY <3>1 DEF Picker
    <3>3. QED
      BY <3>1, <3>2 DEF Keyboard, OneTap, Busy, Traced, PickerTellsTheOutcome, Pressed
  <2>4. CASE \E t \in Taps : HandleTap(t)
    BY <2>4, TapKeyboard
  <2>5. CASE BotStops
    BY <2>5, BotStopsKeyboard
  <2>6. QED
    BY <2>1, <2>2, <2>3, <2>4, <2>5, KeyboardSteps
<1>3. QED
  BY <1>1, <1>2, DoorHolds, PTL DEF Spec

(* One keyboard, one job: a second one needs two taps that both read the       *)
(* request state before either deleted it; a tap that failed, or a bot that   *)
(* stopped, between the job and the delete; or a job the queue had taken when *)
(* its publish raised. Whatever the bot, Redis and Telegram do, there is no   *)
(* other way.                                                               *)
THEOREM SecondJobIsExcused == Spec => []SecondJobNeedsDoubleTap
<1>1. Door /\ Keyboard => SecondJobNeedsDoubleTap
  BY DEF Door, TypeOK, Picker, Keyboard, OneTap, SecondJobNeedsDoubleTap
<1>2. QED
  BY <1>1, DoorHolds, KeyboardHolds, PTL

(* What the keyboard's message says when its handlers are through is so, if it *)
(* was not tapped twice and no publish raised over an entry the queue had      *)
(* taken; "started" is so even then.                                        *)
THEOREM OutcomeIsTold == Spec => []PickerTellsTheOutcome
<1>1. Keyboard => PickerTellsTheOutcome
  BY DEF Keyboard
<1>2. QED
  BY <1>1, KeyboardHolds, PTL

-----------------------------------------------------------------------------
(***************************************************************************)
(* The notice of a refusal.                                                 *)
(***************************************************************************)

(* A claim whose holder has heard nothing is still about to tell.            *)
Promised == \A u \in Users : claim[u] > 0 /\ heard[u] = "nothing" => Telling(u)

LEMMA NextPromised == Door /\ Promised /\ [Next]_vars => Promised'
<1> SUFFICES ASSUME Door, Promised, [Next]_vars, NEW u \in Users, claim'[u] > 0, heard'[u] = "nothing"
             PROVE  Telling(u)'
  BY DEF Promised
<1>1. msg \in [Slots -> Message] /\ claim \in [Users -> Nat] /\ heard \in [Users -> {"nothing", "notice", "lost"}]
  BY DEF Door, TypeOK, LimiterTypeOK
<1>2. ASSUME UNCHANGED msg, claim[u] > 0, heard[u] = "nothing" PROVE Telling(u)'
  BY <1>2 DEF Promised, Telling, At
<1>3. ASSUME NEW m \in Slots, \A o \in Slots \ {m} : msg'[o] = msg[o],
             msg[m].pc # "telling" \/ msg[m].user # u, claim[u] > 0, heard[u] = "nothing"
      PROVE  Telling(u)'
  <2>1. PICK o \in Slots : msg[o].pc = "telling" /\ msg[o].user = u
    BY <1>3 DEF Promised, Telling, At
  <2>2. o # m
    BY <1>3, <2>1
  <2>3. msg'[o] = msg[o]
    BY <1>3, <2>2
  <2>4. QED
    BY <2>1, <2>3 DEF Telling, At
<1>4. CASE \E m \in Slots : HandleLink(m)
  <2>1. PICK m \in Slots : HandleLink(m)
    BY <1>4
  <2>2. CASE Notify(m)
    <3>1. \A o \in Slots \ {m} : msg'[o] = msg[o]
      BY <1>1, <2>2 DEF Notify, Goes, Ends
    <3>2. msg[m].pc = "refused"
      BY <2>2 DEF Notify, At
    <3>3. CASE msg[m].user = u /\ Goes(m, "telling")
      <4>1. msg'[m].pc = "telling" /\ msg'[m].user = u
        BY <1>1, <3>3 DEF Goes, Message
      <4>2. QED
        BY <4>1 DEF Telling, At
    <3>4. CASE Claim(msg[m].user) /\ msg[m].user # u
      <4>1. claim[u] > 0 /\ heard[u] = "nothing"
        BY <1>1, <3>4 DEF Claim
      <4>2. QED
        BY <1>3, <3>1, <3>2, <4>1
    <3>5. CASE UNCHANGED throttle
      <4>1. claim[u] > 0 /\ heard[u] = "nothing"
        BY <3>5 DEF throttle
      <4>2. QED
        BY <1>3, <3>1, <3>2, <4>1
    <3>6. QED
      BY <2>2, <3>3, <3>4, <3>5 DEF Notify
  <2>3. CASE Tell(m)
    <3>1. \A o \in Slots \ {m} : msg'[o] = msg[o]
      BY <1>1, <2>3 DEF Tell, Ends
    <3>2. claim' = claim
      BY <2>3 DEF Tell
    <3>3. msg[m].user # u
      <4>1. SUFFICES ASSUME msg[m].user = u PROVE FALSE
        OBVIOUS
      <4>2. heard'[u] = "notice" \/ heard'[u] = "lost"
        BY <1>1, <2>3, <3>2, <4>1 DEF Tell
      <4>3. QED
        BY <4>2
    <3>4. heard'[u] = heard[u]
      BY <1>1, <2>3, <3>3 DEF Tell
    <3>5. QED
      BY <1>3, <3>1, <3>2, <3>3, <3>4
  <2>4. CASE \/ \E v \in Users : Receive(m, v)
             \/ Check(m) \/ ReadCache(m) \/ Fetch(m) \/ LeaveIt(m) \/ ShowPicker(m) \/ PlaceInstant(m)
    <3>1. \A o \in Slots \ {m} : msg'[o] = msg[o]
      BY <1>1, <2>4 DEF Receive, Check, ReadCache, Fetch, LeaveIt, ShowPicker, PlaceInstant, Goes, Ends
    <3>2. UNCHANGED throttle
      BY <2>4 DEF Receive, Check, ReadCache, Fetch, LeaveIt, ShowPicker, PlaceInstant, limiter
    <3>3. msg[m].pc # "telling"
      BY <2>4 DEF Receive, Check, ReadCache, Fetch, LeaveIt, ShowPicker, PlaceInstant, At
    <3>4. QED
      BY <1>3, <3>1, <3>2, <3>3 DEF throttle
  <2>5. QED
    BY <2>1, <2>2, <2>3, <2>4 DEF HandleLink
<1>5. CASE Tick
  <2>1. UNCHANGED msg /\ Expire
    BY <1>5 DEF Tick
  <2>2. claim'[u] = Earlier(claim[u])
    BY <2>1 DEF Expire
  <2>3. claim[u] > 1
    BY <1>1, <2>2 DEF Earlier
  <2>4. heard'[u] = heard[u]
    BY <2>1, <2>3 DEF Expire
  <2>5. QED
    BY <1>1, <1>2, <2>1, <2>3, <2>4
<1>6. CASE UNCHANGED <<msg, throttle>>
  BY <1>2, <1>6 DEF throttle
<1>9. CASE BotStops
  <2>1. claim'[u] = claim[u] /\ heard'[u] = IF claim[u] > 0 /\ heard[u] = "nothing" THEN "lost" ELSE heard[u]
    BY <1>1, <1>9 DEF BotStops
  <2>2. QED
    BY <2>1
<1>7. \/ \E m \in Slots : HandleLink(m)
      \/ Tick
      \/ BotStops
      \/ UNCHANGED <<msg, throttle>>
  <2>1. CASE \E t \in Taps : HandleTap(t)
    BY <2>1 DEF HandleTap, Press, CancelPicker, LoadState, CreateJob, Publish, DeleteState, ShowStarted, Elsewhere, limiter
  <2>2. CASE PostStep
    BY <2>2 DEF PostStep, CreateInstant, PublishInstant, StoreText, Deliver, OpenText, SendChunk, AllSent, Rests, limiter
  <2>3. CASE RowExpires \/ StateExpires \/ TextExpires \/ JobOver \/ ForgetPicker \/ ForgetPost \/ UNCHANGED vars
    BY <2>3 DEF RowExpires, StateExpires, TextExpires, JobOver, ForgetPicker, ForgetPost, Elsewhere, Rests, limiter, vars
  <2>4. QED
    BY <2>1, <2>2, <2>3 DEF Next
<1>8. QED
  BY <1>4, <1>5, <1>6, <1>7, <1>9

(* A refused message goes without an answer only while its sender has, or is  *)
(* about to have, the notice of an earlier one; or that one was lost, refused  *)
(* by Telegram or with the bot; or the bot stops over this very message.      *)
THEOREM DropIsExplained == Spec => SilentDropIsExplained
<1>1. Init => Promised
  BY DEF Init, LimiterInit, Promised
<1>2. Door /\ Promised /\ [Next]_vars
        => [\A m \in Slots : DropsSilently(m)
              => heard[msg[m].user] # "nothing" \/ Telling(msg[m].user) \/ BotStops]_vars
  <2> SUFFICES ASSUME Door, Promised, [Next]_vars, NEW m \in Slots, DropsSilently(m), ~BotStops
               PROVE  heard[msg[m].user] # "nothing" \/ Telling(msg[m].user)
    BY Zenon
  <2>1. msg \in [Slots -> Message] /\ claim \in [Users -> Nat] /\ msg[m].user \in Users
    BY DEF Door, TypeOK, LimiterTypeOK, Message
  <2>2. msg[m].pc = "refused" /\ msg'[m].pc = "idle"
    BY DEF DropsSilently, At
  <2>3. CASE \E o \in Slots : HandleLink(o)
    <3>1. PICK o \in Slots : HandleLink(o)
      BY <2>3
    <3>2. CASE Notify(m)
      <4>1. ~Goes(m, "telling")
        BY <2>1, <2>2 DEF Goes, Message
      <4>2. ~MayClaim(msg[m].user)
        BY <3>2, <4>1 DEF Notify
      <4>3. claim[msg[m].user] > 0
        BY <2>1, <4>2 DEF MayClaim
      <4>4. QED
        BY <2>1, <4>3 DEF Promised
    <3>3. CASE ~Notify(m)
      <4>1. CASE o = m
        BY <2>1, <2>2, <3>1, <3>3, <4>1 DEF HandleLink, Receive, Check, Tell, ReadCache, Fetch, LeaveIt, ShowPicker, PlaceInstant, At
      <4>2. CASE o # m
        BY <2>1, <2>2, <3>1, <4>2
           DEF HandleLink, Receive, Check, Notify, Tell, ReadCache, Fetch, LeaveIt, ShowPicker, PlaceInstant, Goes, Ends
      <4>3. QED
        BY <4>1, <4>2
    <3>4. QED
      BY <3>2, <3>3
  <2>4. CASE UNCHANGED msg
    BY <2>2, <2>4
  <2>5. QED
    <3>1. CASE \E t \in Taps : HandleTap(t)
      BY <2>4, <3>1 DEF HandleTap, Press, CancelPicker, LoadState, CreateJob, Publish, DeleteState, ShowStarted, Elsewhere
    <3>2. CASE PostStep
      BY <2>4, <3>2 DEF PostStep, CreateInstant, PublishInstant, StoreText, Deliver, OpenText, SendChunk, AllSent, Rests
    <3>3. CASE RowExpires \/ StateExpires \/ TextExpires \/ JobOver \/ ForgetPicker \/ ForgetPost \/ Tick \/ UNCHANGED vars
      BY <2>4, <3>3 DEF RowExpires, StateExpires, TextExpires, JobOver, ForgetPicker, ForgetPost, Tick, Elsewhere, Rests, vars
    <3>4. QED
      BY <2>3, <3>1, <3>2, <3>3 DEF Next
<1>3. QED
  BY <1>1, <1>2, NextPromised, DoorHolds, PTL DEF Spec, SilentDropIsExplained

-----------------------------------------------------------------------------
(***************************************************************************)
(* The button and the text behind it.                                       *)
(***************************************************************************)

LEMMA NextBacked == Door /\ TextButtonIsBacked /\ ChunksFit /\ [Next]_vars => TextButtonIsBacked' /\ ChunksFit'
<1> SUFFICES ASSUME Door, TextButtonIsBacked, ChunksFit, [Next]_vars PROVE TextButtonIsBacked' /\ ChunksFit'
  OBVIOUS
<1>1. post \in Post
  BY DEF Door, TypeOK
<1>2. CASE post' = post
  BY <1>2 DEF TextButtonIsBacked, ChunksFit
<1>3. ASSUME post'.button = FALSE, post'.got = << >> PROVE TextButtonIsBacked' /\ ChunksFit'
  BY <1>3 DEF TextButtonIsBacked, ChunksFit
<1>4. CASE \E m \in Slots : HandleLink(m)
  <2>1. PICK m \in Slots : HandleLink(m)
    BY <1>4
  <2>2. CASE PlaceInstant(m)
    <3>1. post'.button = FALSE /\ post'.got = << >>
      BY <2>2 DEF PlaceInstant, NoPost
    <3>2. QED
      BY <1>3, <3>1
  <2>3. CASE ~PlaceInstant(m)
    BY <1>2, <2>1, <2>3 DEF HandleLink, Receive, Check, Notify, Tell, ReadCache, Fetch, LeaveIt, ShowPicker, following
  <2>4. QED
    BY <2>2, <2>3
<1>5. CASE PostStep \/ TextExpires
  <2>1. CASE SendChunk
    <3>1. post.rest \in Text /\ post.rest # << >> /\ post.rest[1] \notin Blank /\ post.got \in Seq(Text)
      BY <1>1, <2>1 DEF SendChunk, Door, Legible, Post
    <3>2. TextButtonIsBacked'
      <4>1. /\ post'.button = post.button /\ post'.stored = post.stored /\ post'.lapsed = post.lapsed
        BY <1>1, <2>1 DEF SendChunk, Post
      <4>2. QED
        BY <4>1 DEF TextButtonIsBacked
    <3>3. CASE post'.got = post.got
      BY <3>2, <3>3 DEF ChunksFit
    <3>4. CASE post'.got = Append(post.got, FirstChunk(post.rest))
      <4>1. PICK chunk \in Text : chunk = FirstChunk(post.rest) /\ Len(chunk) \in 1 .. ChunkLimit
        BY <3>1, ChunkTypes
      <4>2. post'.got = Append(post.got, chunk)
        BY <3>4, <4>1
      <4>3. ASSUME NEW i \in DOMAIN post'.got PROVE Len(post'.got[i]) \in 1 .. ChunkLimit
        <5>1. i \in 1 .. Len(post.got) + 1
          BY <3>1, <4>1, <4>2
        <5>2. CASE i = Len(post.got) + 1
          <6>1. post'.got[i] = chunk
            BY <3>1, <4>1, <4>2, <5>2
          <6>2. QED
            BY <4>1, <6>1
        <5>3. CASE i \in 1 .. Len(post.got)
          <6>1. post'.got[i] = post.got[i] /\ i \in DOMAIN post.got
            BY <3>1, <4>1, <4>2, <5>3
          <6>2. QED
            BY <6>1 DEF ChunksFit
        <5>4. QED
          BY <3>1, <5>1, <5>2, <5>3
      <4>4. QED
        BY <3>2, <4>3 DEF ChunksFit
    <3>5. QED
      <4>1. post'.got = post.got \/ post'.got = Append(post.got, FirstChunk(post.rest))
        BY <1>1, <2>1 DEF SendChunk, Post
      <4>2. QED
        BY <3>3, <3>4, <4>1
  <2>2. CASE CreateInstant \/ PublishInstant \/ OpenText \/ AllSent
    <3>1. /\ post'.button = post.button /\ post'.stored = post.stored /\ post'.lapsed = post.lapsed
          /\ post'.got = post.got
      BY <1>1, <2>2 DEF CreateInstant, PublishInstant, OpenText, AllSent, Post
    <3>2. QED
      BY <3>1 DEF TextButtonIsBacked, ChunksFit
  <2>3. CASE StoreText
    <3>1. /\ post'.button = post.button /\ post'.lapsed = post.lapsed /\ post'.got = post.got
      BY <1>1, <2>3 DEF StoreText, Post
    <3>2. post.stored => post'.stored
      BY <1>1, <2>3 DEF StoreText, Post
    <3>3. QED
      BY <3>1, <3>2 DEF TextButtonIsBacked, ChunksFit
  <2>4. CASE Deliver
    <3>1. post'.stored = post.stored /\ post'.lapsed = post.lapsed /\ post'.got = post.got
      BY <1>1, <2>4 DEF Deliver, Post
    <3>2. post'.button = post.stored \/ post'.button = post.button
      BY <1>1, <2>4 DEF Deliver, Post
    <3>3. QED
      BY <3>1, <3>2 DEF TextButtonIsBacked, ChunksFit
  <2>5. CASE TextExpires
    <3>1. post' = [[post EXCEPT !.stored = FALSE] EXCEPT !.lapsed = TRUE]
      BY <2>5 DEF TextExpires
    <3>2. post'.lapsed = TRUE /\ post'.got = post.got
      BY <1>1, <3>1 DEF Post
    <3>3. QED
      BY <3>2 DEF TextButtonIsBacked, ChunksFit
  <2>6. QED
    BY <1>5, <2>1, <2>2, <2>3, <2>4, <2>5 DEF PostStep
<1>6. CASE ForgetPost
  <2>1. post'.button = FALSE /\ post'.got = << >>
    BY <1>6 DEF ForgetPost, NoPost
  <2>2. QED
    BY <1>3, <2>1
<1>7. CASE \E t \in Taps : HandleTap(t)
  BY <1>2, <1>7 DEF HandleTap, Press, CancelPicker, LoadState, CreateJob, Publish, DeleteState, ShowStarted, Elsewhere
<1>8. CASE RowExpires \/ StateExpires \/ JobOver \/ ForgetPicker \/ Tick \/ UNCHANGED vars
  BY <1>2, <1>8 DEF RowExpires, StateExpires, JobOver, ForgetPicker, Tick, Elsewhere, following, vars
<1>9. CASE BotStops
  BY <1>9, BotStopsSteps DEF TextButtonIsBacked, ChunksFit
<1>10. QED
  BY <1>4, <1>5, <1>6, <1>7, <1>8, <1>9 DEF Next

LEMMA BackedHolds == Spec => [](TextButtonIsBacked /\ ChunksFit)
<1>1. Init => TextButtonIsBacked /\ ChunksFit
  BY DEF Init, NoPost, TextButtonIsBacked, ChunksFit
<1>2. QED
  BY <1>1, NextBacked, DoorHolds, PTL DEF Spec

(* The text button is only ever under a delivery whose text was in Redis; it   *)
(* goes stale only when that text expires.                                  *)
THEOREM ButtonIsBacked == Spec => []TextButtonIsBacked
BY BackedHolds, PTL

(* Every message of a text is one Telegram takes: not empty and no longer than *)
(* the limit, wherever the text is cut.                                     *)
THEOREM ChunksAreSendable == Spec => []ChunksFit
BY BackedHolds, PTL

-----------------------------------------------------------------------------
(***************************************************************************)
(* What the reader of a post gets. A text that is made of some parts is made *)
(* of them with the last one cut in two.                                    *)
(***************************************************************************)

LEMMA LastParts ==
  ASSUME NEW parts \in Seq(Text), NEW part \in Text
  PROVE  /\ Append(parts, part) \in Seq(Text)
         /\ DOMAIN Append(parts, part) = 1 .. Len(parts) + 1
         /\ Append(parts, part)[Len(parts) + 1] = part
         /\ \A i \in 1 .. Len(parts) : Append(parts, part)[i] = parts[i]
OBVIOUS

LEMMA WholeText ==
  ASSUME NEW text \in Text
  PROVE  MadeOf(text, Append(<< >>, text))
<1>1. Len(text) \in Nat /\ DOMAIN text = 1 .. Len(text)
  BY DEF Text
<1>2. Append(<< >>, text) = <<text>> /\ DOMAIN <<text>> = {1} /\ <<text>>[1] = text
  OBVIOUS
<1> DEFINE at == [i \in {1} |-> 0]
<1>3. at \in [{1} -> 0 .. Len(text)] /\ at[1] = 0
  BY <1>1
<1>4. /\ at[1] + Len(text) <= Len(text)
      /\ \A c \in DOMAIN text : text[c] = text[at[1] + c]
      /\ \A c \in DOMAIN text : c \in at[1] + 1 .. at[1] + Len(text)
  BY <1>1, <1>3
<1> HIDE DEF at
<1>5. /\ \A i \in {1} : /\ at[i] + Len(<<text>>[i]) <= Len(text)
                        /\ \A c \in DOMAIN <<text>>[i] : <<text>>[i][c] = text[at[i] + c]
      /\ \A i, j \in {1} : i < j => at[i] + Len(<<text>>[i]) <= at[j]
      /\ \A c \in DOMAIN text :
           text[c] \in Blank \/ \E i \in {1} : c \in at[i] + 1 .. at[i] + Len(<<text>>[i])
  BY <1>2, <1>4
<1>6. QED
  BY <1>2, <1>3, <1>5 DEF MadeOf

LEMMA CutLastPart ==
  ASSUME NEW text \in Text, NEW parts \in Seq(Text), NEW last \in Text, NEW start \in Text, NEW end \in Text,
         MadeOf(text, Append(parts, last)), CutInTwo(last, start, end)
  PROVE  MadeOf(text, Append(Append(parts, start), end))
<1> DEFINE old == Append(parts, last)
           new == Append(Append(parts, start), end)
<1>1. PICK n \in Nat : n = Len(parts)
  OBVIOUS
<1>2. PICK t, l \in Nat : /\ t = Len(text) /\ DOMAIN text = 1 .. t
                         /\ l = Len(last) /\ DOMAIN last = 1 .. l
  BY DEF Text
<1>3. /\ DOMAIN old = 1 .. n + 1 /\ old[n + 1] = last
      /\ \A i \in 1 .. n : old[i] = parts[i]
  BY <1>1, LastParts
<1>4. /\ DOMAIN new = 1 .. n + 2 /\ new[n + 2] = end /\ new[n + 1] = start
      /\ \A i \in 1 .. n : new[i] = parts[i]
  <2>1. /\ Append(parts, start) \in Seq(Text) /\ DOMAIN Append(parts, start) = 1 .. n + 1
        /\ Append(parts, start)[n + 1] = start
        /\ \A i \in 1 .. n : Append(parts, start)[i] = parts[i]
    BY <1>1, LastParts
  <2>2. Len(Append(parts, start)) = n + 1
    BY <1>1, <2>1
  <2>3. /\ DOMAIN new = 1 .. n + 1 + 1 /\ new[n + 1 + 1] = end
        /\ \A i \in 1 .. n + 1 : new[i] = Append(parts, start)[i]
    BY <2>1, <2>2, LastParts
  <2>4. n + 1 + 1 = n + 2 /\ n + 1 \in 1 .. n + 1 /\ \A i \in 1 .. n : i \in 1 .. n + 1
    BY <1>1
  <2>5. QED
    BY <2>1, <2>3, <2>4
<1>5. PICK at \in [1 .. n + 1 -> 0 .. t] :
        /\ \A i \in 1 .. n + 1 : /\ at[i] + Len(old[i]) <= t
                                /\ \A c \in DOMAIN old[i] : old[i][c] = text[at[i] + c]
        /\ \A i, j \in 1 .. n + 1 : i < j => at[i] + Len(old[i]) <= at[j]
        /\ \A c \in 1 .. t :
             text[c] \in Blank \/ \E i \in 1 .. n + 1 : c \in at[i] + 1 .. at[i] + Len(old[i])
  BY <1>2, <1>3 DEF MadeOf
<1> HIDE DEF new, old
<1>6. PICK k \in 0 .. l, r \in 0 .. l :
        /\ k <= r
        /\ Len(start) = k /\ \A c \in 1 .. k : start[c] = last[c]
        /\ Len(end) = l - r /\ \A c \in 1 .. l - r : end[c] = last[r + c]
        /\ \A c \in k + 1 .. r : last[c] \in Blank
  <2>1. PICK k \in 0 .. l : \E r \in k .. l :
          /\ Len(start) = k /\ \A c \in 1 .. k : start[c] = last[c]
          /\ Len(end) = l - r /\ \A c \in 1 .. l - r : end[c] = last[r + c]
          /\ \A c \in k + 1 .. r : last[c] \in Blank
    BY <1>2 DEF CutInTwo
  <2>2. PICK r \in k .. l :
          /\ Len(start) = k /\ \A c \in 1 .. k : start[c] = last[c]
          /\ Len(end) = l - r /\ \A c \in 1 .. l - r : end[c] = last[r + c]
          /\ \A c \in k + 1 .. r : last[c] \in Blank
    BY <2>1
  <2>3. r \in 0 .. l /\ k <= r
    BY <1>2
  <2>4. QED
    BY <2>2, <2>3
<1>7. DOMAIN start = 1 .. k /\ DOMAIN end = 1 .. l - r
  BY <1>6 DEF Text
<1>8. PICK b \in 0 .. t : b = at[n + 1] /\ b + l <= t
  <2>1. n + 1 \in 1 .. n + 1
    BY <1>1
  <2>2. at[n + 1] \in 0 .. t /\ at[n + 1] + l <= t
    BY <1>2, <1>3, <1>5, <2>1
  <2>3. QED
    BY <2>2
<1>9. \A c \in 1 .. l : last[c] = text[b + c]
  <2>1. n + 1 \in 1 .. n + 1
    BY <1>1
  <2>2. QED
    BY <1>2, <1>3, <1>5, <1>8, <2>1
<1> DEFINE spot == [i \in 1 .. n + 2 |-> IF i = n + 2 THEN b + r ELSE at[i]]
<1>10. /\ spot \in [1 .. n + 2 -> 0 .. t] /\ spot[n + 2] = b + r /\ spot[n + 1] = b
       /\ \A i \in 1 .. n : spot[i] = at[i]
  <2>1. b + r \in 0 .. t
    BY <1>2, <1>6, <1>8
  <2>2. \A i \in 1 .. n + 2 : i # n + 2 => i \in 1 .. n + 1
    BY <1>1
  <2>3. n + 2 \in 1 .. n + 2 /\ n + 1 \in 1 .. n + 2 /\ n + 1 # n + 2
    BY <1>1
  <2>4. \A i \in 1 .. n : i \in 1 .. n + 2 /\ i # n + 2
    BY <1>1
  <2>5. QED
    BY <1>5, <1>8, <2>1, <2>2, <2>3, <2>4
<1> HIDE DEF spot
<1>11. \A i \in 1 .. n + 2 : i \in 1 .. n \/ i = n + 1 \/ i = n + 2
  BY <1>1
<1>12. ASSUME NEW i \in 1 .. n
       PROVE  /\ i \in 1 .. n + 1 /\ i < n + 1 /\ new[i] = old[i] /\ Len(old[i]) \in Nat
              /\ spot[i] = at[i] /\ at[i] \in 0 .. t /\ at[i] + Len(old[i]) <= b
  <2>1. parts[i] \in Text /\ i \in 1 .. n + 1 /\ i < n + 1 /\ n + 1 \in 1 .. n + 1
    BY <1>1
  <2>2. new[i] = old[i] /\ old[i] \in Text
    BY <1>3, <1>4, <2>1
  <2>3. at[i] + Len(old[i]) <= at[n + 1]
    BY <1>5, <2>1
  <2>4. Len(old[i]) \in Nat
    BY <2>2 DEF Text
  <2>5. spot[i] = at[i] /\ at[i] \in 0 .. t
    BY <1>5, <1>10, <2>1
  <2>6. at[i] + Len(old[i]) <= b
    BY <1>8, <2>3
  <2>7. QED
    BY <2>1, <2>2, <2>4, <2>5, <2>6
<1>0. b \in Nat /\ k \in Nat /\ r \in Nat /\ k <= r /\ r <= l
  BY <1>2, <1>6, <1>8
<1>13. ASSUME NEW i \in 1 .. n + 2
       PROVE  /\ spot[i] + Len(new[i]) <= t
              /\ \A c \in DOMAIN new[i] : new[i][c] = text[spot[i] + c]
  <2>1. CASE i \in 1 .. n
    <3>1. /\ at[i] + Len(old[i]) <= t
          /\ \A c \in DOMAIN old[i] : old[i][c] = text[at[i] + c]
      BY <1>5, <1>12, <2>1
    <3>2. new[i] = old[i] /\ spot[i] = at[i]
      BY <1>12, <2>1
    <3>3. QED
      BY <3>1, <3>2
  <2>2. CASE i = n + 1
    <3>1. b + k <= t
      BY <1>2, <1>6, <1>8
    <3>2. \A c \in 1 .. k : c \in 1 .. l /\ start[c] = text[b + c]
      BY <1>2, <1>6, <1>9
    <3>3. QED
      BY <1>4, <1>6, <1>7, <1>10, <2>2, <3>1, <3>2
  <2>3. CASE i = n + 2
    <3>1. b + r + (l - r) <= t
      BY <1>2, <1>6, <1>8
    <3>2. \A c \in 1 .. l - r : end[c] = text[b + r + c]
      <4>1. TAKE c \in 1 .. l - r
      <4>2. r + c \in 1 .. l /\ b + (r + c) = b + r + c
        BY <1>2, <1>6, <1>8
      <4>3. QED
        BY <1>6, <1>9, <4>2
    <3>3. QED
      BY <1>4, <1>6, <1>7, <1>10, <2>3, <3>1, <3>2
  <2>4. QED
    BY <1>11, <2>1, <2>2, <2>3
<1>14. ASSUME NEW i \in 1 .. n + 2, NEW j \in 1 .. n + 2, i < j
       PROVE  spot[i] + Len(new[i]) <= spot[j]
  <2>1. CASE i \in 1 .. n
    <3>1. spot[i] + Len(new[i]) <= b /\ spot[i] + Len(new[i]) \in Int
      BY <1>12, <2>1
    <3>2. CASE j \in 1 .. n
      <4>1. at[i] + Len(old[i]) <= at[j]
        BY <1>5, <1>12, <1>14, <2>1, <3>2
      <4>2. QED
        BY <1>12, <2>1, <3>2, <4>1
    <3>3. CASE j = n + 1
      BY <1>10, <3>1, <3>3
    <3>4. CASE j = n + 2
      BY <1>0, <1>10, <3>1, <3>4
    <3>5. QED
      BY <1>11, <3>2, <3>3, <3>4
  <2>2. CASE i = n + 1
    <3>1. j = n + 2
      BY <1>1, <1>14, <2>2
    <3>2. QED
      BY <1>0, <1>4, <1>6, <1>10, <2>2, <3>1
  <2>3. CASE i = n + 2
    BY <1>1, <1>14, <2>3
  <2>4. QED
    BY <1>11, <2>1, <2>2, <2>3
<1>15. ASSUME NEW c \in 1 .. t, text[c] \notin Blank
       PROVE  \E i \in 1 .. n + 2 : c \in spot[i] + 1 .. spot[i] + Len(new[i])
  <2>1. PICK i \in 1 .. n + 1 : c \in at[i] + 1 .. at[i] + Len(old[i])
    BY <1>5, <1>15
  <2>2. CASE i \in 1 .. n
    <3>1. i \in 1 .. n + 2
      BY <1>1
    <3>2. QED
      BY <1>3, <1>4, <1>10, <2>1, <2>2, <3>1
  <2>3. CASE i = n + 1
    <3>1. PICK d \in 1 .. l : c = b + d
      <4>1. c - b \in 1 .. l /\ c = b + (c - b)
        BY <1>2, <1>3, <1>8, <2>1, <2>3
      <4>2. QED
        BY <4>1
    <3>2. last[d] \notin Blank
      BY <1>9, <1>15, <3>1
    <3>3. ~(d \in k + 1 .. r)
      BY <1>6, <3>2
    <3>4. CASE d <= k
      <4>1. c \in spot[n + 1] + 1 .. spot[n + 1] + Len(new[n + 1]) /\ n + 1 \in 1 .. n + 2
        <5>1. n + 1 \in 1 .. n + 2
          BY <1>1
        <5>2. spot[n + 1] = b /\ Len(new[n + 1]) = k
          BY <1>4, <1>6, <1>10
        <5>3. b \in Nat /\ k \in Nat /\ c \in b + 1 .. b + k
          BY <1>0, <3>1, <3>4
        <5>4. QED
          BY <5>1, <5>2, <5>3
      <4>2. QED
        BY <4>1
    <3>5. CASE d > r
      <4>1. c \in spot[n + 2] + 1 .. spot[n + 2] + Len(new[n + 2]) /\ n + 2 \in 1 .. n + 2
        <5>1. n + 2 \in 1 .. n + 2
          BY <1>1
        <5>2. spot[n + 2] = b + r /\ Len(new[n + 2]) = l - r
          BY <1>4, <1>6, <1>10
        <5>3. c \in (b + r) + 1 .. (b + r) + (l - r)
          BY <1>0, <1>2, <3>1, <3>5
        <5>4. QED
          BY <5>1, <5>2, <5>3
      <4>2. QED
        BY <4>1
    <3>6. QED
      BY <1>0, <1>2, <3>3, <3>4, <3>5
  <2>4. i \in 1 .. n \/ i = n + 1
    BY <1>1
  <2>5. QED
    BY <2>2, <2>3, <2>4
<1>16. MadeOf(text, new)
  <2>1. spot \in [DOMAIN new -> 0 .. Len(text)]
    BY <1>2, <1>4, <1>10
  <2>2. QED
    BY <1>2, <1>4, <1>13, <1>14, <1>15, <2>1 DEF MadeOf
<1>17. QED
  BY <1>16 DEF new

(* Nobody reads a text that is not there yet, and one that is there stays as it is. *)
Unread == /\ post.pc # "over" => ~post.stored /\ ~post.button /\ post.reader = "none"
          /\ post.reader = "none" => post.got = << >> /\ post.rest = << >>

Whole  == post.rest # << >> \/ post.got # << >> => MadeOf(post.text, Append(post.got, post.rest))
Broken == post.reader = "over" /\ post.rest # << >> => post.torn

Reading == Unread /\ Whole /\ Broken

LEMMA NextReading == Door /\ Reading /\ [Next]_vars => Reading'
<1> SUFFICES ASSUME Door, Reading, [Next]_vars PROVE Reading'
  OBVIOUS
<1>1. post \in Post
  BY DEF Door, TypeOK
<1>2. CASE post' = post
  BY <1>2 DEF Reading, Unread, Whole, Broken
<1>3. ASSUME post'.stored = FALSE, post'.button = FALSE, post'.reader = "none",
             post'.got = << >>, post'.rest = << >>
      PROVE  Reading'
  BY <1>3 DEF Reading, Unread, Whole, Broken
<1>4. ASSUME post'.text = post.text, post'.got = post.got, post'.rest = post.rest
      PROVE  Whole'
  BY <1>4 DEF Reading, Whole
<1>5. CASE \E m \in Slots : HandleLink(m)
  <2>1. PICK m \in Slots : HandleLink(m)
    BY <1>5
  <2>2. CASE PlaceInstant(m)
    <3>1. /\ post'.stored = FALSE /\ post'.button = FALSE /\ post'.reader = "none"
          /\ post'.got = << >> /\ post'.rest = << >>
      BY <2>2 DEF PlaceInstant, NoPost
    <3>2. QED
      BY <1>3, <3>1
  <2>3. CASE ~PlaceInstant(m)
    BY <1>2, <2>1, <2>3 DEF HandleLink, Receive, Check, Notify, Tell, ReadCache, Fetch, LeaveIt, ShowPicker, following
  <2>4. QED
    BY <2>2, <2>3
<1>6. CASE CreateInstant \/ PublishInstant
  <2>1. /\ post.pc # "over" /\ post'.text = post.text /\ post'.got = post.got /\ post'.rest = post.rest
        /\ post'.stored = post.stored /\ post'.button = post.button /\ post'.reader = post.reader
        /\ post'.torn = post.torn
    BY <1>1, <1>6 DEF CreateInstant, PublishInstant, Post
  <2>2. QED
    BY <1>4, <2>1 DEF Reading, Unread, Broken
<1>7. CASE StoreText
  <2>1. /\ post.pc = "queued" /\ post'.pc = "over" /\ post'.reader = post.reader
        /\ post'.got = post.got /\ post'.rest = post.rest
    BY <1>1, <1>7 DEF StoreText, Post
  <2>2. post'.got = << >> /\ post'.rest = << >> /\ post'.reader = "none"
    BY <2>1 DEF Reading, Unread
  <2>3. QED
    BY <2>1, <2>2 DEF Reading, Unread, Whole, Broken
<1>8. CASE Deliver
  <2>1. /\ post'.pc = post.pc /\ post'.text = post.text /\ post'.got = post.got /\ post'.rest = post.rest
        /\ post'.stored = post.stored /\ post'.reader = post.reader /\ post'.torn = post.torn
        /\ post'.button = post.stored \/ post'.button = post.button
    BY <1>1, <1>8 DEF Deliver, Post
  <2>2. QED
    BY <1>4, <2>1 DEF Reading, Unread, Broken
<1>9. CASE OpenText
  <2>1. post.button /\ post.reader = "none" /\ post.pc = "over" /\ post.got = << >> /\ post.rest = << >>
    BY <1>9 DEF OpenText, Reading, Unread
  <2>2. CASE post.stored /\ post' = [post EXCEPT !.reader = "sending", !.rest = post.text]
    <3>1. PICK text \in Text : text = post.text
      BY <1>1 DEF Post
    <3>2. post' = [[post EXCEPT !.reader = "sending"] EXCEPT !.rest = text]
      BY <2>2, <3>1
    <3>3. /\ post'.pc = "over" /\ post'.reader = "sending" /\ post'.torn = post.torn
          /\ post'.got = << >> /\ post'.rest = text /\ post'.text = text
      BY <1>1, <2>1, <3>1, <3>2 DEF Post
    <3>4. Whole'
      BY <3>3, WholeText DEF Whole
    <3>5. QED
      BY <2>2, <3>3, <3>4 DEF Reading, Unread, Broken
  <2>3. CASE post' = [post EXCEPT !.reader = "over"]
    <3>1. post'.pc = "over" /\ post'.reader = "over" /\ post'.got = << >> /\ post'.rest = << >>
      BY <1>1, <2>1, <2>3 DEF Post
    <3>2. QED
      BY <3>1 DEF Reading, Unread, Whole, Broken
  <2>4. CASE post' = [[post EXCEPT !.reader = "over"] EXCEPT !.torn = TRUE]
    <3>1. post'.pc = "over" /\ post'.reader = "over" /\ post'.got = << >> /\ post'.rest = << >>
      BY <1>1, <2>1, <2>4 DEF Post
    <3>2. QED
      BY <3>1 DEF Reading, Unread, Whole, Broken
  <2>5. QED
    BY <1>9, <2>2, <2>3, <2>4 DEF OpenText
<1>10. CASE SendChunk
  <2>1. post.reader = "sending" /\ post.rest # << >> /\ post.pc = "over"
    BY <1>10 DEF SendChunk, Reading, Unread
  <2>2. CASE post' = [post EXCEPT !.got = Append(@, FirstChunk(post.rest)), !.rest = Rest(post.rest)]
    <3>1. PICK text, last \in Text, got \in Seq(Text) : text = post.text /\ last = post.rest /\ got = post.got
      BY <1>1 DEF Post
    <3>2. last # << >> /\ last[1] \notin Blank
      BY <2>1, <3>1 DEF Door, Legible
    <3>3. PICK start, end \in Text : start = FirstChunk(last) /\ end = Rest(last) /\ CutInTwo(last, start, end)
      BY <3>2, ChunkTypes
    <3>4. post' = [[post EXCEPT !.got = Append(got, start)] EXCEPT !.rest = end]
      BY <2>2, <3>1, <3>3
    <3>5. Append(got, start) \in Seq(Text)
      OBVIOUS
    <3>6. /\ post'.pc = post.pc /\ post'.reader = "sending" /\ post'.torn = post.torn /\ post'.text = text
          /\ post'.got = Append(got, start) /\ post'.rest = end
      BY <1>1, <2>1, <3>1, <3>4 DEF Post
    <3>7. MadeOf(text, Append(got, last))
      BY <2>1, <3>1 DEF Reading, Whole
    <3>8. MadeOf(text, Append(Append(got, start), end))
      BY <3>3, <3>7, CutLastPart
    <3>9. Whole'
      BY <3>6, <3>8 DEF Whole
    <3>10. QED
      BY <2>1, <3>6, <3>9 DEF Reading, Unread, Broken
  <2>3. CASE post' = [[post EXCEPT !.reader = "over"] EXCEPT !.torn = TRUE]
    <3>1. /\ post'.pc = "over" /\ post'.reader = "over" /\ post'.torn = TRUE
          /\ post'.text = post.text /\ post'.got = post.got /\ post'.rest = post.rest
      BY <1>1, <2>1, <2>3 DEF Post
    <3>2. QED
      BY <1>4, <3>1 DEF Reading, Unread, Broken
  <2>4. QED
    BY <1>10, <2>2, <2>3 DEF SendChunk
<1>11. CASE AllSent
  <2>1. /\ post.reader = "sending" /\ post.rest = << >> /\ post.pc = "over"
        /\ post'.pc = post.pc /\ post'.reader = "over"
        /\ post'.text = post.text /\ post'.got = post.got /\ post'.rest = post.rest
    BY <1>1, <1>11 DEF AllSent, Post, Reading, Unread
  <2>2. QED
    BY <1>4, <2>1 DEF Reading, Unread, Broken
<1>12. CASE TextExpires
  <2>1. post' = [[post EXCEPT !.stored = FALSE] EXCEPT !.lapsed = TRUE]
    BY <1>12 DEF TextExpires
  <2>2. /\ post'.pc = post.pc /\ post'.stored = FALSE /\ post'.button = post.button
        /\ post'.reader = post.reader /\ post'.torn = post.torn
        /\ post'.text = post.text /\ post'.got = post.got /\ post'.rest = post.rest
    BY <1>1, <2>1 DEF Post
  <2>3. QED
    BY <1>4, <2>2 DEF Reading, Unread, Broken
<1>13. CASE ForgetPost
  <2>1. /\ post'.stored = FALSE /\ post'.button = FALSE /\ post'.reader = "none"
        /\ post'.got = << >> /\ post'.rest = << >>
    BY <1>13 DEF ForgetPost, NoPost
  <2>2. QED
    BY <1>3, <2>1
<1>14. CASE \E t \in Taps : HandleTap(t)
  BY <1>2, <1>14 DEF HandleTap, Press, CancelPicker, LoadState, CreateJob, Publish, DeleteState, ShowStarted, Elsewhere
<1>15. CASE RowExpires \/ StateExpires \/ JobOver \/ ForgetPicker \/ Tick \/ UNCHANGED vars
  BY <1>2, <1>15 DEF RowExpires, StateExpires, JobOver, ForgetPicker, Tick, Elsewhere, following, vars
<1>16. CASE BotStops
  <2>1. /\ post'.pc = IF post.pc = "none" THEN "none" ELSE "over"
        /\ post'.reader = IF post.reader = "sending" THEN "over" ELSE post.reader
        /\ post'.torn <=> post.torn \/ (post.reader = "sending" /\ post.rest # << >>)
        /\ post'.stored = post.stored /\ post'.button = post.button
        /\ post'.text = post.text /\ post'.rest = post.rest /\ post'.got = post.got
    BY <1>16, BotStopsSteps
  <2>2. Unread'
    BY <2>1 DEF Reading, Unread
  <2>3. Broken'
    BY <2>1 DEF Reading, Broken
  <2>4. QED
    BY <1>4, <2>1, <2>2, <2>3 DEF Reading
<1>17. QED
  BY <1>5, <1>6, <1>7, <1>8, <1>9, <1>10, <1>11, <1>12, <1>13, <1>14, <1>15, <1>16 DEF Next, PostStep

(* The messages a reader gets fit Telegram's limit and are, with what is still  *)
(* to send, the whole text in its order and to the letter, but for the blanks *)
(* at the cuts; a text that stops short was stopped by a refused message, or  *)
(* with the bot.                                                            *)
THEOREM ReadersGetThePost == Spec => []ReaderGetsThePost
<1>1. Init => Reading
  BY DEF Init, NoPost, Reading, Unread, Whole, Broken
<1>2. Spec => []Reading
  BY <1>1, NextReading, DoorHolds, PTL DEF Spec
<1>3. Reading /\ TextButtonIsBacked /\ ChunksFit => ReaderGetsThePost
  BY DEF Reading, Whole, Broken, ReaderGetsThePost
<1>4. QED
  BY <1>2, <1>3, BackedHolds, PTL
=============================================================================
