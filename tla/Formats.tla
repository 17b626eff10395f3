------------------------------ MODULE Formats ------------------------------
(***************************************************************************)
(* The size of a YouTube download, estimated from the formats yt-dlp lists  *)
(* before any byte is fetched, and the formats that are fetched then.       *)
(***************************************************************************)
EXTENDS Integers, FiniteSets

CONSTANTS
  Formats,      \* formats a video may come in
  Heights,      \* _VIDEO_HEIGHTS
  MaxSize       \* MAX_FILE_SIZE_MB

\* height 0: sound only. size 0: not published.
Format == [height : Nat, avc : BOOLEAN, mp4 : BOOLEAN, sound : {"none", "m4a", "other"}, size : Nat]

ASSUME FormatsAssumption == Formats \subseteq Format /\ Heights \subseteq Nat /\ MaxSize \in Nat

Video(f)  == f.height > 0
Silent(f) == f.sound = "none"

\* The four rounds: H.264 in mp4, H.264, mp4, anything.
Round(i, f) ==
  \/ i = 1 /\ f.avc /\ f.mp4
  \/ i = 2 /\ f.avc
  \/ i = 3 /\ f.mp4
  \/ i = 4
Rounds == 1 .. 4

First(S) == CHOOSE i \in S : \A j \in S : i <= j
Size(S)  == IF S = {} THEN 0 ELSE LET m == CHOOSE f \in S : \A g \in S : g.size <= f.size IN m.size

\* bestvideo: by height, then by bitrate, which the size stands for.
Tallest(S) == {f \in S : \A g \in S : g.height <= f.height}

FaultyBestVideo(fs) == Size({f \in fs : \A g \in fs : f.height <= g.height}) \* the smallest picture

BestVideo(fs) == Size(Tallest(fs))

\* _real_video_size_for_height; -1 is None.
Estimate(fs, h) ==
  LET known  == {f \in fs : f.size > 0}
      videos == {f \in known : Video(f) /\ f.height <= h}
      rounds == {i \in Rounds : \E f \in videos : Round(i, f)}
      sounds == {f \in known : ~Video(f)}
      m4a    == {f \in sounds : f.sound = "m4a"}
  IN IF rounds = {} THEN -1
     ELSE BestVideo({f \in videos : Round(First(rounds), f)}) + Size(IF m4a # {} THEN m4a ELSE sounds)

\* What yt-dlp makes of _format_spec_for_option: a silent video and a sound, m4a
\* in the first three rounds; no such pair: a format that has both.
Fetched(fs, h) ==
  LET videos == {f \in fs : Video(f) /\ Silent(f) /\ f.height <= h}
      sounds(i) == {f \in fs : ~Video(f) /\ ~Silent(f) /\ (i < 4 => f.sound = "m4a")}
      rounds == {i \in Rounds : sounds(i) # {} /\ \E f \in videos : Round(i, f)}
  IN IF rounds # {}
       THEN LET i == First(rounds) IN Size(Tallest({f \in videos : Round(i, f)})) + Size(sounds(i))
       ELSE Size(Tallest({f \in fs : Video(f) /\ ~Silent(f) /\ f.height <= h}))

\* The cases in which the two agree: every size is published, video and sound
\* come apart, there is an m4a, and an H.264 or mp4 video of that height.
Ordinary(fs, h) ==
  /\ \A f \in fs : f.size > 0 /\ (Video(f) => Silent(f))
  /\ \E f \in fs : ~Video(f) /\ f.sound = "m4a"
  /\ \E f \in fs : Video(f) /\ f.height <= h /\ (f.avc \/ f.mp4)

\* _reject_if_estimate_exceeds_cap, which an unknown size does not concern.
Fits(size) == size <= MaxSize
WithinCap(fs, h) == Fits(Estimate(fs, h))

\* Whether a download that the gate lets through is over the cap, though it is an
\* ordinary one. (Others may be: without an m4a the estimate stays in its round
\* where yt-dlp goes to the fourth, though the code calls it a mirror.)
Admitted ==
  LET choices == {c \in (SUBSET Formats) \X Heights : WithinCap(c[1], c[2])}
  IN {Ordinary(c[1], c[2]) /\ ~Fits(Fetched(c[1], c[2])) : c \in choices}
=============================================================================
