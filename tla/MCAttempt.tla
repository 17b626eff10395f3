----------------------------- MODULE MCAttempt -----------------------------
EXTENDS Attempt

Of(h, a, m, s, n) == [height |-> h, avc |-> a, mp4 |-> m, sound |-> s, size |-> n]

MCFormats ==
  { Of(1, TRUE, TRUE, "none", 2), Of(2, TRUE, TRUE, "none", 4), Of(2, TRUE, FALSE, "none", 3),
    Of(2, FALSE, TRUE, "none", 5), Of(3, FALSE, FALSE, "none", 7),
    Of(1, TRUE, TRUE, "m4a", 3), Of(2, TRUE, TRUE, "none", 0),
    Of(0, FALSE, FALSE, "m4a", 1), Of(0, FALSE, FALSE, "other", 2) }
=============================================================================
