------------------------------ MODULE MCIntake ------------------------------
EXTENDS Intake

MCLayers == << [name |-> "user_burst", personal |-> TRUE, limit |-> 1, window |-> 1],
               [name |-> "chat_burst", personal |-> FALSE, limit |-> 1, window |-> 2] >>

Chars == {Letter} \cup Blank
MCTexts == {t \in [1 .. 3 -> Chars] \cup [1 .. 6 -> Chars] :
              t[1] = Letter /\ t[Len(t)] = Letter}
=============================================================================
