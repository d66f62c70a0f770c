------------------------------ MODULE MCTimeUtils ------------------------------
\* Instances of TimeUtils for TLC: the struct tm is a day and an hour, and the clock
\* moves over midnight.
EXTENDS TimeUtils

MCFields == {"day", "hour"}
MCValues == 0..2
MCTimes == {[day |-> 1, hour |-> 2], [day |-> 2, hour |-> 0], [day |-> 2, hour |-> 1]}
MCLengths == {15, 64}     \* "%Y%m%d %H%M%S", and a text without room for the terminator
================================================================================
