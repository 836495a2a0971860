---------------------------- MODULE MCSelfTestTimes ---------------------------
\* No announcement, and a minute (whose pieces are shorter than the shortest poll), for either
\* type; and a long test of 22 minutes, whose usual poll (63 seconds) is longer than its last
\* and goes into it 21 times, so that polls fall everywhere in its pieces.
EXTENDS SelfTestTimes

MCTests == TestType \X {-1, 60} \cup {<<"long", 1329>>}
=============================================================================
