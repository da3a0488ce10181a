------------------------------ MODULE MCAnalytics ------------------------------
EXTENDS Analytics

\* Two endpoints, both latencies and an error at one of them.
OneHit(e, error, l) == [endpoint |-> e, error |-> error, latency |-> l]
MCSamples == {OneHit("e1", FALSE, 1), OneHit("e1", TRUE, 3), OneHit("e2", FALSE, 3)}
=============================================================================
