--------------------------- MODULE MCHandshake ---------------------------
(* An instance of Handshake for TLC: small domains, and pairs of agents that *)
(* settle, that conflict over what may be relaxed and over what may not, that *)
(* physics keeps apart or leaves one corner, and one with a bad descriptor.  *)
EXTENDS Handshake

MCDomain == [inspection_depth |-> 0..1, latency_ms |-> 1..4, log_export |-> BOOLEAN,
             sample_rate |-> 0..2, throughput_mbps |-> 1..3, tls_version |-> {"1.2", "1.3"}]
MCCost == [d \in 0..1 |-> d]

C(d, o, v, c) == [dim |-> d, op |-> o, value |-> v, class |-> c]

TLS(vs)     == C("tls_version", "in", vs, "regulatory")
Logged      == C("log_export", "eq", TRUE, "security_baseline")
Deep        == C("inspection_depth", "ge", 1, "security_baseline")
Sampled(n)  == C("sample_rate", "ge", n, "security_baseline")
Within(n)   == C("latency_ms", "le", n, "operational")
Band(l, h)  == C("throughput_mbps", "range", <<l, h>>, "preference")

Pair(x, y, f) == [a |-> x, b |-> y, flaw |-> f]

MCProfile == {
    \* the latency budget leaves room for inspection
    Pair(<<Within(4), TLS({"1.2", "1.3"}), Band(1, 1)>>,
         <<Deep, Sampled(2), TLS({"1.3"}), Logged>>, "none"),
    \* no room: physics, not the box, leaves nothing
    Pair(<<Within(3), TLS({"1.2", "1.3"})>>, <<Deep, Sampled(2), Logged>>, "none"),
    \* two bounds on sampling conflict, and the preference goes first, in vain
    Pair(<<C("sample_rate", "le", 1, "operational"), Within(4), Band(1, 1)>>,
         <<Sampled(2), Deep, TLS({"1.3"}), Logged>>, "none"),
    \* regulation conflicts, and is never relaxed
    Pair(<<TLS({"1.2"})>>, <<TLS({"1.3"}), Logged>>, "none"),
    \* a bad descriptor
    Pair(<<Within(4)>>, <<Logged>>, "POLICY_VIOLATION"),
    Pair(<<Within(4)>>, <<Logged>>, "SCHEMA_MISMATCH") }
=============================================================================
