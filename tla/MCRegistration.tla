-------------------------- MODULE MCRegistration --------------------------
(* Registration for TLC: a few templates, address lists and Security-Server headers. *)
EXTENDS Registration

\* The UE's own address, two gateways of its family, an address of the other family.
Own  == [id |-> 1, fam |-> 6, self |-> TRUE,  score |-> 30]
GwLo == [id |-> 2, fam |-> 6, self |-> FALSE, score |-> 10]
GwHi == [id |-> 3, fam |-> 6, self |-> FALSE, score |-> 80]

Template(sec, plain, fallback, retry, strict, validate, udp, addrs) ==
  [sec |-> sec, plain |-> plain, fallback |-> fallback, retry500 |-> retry,
   strict |-> strict, validate |-> validate, udp |-> udp, addrs |-> addrs]

MCConfigs ==
  {Template("required", FALSE, FALSE, TRUE, TRUE, FALSE, FALSE, <<GwLo, GwHi>>),
   Template("required", FALSE, TRUE, FALSE, TRUE, TRUE, FALSE, <<GwLo>>),
   Template("auto", FALSE, FALSE, FALSE, FALSE, FALSE, FALSE, <<Own, GwLo, GwHi>>),
   Template("auto", FALSE, TRUE, TRUE, FALSE, TRUE, TRUE, <<GwLo>>),
   Template("auto", TRUE, FALSE, FALSE, FALSE, FALSE, FALSE, <<GwLo>>),
   Template("disabled", TRUE, FALSE, TRUE, FALSE, FALSE, FALSE, <<GwLo, GwHi>>),
   Template("disabled", TRUE, FALSE, TRUE, FALSE, FALSE, TRUE, <<GwLo>>)}

Full == [p \in ServerParams |-> 1]
Segment(q, match, params) == [q |-> q, match |-> match, params |-> params]

\* A matching offer behind a better one of another algorithm, sharing the last
\* parameters; and a header without a port.
MCServers ==
  {<<>>,
   <<Segment(2, FALSE, <<>>), Segment(1, TRUE, <<>>), Segment(1, TRUE, Full)>>,
   <<Segment(1, TRUE, [p \in {"spi-c", "spi-s"} |-> 1])>>}

MCGrants ==
  {[expires |-> 0, contacts |-> {}],
   [expires |-> 3, contacts |-> {[own |-> FALSE, expires |-> 0], [own |-> TRUE, expires |-> 2]}]}
=============================================================================
