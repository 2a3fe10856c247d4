--------------------------- MODULE MCUdpEndpoint ---------------------------
(* Instances of UdpEndpoint. *)
EXTENDS UdpEndpoint
CONSTANTS c1, c2, k1, k2

Load(sent, forgets, fails) == [sent |-> sent, forgets |-> forgets, fails |-> fails]

\* Two requests of ours, and two of the peer's, for one place each; one each way; and one
\* of either kind and side alone, with every fault.
MCWorkloads ==
  { Load({c1, c2}, 0, FALSE), Load({k1, k2}, 0, FALSE), Load({c1, k2}, 0, FALSE),
    Load({c1}, 0, TRUE), Load({c2}, 0, TRUE), Load({k1}, 1, TRUE), Load({k2}, 1, TRUE) }
=============================================================================
