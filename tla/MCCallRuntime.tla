--------------------------- MODULE MCCallRuntime ---------------------------
(* CallRuntime for TLC: threads, legs and calls of a kind are interchangeable. *)
EXTENDS CallRuntime, TLC

CallSymmetry == Permutations(Controllers) \cup Permutations(Enders)
                  \cup Permutations(Handlers) \cup Permutations(Legs)
                  \cup Permutations(Invites) \cup Permutations(Dials)
=============================================================================
