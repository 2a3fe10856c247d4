---------------------------- MODULE ServiceGate ----------------------------
(***************************************************************************)
(* What imscore.Service promises the SMS, call and fax code it lends its   *)
(* runtime to: the service opens at most once, an operation is admitted    *)
(* only while it is open, and the runtime is withdrawn only after every    *)
(* admitted operation has given it back.  Once withdrawn it never returns. *)
(***************************************************************************)
CONSTANT Operations    \* threads that borrow the runtime

VARIABLES phase,       \* "down", "up", "draining" or "closed"
          holders      \* operations that may be using the runtime

gateVars == <<phase, holders>>

GateInit == /\ phase = "down"
            /\ holders = {}

Open == /\ phase = "down"
        /\ phase' = "up"
        /\ UNCHANGED holders

Grant(o) == /\ phase = "up"
            /\ o \notin holders
            /\ holders' = holders \cup {o}
            /\ UNCHANGED phase

Return(o) == /\ o \in holders
             /\ holders' = holders \ {o}
             /\ UNCHANGED phase

Drain == /\ phase \in {"down", "up"}
         /\ phase' = "draining"
         /\ UNCHANGED holders

Withdraw == /\ phase = "draining"
            /\ holders = {}
            /\ phase' = "closed"
            /\ UNCHANGED holders

GateNext == \/ Open
            \/ Drain
            \/ Withdraw
            \/ \E o \in Operations : Grant(o) \/ Return(o)

GateSpec == GateInit /\ [][GateNext]_gateVars

=============================================================================
