--------------------------- MODULE ReplayWindow ---------------------------
(***************************************************************************)
(* The anti-replay window of an inbound ESP association (ReplayWindow):    *)
(* the highest sequence number taken and a bitmap of the numbers behind    *)
(* it.  The bitmap is the set of its bits: delta d stands for highest - d. *)
(* Every operation runs under the window's mutex and is one step.          *)
(***************************************************************************)
EXTENDS Integers

CONSTANTS WindowSize,   \* w.size; the code's 64
          Word          \* bits of the bitmap's uint64

ASSUME WindowAssumption ==
  WindowSize \in Nat \ {0} /\ Word \in Nat /\ WindowSize <= Word

Windows(maxSeq) == [initialized : BOOLEAN, highest : 0..maxSeq, bitmap : SUBSET (0..(Word - 1))]

NewReplayWindow == [initialized |-> FALSE, highest |-> 0, bitmap |-> {}]

\* bitmap <<= shift; bitmap |= 1: what leaves the word is lost.
Shifted(bitmap, shift) ==
  {0} \cup {d \in 0..(Word - 1) : d - shift \in bitmap}

Behind(w, seq) == seq <= w.highest /\ w.highest - seq >= WindowSize

Seen(w, seq) == seq <= w.highest /\ w.highest - seq \in w.bitmap

\* Whether seq may be taken; the window stays as it is.
Check(w, seq) ==
  /\ seq # 0
  /\ w.initialized => ~Behind(w, seq) /\ ~Seen(w, seq)

\* The window after Accept took seq.
Take(w, seq) ==
  CASE ~w.initialized -> [initialized |-> TRUE, highest |-> seq, bitmap |-> {0}]
    [] w.initialized /\ seq > w.highest ->
         LET shift == seq - w.highest
         IN  [w EXCEPT !.highest = seq,
                       !.bitmap = IF shift >= WindowSize THEN {0} ELSE Shifted(@, shift)]
    [] OTHER -> [w EXCEPT !.bitmap = @ \cup {w.highest - seq}]

\* Accept checks again and marks: [ok, window].
Accept(w, seq) ==
  IF Check(w, seq) THEN [ok |-> TRUE, window |-> Take(w, seq)]
                   ELSE [ok |-> FALSE, window |-> w]
=============================================================================
