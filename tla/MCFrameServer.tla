--------------------------- MODULE MCFrameServer ---------------------------
(* Two workers, two connections and two handles for TLC. *)
EXTENDS FrameServer, TLC

CONSTANTS w1, w2, c1, c2, h1, h2

MCWorkers == {w1, w2}
MCConns == {c1, c2}
MCHandles == {h1, h2}

\* Workers, connections and handles are interchangeable.
MCSymmetry == Permutations(MCWorkers) \cup Permutations(MCConns) \cup Permutations(MCHandles)
=============================================================================
