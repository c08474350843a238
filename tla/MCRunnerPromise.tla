-------------------------- MODULE MCRunnerPromise --------------------------
(* An instance of RunnerPromise, and so of FencedRunner, for TLC.            *)
EXTENDS RunnerPromise, TLC

CONSTANTS w1, w2

MCSymmetry == Permutations({w1, w2})

\* Two steps: the first one ends in every way, the second one succeeds or has to be retried,
\* so that a partly successful transaction is passed from one worker to the next.
MCTwoEndings == [s \in Steps |-> IF s = 1 THEN Endings ELSE {"ok", "system"}]

=============================================================================
