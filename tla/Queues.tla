-------------------------------- MODULE Queues --------------------------------
(***************************************************************************)
(* What is taken out of, or left in, a queue of the actor's environment:   *)
(* libprocess' timers, the master's inverse offers.  It is a fold, and not *)
(* SelectSeq, so that FoldTheorems can say what it gives.                  *)
(***************************************************************************)
EXTENDS SequencesExt

\* What of a queue is in a set, in the order of the queue.
Among(queue, which) ==
  FoldLeft(LAMBDA part, x : IF x \in which THEN Append(part, x) ELSE part, <<>>, queue)
=============================================================================
