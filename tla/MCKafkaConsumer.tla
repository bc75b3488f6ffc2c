--------------------------- MODULE MCKafkaConsumer ---------------------------
(* Bounded instances of KafkaConsumer. *)
EXTENDS KafkaConsumer, TLC

CONSTANTS w1, w2, p1, p2

WorkerSymmetry == Permutations(Workers)
=============================================================================
