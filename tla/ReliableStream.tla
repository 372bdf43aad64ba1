--------------------------- MODULE ReliableStream ---------------------------
(***************************************************************************)
(* What stream delivery promises: every session's events are consumed in   *)
(* the order of their numbers, each once, none before it was produced      *)
(* (docs/design.md D18, D29).                                              *)
(***************************************************************************)
EXTENDS Integers

CONSTANTS Sessions, MaxSeq

VARIABLES produced,   \* numbers of the events durably produced
          consumed    \* the last number consumed, -1 for none

Init == /\ produced = [s \in Sessions |-> {}]
        /\ consumed = [s \in Sessions |-> -1]

Produce(s) ==
  /\ \E n \in 0..(MaxSeq - 1) :
       /\ \A m \in produced[s] : m < n
       /\ produced' = [produced EXCEPT ![s] = @ \cup {n}]
  /\ UNCHANGED consumed

Consume(s) ==
  /\ consumed[s] + 1 \in produced[s]
  /\ consumed' = [consumed EXCEPT ![s] = @ + 1]
  /\ UNCHANGED produced

Next == \E s \in Sessions : Produce(s) \/ Consume(s)

Spec == Init /\ [][Next]_<<produced, consumed>>
=============================================================================
