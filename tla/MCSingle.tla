------------------------------- MODULE MCSingle --------------------------------
(* A network of one node with all validators: every vote is its own.           *)
EXTENDS Consensus, TLC

CONSTANTS a, b, A, B

MCValidators == {a, b}
MCBlocks == {A, B}
MCproposer == (0 :> a) @@ (1 :> b) @@ (2 :> a)

\* The process is not stopped.
SingleNext == Next /\ UNCHANGED crashes

SingleSpec == Init /\ [][SingleNext]_vars /\ Fairness

================================================================================
