---------------------------- MODULE MCWorkerPool ----------------------------
(* An instance of WorkerPool for TLC: a machine of three cores, two of them *)
(* hyperthreads of one another, on two CCXs.                                *)
EXTENDS WorkerPool, TLC

MCCores == 0..2
MCCcxCores == 0 :> <<0, 1>> @@ 1 :> <<2>>
MCHyperthreads == 0 :> <<1>> @@ 1 :> <<0>> @@ 2 :> <<>>
MCCcxSiblings == [c \in MCCores |-> <<>>]

Symmetry == Permutations(Threads) \cup Permutations(Workers)
=============================================================================
