-------------------------- MODULE MCWorkerProtocol --------------------------
(* Instance of WorkerProtocol for TLC: two entry points stand for all the  *)
(* one-shot calls, which differ only in what they do to the guest memory.  *)
EXTENDS WorkerProtocol

MCOneshots == {"ext_load_program", "ext_sbrk"}
=============================================================================
