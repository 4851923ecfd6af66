----------------------------- MODULE SandboxRpc -----------------------------
(***************************************************************************)
(* What the Linux sandbox promises its owner: a call is executed by the    *)
(* worker exactly once, with the entry point the call asked for; the owner *)
(* gets the answer of that execution and of no other; a hostcall can only  *)
(* be resumed when the previous answer was that hostcall; and a call fails *)
(* only when its worker has died.  No futex, no shared page, no sleeping.  *)
(***************************************************************************)
CONSTANTS Oneshots, GuestReplies

VARIABLES phase,     \* of the call being made
          alive,     \* whether there is a worker process
          request,   \* the call being made, or "none"
          serving,   \* the entry point the worker is executing, or "none"
          reply      \* the last answer given, or "none"

vars == <<phase, alive, request, serving, reply>>

Replies(call) == IF call \in {"sysenter", "resume"} THEN GuestReplies \cup {"ECALLI"} ELSE {"IDLE"}
EntryOf(call) == IF call = "resume" THEN "sysenter" ELSE call

Init == phase = "down" /\ alive = FALSE /\ request = "none" /\ serving = "none" /\ reply = "none"

Spawn ==
  \/ /\ phase = "down" /\ ~alive /\ alive'
     /\ UNCHANGED <<phase, request, serving, reply>>
  \/ /\ phase = "down" /\ phase' \in {"idle", "failed"}
     /\ UNCHANGED <<alive, request, serving, reply>>

Call(call) ==
  /\ phase = "idle"
  /\ call = "resume" => reply = "ECALLI"
  /\ request' = call
  /\ phase' = IF alive THEN "requested" ELSE "lost"
  /\ UNCHANGED <<alive, serving, reply>>

Execute ==
  /\ phase = "requested"
  /\ phase' = "executing" /\ serving' = EntryOf(request)
  /\ UNCHANGED <<alive, request, reply>>

Answer ==
  /\ phase = "executing"
  /\ phase' = "answered" /\ serving' = "none"
  /\ reply' \in Replies(request)
  /\ UNCHANGED <<alive, request>>

Return ==
  /\ phase = "answered"
  /\ phase' = "idle" /\ request' = "none"
  /\ UNCHANGED <<alive, serving, reply>>

Die ==
  /\ alive /\ ~alive'
  /\ phase' = IF phase \in {"requested", "executing"} THEN "lost" ELSE phase
  /\ serving' = "none"
  /\ UNCHANGED <<request, reply>>

(* A worker that answered and then died may still be reported as dead. *)
Fail ==
  /\ phase \in {"lost", "answered"} /\ ~alive
  /\ phase' = "failed" /\ reply' = "none"
  /\ UNCHANGED <<alive, request, serving>>

Drop ==
  /\ phase \in {"idle", "failed"} \/ request = "ext_recycle"
  /\ phase' = "down" /\ alive' = FALSE
  /\ request' = "none" /\ serving' = "none" /\ reply' = "none"

Next ==
  \/ Spawn \/ Execute \/ Answer \/ Return \/ Die \/ Fail \/ Drop
  \/ \E call \in Oneshots \cup {"sysenter", "resume", "ext_recycle"} : Call(call)

Spec == Init /\ [][Next]_vars
=============================================================================
