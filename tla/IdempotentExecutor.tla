------------------------- MODULE IdempotentExecutor -------------------------
(***************************************************************************)
(* What janus-runner promises the server about POST /jobs/{name}/runs with *)
(* an Idempotency-Key: a key is bound to the first request recorded under  *)
(* it, and that request is executed at most once, whatever is retried and  *)
(* whatever crashes.  (Whether a bound request runs at all is not promised:*)
(* the runner may crash first.)  The promise for a key ends when the       *)
(* runner loses its record.                                                *)
(***************************************************************************)
EXTENDS Naturals

CONSTANTS Keys, Requests, NoReq

VARIABLES
    bound,      \* the request each key is bound to, or NoReq
    runs,       \* how often the request of each key was executed
    lost        \* the keys for which nothing is promised any more

Init ==
    /\ bound = [k \in Keys |-> NoReq]
    /\ runs = [k \in Keys |-> 0]
    /\ lost = {}

(* Keys are bound one at a time ... *)
Bind(k, req) ==
    /\ bound[k] = NoReq
    /\ bound' = [bound EXCEPT ![k] = req]
    /\ UNCHANGED <<runs, lost>>

(* ... and what is executed was bound before. *)
Run(k) ==
    /\ bound[k] # NoReq
    /\ runs[k] = 0
    /\ runs' = [runs EXCEPT ![k] = 1]
    /\ UNCHANGED <<bound, lost>>

(* The records of some bound keys are lost. *)
Lose(some) ==
    /\ some # {}
    /\ \A k \in some : bound[k] # NoReq
    /\ bound' = [k \in Keys |-> IF k \in some THEN NoReq ELSE bound[k]]
    /\ runs' = [k \in Keys |-> IF k \in some THEN 0 ELSE runs[k]]
    /\ lost' = lost \cup some

Next ==
    \/ \E k \in Keys \ lost : Run(k) \/ \E req \in Requests : Bind(k, req)
    \/ \E some \in SUBSET (Keys \ lost) : Lose(some)

Spec == Init /\ [][Next]_<<bound, runs, lost>>
=============================================================================
