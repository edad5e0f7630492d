------------------------------ MODULE HttpBody ------------------------------
(***************************************************************************)
(* What an HTTP client may rely on, whatever produces the body: the answer *)
(* is a refusal, or it announces a length, once and before the body, of    *)
(* which no more is sent and of which all is sent if the response ends     *)
(* well.  Whoever breaks off does so visibly.                              *)
(***************************************************************************)
EXTENDS Naturals

VARIABLES
    state,       \* "asked", "refused", "open", "complete" or "aborted"
    announced,   \* the Content-Length
    sent         \* bytes of the body so far

vars == <<state, announced, sent>>

Init == state = "asked" /\ announced = 0 /\ sent = 0

Refuse == state = "asked" /\ state' = "refused" /\ UNCHANGED <<announced, sent>>

Announce ==
    /\ state = "asked"
    /\ state' = "open"
    /\ announced' \in Nat
    /\ UNCHANGED sent

Emit ==
    /\ state = "open"
    /\ sent' \in (sent + 1)..announced
    /\ UNCHANGED <<state, announced>>

Complete ==
    /\ state = "open" /\ sent = announced
    /\ state' = "complete"
    /\ UNCHANGED <<announced, sent>>

Abort == state = "open" /\ state' = "aborted" /\ UNCHANGED <<announced, sent>>

Answer == Refuse \/ Announce \/ Emit \/ Complete \/ Abort

Spec == Init /\ [][Answer]_vars

\* Every request is answered, and every answer ends.
FairSpec == Spec /\ WF_vars(Answer)
=============================================================================
