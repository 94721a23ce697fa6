------------------------------ MODULE LoanLedger ------------------------------
(***************************************************************************)
(* What the records of one loan application promise, without gateway,      *)
(* workflow or retries: the application is taken in once, one verdict is   *)
(* written for it, the application carries that verdict for good, and only *)
(* a verdict it carries is announced.                                      *)
(***************************************************************************)
VARIABLES loan, rows, announced
vars == <<loan, rows, announced>>

Verdicts == [status : {"APPROVED", "REJECTED", "ESCALATED"},
             by     : {"AI", "HUMAN", "POLICY", "SYSTEM"}]

Init == loan = "ABSENT" /\ rows = {} /\ announced = {}

Submit ==
    /\ loan = "ABSENT"
    /\ loan' = "PENDING"
    /\ UNCHANGED <<rows, announced>>

Rule ==
    /\ loan = "PENDING" /\ rows = {}
    /\ \E v \in Verdicts : rows' = {v}
    /\ UNCHANGED <<loan, announced>>

Decide ==
    /\ loan = "PENDING"
    /\ \E v \in rows : loan' = v.status
    /\ UNCHANGED <<rows, announced>>

Announce ==
    /\ loan \in {"APPROVED", "REJECTED"}
    /\ announced' = {loan}
    /\ UNCHANGED <<loan, rows>>

Next == Submit \/ Rule \/ Decide \/ Announce

Spec == Init /\ [][Next]_vars

=============================================================================
