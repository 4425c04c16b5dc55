--------------------------- MODULE CellLifecycle ---------------------------
(***************************************************************************)
(* What the controller promises of every execution it opens: it runs, it   *)
(* collects outputs while it runs, it ends once, successfully or not, and  *)
(* from then on nothing about it changes.                                  *)
(***************************************************************************)
CONSTANTS Runs, Sources

VARIABLES status, outputs

vars == <<status, outputs>>

Init ==
  /\ status = [r \in Runs |-> "idle"]
  /\ outputs = [r \in Runs |-> {}]

Begin(r) ==
  /\ status[r] = "idle"
  /\ status' = [status EXCEPT ![r] = "running"]
  /\ UNCHANGED outputs

Output(r, s) ==
  /\ status[r] = "running"
  /\ outputs' = [outputs EXCEPT ![r] = @ \cup {s}]
  /\ UNCHANGED status

End(r, result) ==
  /\ status[r] = "running"
  /\ status' = [status EXCEPT ![r] = result]
  /\ UNCHANGED outputs

Next ==
  \E r \in Runs :
    \/ Begin(r)
    \/ \E s \in Sources : Output(r, s)
    \/ \E result \in {"ok", "failed"} : End(r, result)

Ends(r) == \E result \in {"ok", "failed"} : End(r, result)

Spec == Init /\ [][Next]_vars /\ \A r \in Runs : WF_vars(Ends(r))
=============================================================================
