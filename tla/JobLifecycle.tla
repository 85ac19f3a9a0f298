---------------------------- MODULE JobLifecycle ----------------------------
(***************************************************************************)
(* What JobService promises to whoever submits, polls and cancels jobs,    *)
(* without queue, threads, claims or restarts (the contract at the head of *)
(* jobs/service.py): items are answered one by one, each at most once; a   *)
(* job ends once it is closed and all its items are answered; cancelling   *)
(* ends it at once; a job that ended never changes again.                  *)
(***************************************************************************)
EXTENDS Naturals

CONSTANTS Jobs, MaxItems
Idx == 1..MaxItems

VARIABLES
    status,  \* [Jobs -> "absent", "active", "completed", "failed", "cancelled"]
    open,    \* [Jobs -> BOOLEAN]: further items may be appended
    answer   \* [Jobs -> [Idx -> "absent", "pending", "done", "failed", "cancelled"]]
vars == <<status, open, answer>>

Init ==
    /\ status = [j \in Jobs |-> "absent"]
    /\ open = [j \in Jobs |-> FALSE]
    /\ answer = [j \in Jobs |-> [i \in Idx |-> "absent"]]

\* The first n indexes of job j that are not used yet become pending.
Extended(j, k, n) ==
    [answer EXCEPT ![j] = [i \in Idx |-> IF i \in (k + 1)..(k + n) THEN "pending" ELSE @[i]]]
Size(j, k) == \A i \in Idx : answer[j][i] # "absent" <=> i <= k

Submit(j, n, last) ==
    /\ status[j] = "absent"
    /\ status' = [status EXCEPT ![j] = "active"]
    /\ open' = [open EXCEPT ![j] = ~last]
    /\ answer' = Extended(j, 0, n)

AppendMore(j, k, n, last) ==
    /\ status[j] = "active" /\ open[j] /\ Size(j, k)
    /\ open' = [open EXCEPT ![j] = ~last]
    /\ answer' = Extended(j, k, n)
    /\ UNCHANGED status

Answer(j, i, result) ==
    /\ status[j] = "active" /\ answer[j][i] = "pending"
    /\ answer' = [answer EXCEPT ![j][i] = result]
    /\ UNCHANGED <<status, open>>

Answered(j) == \A i \in Idx : answer[j][i] # "pending"
AllFailed(j) == /\ \E i \in Idx : answer[j][i] # "absent"
                /\ \A i \in Idx : answer[j][i] \in {"absent", "failed"}
End(j) ==
    /\ status[j] = "active" /\ ~open[j] /\ Answered(j)
    /\ status' = [status EXCEPT ![j] = IF AllFailed(j) THEN "failed" ELSE "completed"]
    /\ UNCHANGED <<open, answer>>

Cancel(j) ==
    /\ status[j] = "active"
    /\ status' = [status EXCEPT ![j] = "cancelled"]
    /\ answer' = [answer EXCEPT ![j] =
                     [i \in Idx |-> IF @[i] = "pending" THEN "cancelled" ELSE @[i]]]
    /\ UNCHANGED open

Next == \E j \in Jobs :
    \/ \E n \in 0..MaxItems, last \in BOOLEAN :
          Submit(j, n, last) \/ \E k \in 0..MaxItems : AppendMore(j, k, n, last)
    \/ \E i \in Idx : \E result \in {"done", "failed"} : Answer(j, i, result)
    \/ End(j) \/ Cancel(j)

Spec == Init /\ [][Next]_vars
=============================================================================
