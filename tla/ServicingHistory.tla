-------------------------- MODULE ServicingHistory --------------------------
(***************************************************************************)
(* ServicingRelay with one history variable the contracts do not keep: the *)
(* moment each period was marked missed.  It lets the cure window be       *)
(* stated over the misses themselves, where the note only has the one      *)
(* timestamp firstMissedAt.                                                *)
(***************************************************************************)
EXTENDS ServicingRelay

VARIABLE missedAt   \* 0 for a period never marked missed

HInit == Init /\ missedAt = [n \in NoteIds |-> [i \in Periods |-> 0]]

HNext ==
  /\ Next
  /\ missedAt' = [n \in NoteIds |-> [i \in Periods |->
                    IF periodStatus[n][i] # "Missed" /\ periodStatus'[n][i] = "Missed"
                    THEN now ELSE missedAt[n][i]]]

HSpec == HInit /\ [][HNext]_<<vars, missedAt>>

FairHSpec == HSpec /\ Fairness

Uncured(n) == InStatus(n, {"Missed"})

(***************************************************************************)
(* The cure window is never measured from later than an outstanding miss:  *)
(* curing one period while another is missed cannot buy the other one a    *)
(* fresh window.                                                           *)
(***************************************************************************)
WindowNeverRestarts ==
  \A n \in NoteIds : \A i \in Uncured(n) :
     firstMissedAt[n] # 0 /\ firstMissedAt[n] <= missedAt[n][i]
============================================================================
