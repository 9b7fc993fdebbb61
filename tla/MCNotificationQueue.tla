------------------------- MODULE MCNotificationQueue -------------------------
(* Instances of NotificationQueue for TLC. *)
EXTENDS NotificationQueue

\* All the failures and signals while one job at most is in hand, one fewer with more.
\* It holds back Confirm, Signal and ServerFails alone, and no fairness is about them.
FaultsOrJobs ==
  faults' < MaxFault \/ \A j \in Job : j # (CHOOSE i \in Job : TRUE) => job'[j].at = "none"
=============================================================================
