---- MODULE MCBackendTurns ----
(* The turns of the backend.  A behaviour is about one of: turns with updates, cron jobs *)
(* and failing channel adapters, in one session; turns that are aborted, in all of them. *)
EXTENDS BackendTurns

CONSTANT OnlySession
VARIABLE about

ASSUME OnlySession \in Session

MCInit == Init /\ about \in {"updates", "aborts"}

MCCommon == (\E t \in Turn : TurnStep(t)) \/ CloseStep \/ (\E k \in Compaction : CompactStep(k))

\* To bound it, either aclose or sessions_compact is called, not both.
MCUpdates ==
    /\ about = "updates"
    /\ MCCommon \/ GuardStep
    /\ \A t \in Turn : session'[t] \in {NoSession, OnlySession}
    /\ \A k \in Compaction : compacts'[k] \in {NoSession, OnlySession}
    /\ closing' = "open" \/ (\A k \in Compaction : compaction'[k] = "uncalled")
    /\ UNCHANGED about

\* Here no adapter raises.
MCAborts ==
    /\ about = "aborts"
    /\ MCCommon \/ (\E a \in Abort : AbortStep(a))
    /\ \A t \in Turn : turn'[t] = "crashed" => turn[t] = "crashed" \/ t \in interrupted
    /\ UNCHANGED about

MCSpec == MCInit /\ [][MCUpdates \/ MCAborts]_<<vars, about>> /\ Fairness

\* A call of chat_abort or aclose returns, and has kept its word by then; and turns among
\* themselves leave no queued thinking level behind.
CallsKeepTheirWord ==
    /\ AbortReleases
    /\ EveryCallEnds
    /\ [](about = "aborts" => ClosedIsDrained /\ ThinkingNotLeftBehind)
====
