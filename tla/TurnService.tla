------------------------------- MODULE TurnService -------------------------------
(* What EmbeddedBackend promises about turns: a session has at most one of them *)
(* in flight, and a turn ends exactly once, with one of three outcomes.         *)

CONSTANTS
    Session,
    Turn,
    NoTurn,       \* the session is free
    NoSession     \* the turn has not been sent

VARIABLES
    live,       \* live[s]: the turn of session s that is in flight
    sentTo,     \* sentTo[t]: the session turn t was sent to
    outcome     \* outcome[t]: the terminal events of t seen by subscribers

serviceVars == <<live, sentTo, outcome>>

Outcome == {"done", "cancelled", "error"}

Init ==
    /\ live = [s \in Session |-> NoTurn]
    /\ sentTo = [t \in Turn |-> NoSession]
    /\ outcome = [t \in Turn |-> <<>>]

\* chat_send accepts turn t for session s.
Send(t, s) ==
    /\ sentTo[t] = NoSession
    /\ live[s] = NoTurn
    /\ live' = [live EXCEPT ![s] = t]
    /\ sentTo' = [sentTo EXCEPT ![t] = s]
    /\ UNCHANGED outcome

\* The turn ends: its terminal event is out and the session is free, at once.
End(t, o) ==
    /\ sentTo[t] # NoSession
    /\ live[sentTo[t]] = t
    /\ live' = [live EXCEPT ![sentTo[t]] = NoTurn]
    /\ outcome' = [outcome EXCEPT ![t] = <<o>>]
    /\ UNCHANGED sentTo

Next ==
    \/ \E t \in Turn, s \in Session : Send(t, s)
    \/ \E t \in Turn, o \in Outcome : End(t, o)

Spec == Init /\ [][Next]_serviceVars
================================================================================
