---- MODULE MCGateway ----
(* What a daemon offers to those outside: its channels, the stream of its events, its      *)
(* pidfile.  None of the three touches another, so a behaviour is about one of them.       *)
EXTENDS Gateway, EventStream

CONSTANTS Operator, MaxProc, MaxRestart, MaxVerb
VARIABLES proc, pidfile, op, typed, alone, about

D == INSTANCE DaemonControl

ASSUME StreamAssumption
ASSUME {MaxProc, MaxRestart, MaxVerb} \subseteq Nat

control == <<proc, pidfile, op, typed, alone>>

MCInit ==
    /\ Init /\ StreamInit /\ D!DaemonInit
    /\ about \in {"channels", "events", "control"}
    /\ about # "events" => remote

MCChannels == about = "channels" /\ Next /\ UNCHANGED <<streamVars, control, about>>
MCEvents == about = "events" /\ StreamNext /\ UNCHANGED <<gatewayVars, control, about>>
MCControl == about = "control" /\ D!DaemonNext /\ UNCHANGED <<gatewayVars, streamVars, about>>

MCSpec ==
    /\ MCInit
    /\ [][MCChannels \/ MCEvents \/ MCControl]_<<gatewayVars, streamVars, control, about>>
    /\ Fairness
    /\ StreamFairness
    /\ \A o \in Operator : WF_control(D!VerbStep(o))

\* Live adapters are registered and on the current runtime, and gateway.pid names the daemon
\* that serves.
DaemonIsSound == AdaptersAreSound /\ D!ServingIsRecorded

\* The consumer comes to know every event or its loss, and is released by aclose.
StreamIsLive == LossIsReported /\ CloseReleases

\* Restarts of channels and the shutdown end, and `gateway stop` stops its process.
StopsStop == StopsEnd /\ D!StopStops
====
