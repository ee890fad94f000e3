----------------------------- MODULE DaemonControl -----------------------------
(* The processes of the gateway daemon, their pidfile and port, and the commands   *)
(* `gateway start`, `gateway stop` and `gateway run` of people at terminals.        *)
EXTENDS Integers

CONSTANTS
    Operator,       \* terminals at which gateway commands are typed, one at a time each
    MaxProc,        \* bound on the processes
    MaxRestart,     \* bound on the restarts of a process in place
    MaxVerb         \* bound on the commands

VARIABLES
    proc,           \* each process: where run_daemon stands, and the signals it has got
    pidfile,        \* the process gateway.pid names
    op,             \* each terminal: where its command stands, the entry, the child
    typed,          \* commands and restarts so far
    alone           \* history: was no process spawned, and no pidfile taken as stale, while
                    \*          there was another process?
daemonVars == <<proc, pidfile, op, typed, alone>>

None == 0
Proc == 1 .. MaxProc
Idle == [pc |-> "idle", entry |-> None, child |-> None]

DaemonInit ==
    /\ proc = [p \in Proc |-> [pc |-> "unborn", term |-> FALSE]]
    /\ pidfile = None
    /\ op = [o \in Operator |-> Idle]
    /\ typed = [verbs |-> 0, restarts |-> 0]
    /\ alone = TRUE

\* is_alive, port_responds.
Alive(p) == proc[p].pc \notin {"unborn", "dead"}
PortOpen == \E p \in Proc : proc[p].pc = "serving"

--------------------------------------------------------------------------------
(* run_daemon.                                                                    *)

Goes(p, pc) == proc' = [proc EXCEPT ![p].pc = pc]

\* The configuration is wrong, or the runtime is there and its pid in the file: before the
\* port is.
Builds(p) ==
    /\ proc[p].pc = "building"
    /\ \/ Goes(p, "dead") /\ UNCHANGED pidfile
       \/ Goes(p, "opening") /\ pidfile' = p
    /\ UNCHANGED <<op, typed, alone>>

\* Channels are started, and uvicorn takes the port or exits.
Opens(p) ==
    /\ proc[p].pc = "opening"
    /\ Goes(p, IF PortOpen THEN "closing" ELSE "serving")
    /\ UNCHANGED <<pidfile, op, typed, alone>>

\* SIGTERM: without a handler yet the process dies, with one it leaves the port.
Terminates(p) ==
    /\ proc[p].term
    /\ \/ proc[p].pc \in {"building", "opening"} /\ Goes(p, "dead")
       \/ proc[p].pc \in {"opening", "serving"} /\ Goes(p, "closing")
    /\ UNCHANGED <<pidfile, op, typed, alone>>

\* Channels, backend and runtime are closed, and the pidfile is removed.
Closes(p) ==
    /\ proc[p].pc = "closing"
    /\ Goes(p, "dead")
    /\ pidfile' = None
    /\ UNCHANGED <<op, typed, alone>>

\* The process dies: a crash, or os._exit of the restart strategy "exit".
Dies(p) ==
    /\ Alive(p)
    /\ Goes(p, "dead")
    /\ UNCHANGED <<pidfile, op, typed, alone>>

\* perform_restart "exec": the same pid runs the program anew, the port is free meanwhile.
Restarts(p) ==
    /\ proc[p].pc = "serving" /\ typed.restarts < MaxRestart
    /\ proc' = [proc EXCEPT ![p] = [pc |-> "building", term |-> FALSE]]
    /\ typed' = [typed EXCEPT !.restarts = @ + 1]
    /\ UNCHANGED <<pidfile, op, alone>>

\* A new process.
Spawned(p) ==
    /\ proc[p].pc = "unborn" /\ \A q \in Proc : q < p => proc[q].pc # "unborn"
    /\ Goes(p, "building")
    /\ alone' = (alone /\ \A q \in Proc : ~Alive(q))

--------------------------------------------------------------------------------
(* The commands.                                                                  *)

Turns(o, pc) == op' = [op EXCEPT ![o].pc = pc]
Ends(o) == op' = [op EXCEPT ![o] = Idle]

Types(o) ==
    /\ op[o].pc = "idle" /\ typed.verbs < MaxVerb
    /\ typed' = [typed EXCEPT !.verbs = @ + 1]

\* gateway run; also what a supervisor does.
Run(o) ==
    /\ Types(o)
    /\ \E p \in Proc : Spawned(p)
    /\ UNCHANGED <<pidfile, op>>

\* gateway_status, as `gateway start` asks it: a daemon that is running is left alone, a
\* stale pidfile will be removed.
Start(o) ==
    /\ Types(o)
    /\ IF pidfile = None THEN Turns(o, "probe")
       ELSE IF Alive(pidfile) /\ PortOpen THEN UNCHANGED op
       ELSE Turns(o, "stale")
    /\ alone' = (alone /\ (pidfile # None /\ ~PortOpen => \A p \in Proc : ~Alive(p)))
    /\ UNCHANGED <<proc, pidfile>>

\* remove_pidfile, whatever it names by now.
ClearsStale(o) ==
    /\ op[o].pc = "stale"
    /\ pidfile' = None
    /\ Turns(o, "probe")
    /\ UNCHANGED <<proc, typed, alone>>

\* Nobody listens: the child is spawned.
Spawns(o) ==
    /\ op[o].pc = "probe"
    /\ IF PortOpen \/ \A p \in Proc : proc[p].pc # "unborn"
       THEN Ends(o) /\ UNCHANGED <<proc, alone>>
       ELSE \E p \in Proc : Spawned(p) /\ op' = [op EXCEPT ![o] = [Idle EXCEPT !.pc = "polling", !.child = p]]
    /\ UNCHANGED <<pidfile, typed>>

\* The child has exited, or somebody listens, or ten seconds are over.
StartEnds(o) ==
    /\ op[o].pc = "polling"
    /\ Ends(o)
    /\ UNCHANGED <<proc, pidfile, typed, alone>>

\* gateway stop: no pidfile, or one that names no process any more, or SIGTERM.
Stop(o) ==
    /\ Types(o)
    /\ pidfile # None
    /\ IF Alive(pidfile)
       THEN /\ proc' = [proc EXCEPT ![pidfile].term = TRUE]
            /\ op' = [op EXCEPT ![o] = [Idle EXCEPT !.pc = "waiting", !.entry = pidfile]]
       ELSE Turns(o, "clearing") /\ UNCHANGED proc
    /\ alone' = (alone /\ (~Alive(pidfile) => \A p \in Proc : ~Alive(p)))
    /\ UNCHANGED pidfile

\* The process is gone and nobody listens.
Stopped(o) ==
    /\ op[o].pc = "waiting"
    /\ ~Alive(op[o].entry) /\ ~PortOpen
    /\ Turns(o, "clearing")
    /\ UNCHANGED <<proc, pidfile, typed, alone>>

\* After five seconds: SIGKILL.
Kills(o) ==
    /\ op[o].pc = "waiting"
    /\ proc' = [proc EXCEPT ![op[o].entry].pc = "dead"]
    /\ Turns(o, "clearing")
    /\ UNCHANGED <<pidfile, typed, alone>>

\* remove_pidfile.
Clears(o) ==
    /\ op[o].pc = "clearing"
    /\ pidfile' = None
    /\ Ends(o)
    /\ UNCHANGED <<proc, typed, alone>>

VerbStep(o) == ClearsStale(o) \/ Spawns(o) \/ StartEnds(o) \/ Stopped(o) \/ Kills(o) \/ Clears(o)

DaemonNext ==
    \/ \E p \in Proc : \/ Builds(p) \/ Opens(p) \/ Terminates(p) \/ Closes(p)
                       \/ Dies(p) \/ Restarts(p)
    \/ \E o \in Operator : Run(o) \/ Start(o) \/ Stop(o) \/ VerbStep(o)

\* Commands have deadlines. A daemon may take as long as it likes to come up or to close.
DaemonSpec == DaemonInit /\ [][DaemonNext]_daemonVars /\ \A o \in Operator : WF_daemonVars(VerbStep(o))

--------------------------------------------------------------------------------

\* As long as nobody starts a daemon while there is another one that does not serve, and one
\* command is typed after the other, gateway.pid names the daemon that serves, restarts in
\* place and daemons that die included: status and stop find it.
ServingIsRecorded ==
    alone => \A p \in Proc : proc[p].pc = "serving" => pidfile = p

\* `gateway stop` does not wait for ever, however long the daemon would take to close, and
\* when it goes on to remove the pidfile, the process it found is gone.
StopStops ==
    /\ []<>(\A o \in Operator : op[o].pc # "waiting")
    /\ [](\A o \in Operator : op[o].pc = "clearing" /\ op[o].entry # None => ~Alive(op[o].entry))

\* gateway.pid "answers 'is a daemon running?'": where it names none, none serves.
StatusIsTrue == pidfile = None => ~PortOpen
================================================================================
