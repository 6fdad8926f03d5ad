-------------------------- MODULE NativeProperties --------------------------
(* What the managed lifecycle promises (docs/getting-started.md).            *)
EXTENDS NativeLifecycle

ManagerPcs == {"idle", "lock", "pid", "id", "open", "ticks", "marker", "final", "unpid", "unid",
               "spawn", "capture", "ack", "wid", "wpid", "cleanup", "waiting", "ready"} \cup Verdicts

Lives == {"unborn", "starting", "acked", "serving", "draining", "dead", "alive"}

\* The state stays within its types.
TypeOK ==
    /\ boot \in 0 .. MaxBoot
    /\ procs \in [Procs -> [life : Lives, pid : Pids \cup {None}, ticks : Ticks \cup {None}]]
    /\ parent \in [Daemons -> Managers \cup {None}]
    /\ endpoint \in Procs \cup {None}
    /\ pidfile \in Pids \cup {None}
    /\ identity \in Identities \cup {None}
    /\ lock \in Managers \cup {None}
    /\ mgr \in [Managers -> [cmd : {"none", "up", "down", "restart", "status"},
                             pc : ManagerPcs, pid : Pids \cup {None},
                             ident : Identities \cup {None},
                             handle : Procs \cup {None}]]
    /\ faults \in 0 .. MaxFaults

\* Both files name the daemon.
Recorded(d) == identity # None /\ identity.marker = d /\ pidfile = identity.pid

\* No process this runtime did not launch is ever sent a signal, whatever happens
\* between the read of a PID file, the handle and the look at the process.
OnlyOwnDaemonsAreSignalled ==
    [][\A m \in Managers : Terminate(m) => mgr[m].handle \in Daemons]_vars

\* inspect: "stopped", on which `up` launches and `down` clears the files, is never
\* said of a live daemon the files name, across crashes, failed writes and reboots.
StoppedMeansNoneIsRecorded ==
    \A m \in Managers : lock = m /\ mgr[m].pc = "stopped" =>
        \A d \in Daemons : Recorded(d) => ~Live(d)

\* A daemon not on its way out is found by the next command, or its `up` is still at
\* it, or something failed: races of commands alone never lose one.
NoDaemonIsLost ==
    faults = 0 => \A d \in Daemons : procs[d].life \in {"acked", "serving"} =>
        Recorded(d) \/ \E m \in Managers : parent[d] = m /\ lock = m

\* `up` and `down` refuse to go on only after a fault, or when a stranger has the
\* recorded number.
RefusalsHaveACause ==
    faults = 0 => \A m \in Managers : lock = m /\ mgr[m].pc = "unverified" =>
        mgr[m].handle \in Strangers

DaemonsAreAccountedFor == NoDaemonIsLost /\ RefusalsHaveACause

\* When `up` succeeds and no stranger took the address, what answered is the daemon
\* in the files, though the answer carries no identity.
UpAnswersForOurs ==
    [][\A m \in Managers : faults = 0 /\ Ready(m) =>
          endpoint \in Strangers \/ (endpoint \in Daemons /\ Recorded(endpoint))]_vars

\* Every command returns, with or without an answer of the daemon, and lets the next
\* one have the lock.
CommandsEnd == \A m \in Managers : mgr[m].pc # "idle" ~> mgr[m].pc = "idle"
=============================================================================
