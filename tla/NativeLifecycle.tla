--------------------------- MODULE NativeLifecycle ---------------------------
(***************************************************************************)
(* The managed native daemon on Linux: `up`, `down`, `restart` and         *)
(* `status` (src/src/native_runtime.rs) over a PID file, an identity file, *)
(* a file lock and process handles (native_process.rs).                    *)
(*                                                                         *)
(* A manager is one run of a command.  Every system call whose result may  *)
(* be stale when the next one is made is a step of its own; `status` reads *)
(* the files without the lock.  A process is a model value, so a daemon    *)
(* also stands for the random marker it was launched with, and a handle    *)
(* (pidfd) is the process itself.  Process numbers are reused as soon as   *)
(* their holder is gone and, when it is a child, reaped.                   *)
(*                                                                         *)
(* Left out: modes and owners of the files, malformed contents, the checks *)
(* of the platform and of the binary before a launch (they only refuse),   *)
(* HTTP, and the report `up` and `down` read at their end.                 *)
(* A definition marked "Slip" is the next one with a mistake in it.        *)
(***************************************************************************)
EXTENDS Integers, FiniteSets

CONSTANTS
    Managers,       \* commands that may run at the same time
    Commands,       \* what they run: "up", "down", "restart", "status"
    Daemons,        \* children `up` spawns
    Strangers,      \* all other processes
    Pids, Ticks,    \* process numbers and start times
    MaxBoot,        \* bound on the reboots
    MaxFaults,      \* bound on crashes, reboots and failed writes
    None

Procs == Daemons \cup Strangers

Identities == [pid : Pids, boot : 0 .. MaxBoot, ticks : Ticks, marker : Daemons]

ASSUME LifecycleAssumption ==
    /\ Commands \subseteq {"up", "down", "restart", "status"}
    /\ Daemons \cap Strangers = {}
    /\ None \notin Managers \cup Procs \cup Pids \cup Ticks
    /\ None \notin Identities
    /\ MaxBoot \in Nat /\ MaxFaults \in Nat

VARIABLES
    boot,       \* boot_id
    procs,      \* what the kernel knows of each process
    parent,     \* the manager that has yet to reap a daemon
    endpoint,   \* who listens on the bind address
    pidfile, identity,
    lock,       \* the manager that holds the flock
    mgr,        \* where each manager is and what it has read
    faults      \* crashes, reboots and failed writes so far

vars == <<boot, procs, parent, endpoint, pidfile, identity, lock, mgr, faults>>
files == <<pidfile, identity>>
kernel == <<boot, procs, parent, endpoint>>

Idle == [cmd |-> "none", pc |-> "idle", pid |-> None, ident |-> None, handle |-> None]

Live(p) == procs[p].life \notin {"unborn", "dead"}
HasPid(p) == Live(p) \/ (p \in Daemons /\ procs[p].life = "dead" /\ parent[p] # None)
At(n) == {p \in Procs : HasPid(p) /\ procs[p].pid = n}
Free(n) == At(n) = {}

\* Only `status` goes without the lock.
Begun(cmd) == [Idle EXCEPT !.cmd = cmd, !.pc = IF cmd = "status" THEN "pid" ELSE "lock"]

Init ==
    /\ boot = 0
    /\ procs = [p \in Procs |-> [life |-> "unborn", pid |-> None, ticks |-> None]]
    /\ parent = [d \in Daemons |-> None]
    /\ endpoint = None
    /\ pidfile \in Pids \cup {None}     \* an older version leaves no identity
    /\ identity = None
    /\ lock = None
    /\ mgr = [m \in Managers |-> Idle]
    /\ faults = 0

-----------------------------------------------------------------------------
(* Managers.                                                                 *)

Goto(m, pc) == mgr' = [mgr EXCEPT ![m].pc = pc]

Release(m) == lock' = IF lock = m THEN None ELSE lock
Orphan(m) == parent' = [d \in Daemons |-> IF parent[d] = m THEN None ELSE parent[d]]

\* The command returns, its process ends, and init reaps its child.
Return(m) ==
    /\ mgr' = [mgr EXCEPT ![m] = Idle]
    /\ Release(m)
    /\ Orphan(m)

Command(m) ==
    /\ mgr[m].pc = "idle"
    /\ \E c \in Commands : mgr' = [mgr EXCEPT ![m] = Begun(c)]
    /\ UNCHANGED <<kernel, files, lock, faults>>

\* Slip: the files are used without waiting for the lock.
AcquireSlip(m) ==
    /\ mgr[m].pc = "lock"
    /\ lock' = m
    /\ Goto(m, "pid")
    /\ UNCHANGED <<kernel, files, faults>>

Acquire(m) ==
    /\ mgr[m].pc = "lock" /\ lock = None
    /\ lock' = m
    /\ Goto(m, "pid")
    /\ UNCHANGED <<kernel, files, faults>>

\* inspect: the verdict is "stopped", "unverified" or "running".
ReadPid(m) ==
    /\ mgr[m].pc = "pid"
    /\ mgr' = [mgr EXCEPT ![m].pid = pidfile, ![m].pc = "id"]
    /\ UNCHANGED <<kernel, files, lock, faults>>

ReadIdentity(m) ==
    LET verdict == IF mgr[m].pid = None
                   THEN IF identity = None THEN "stopped" ELSE "unverified"
                   ELSE IF identity # None /\ identity.pid # mgr[m].pid THEN "unverified"
                   ELSE "open"
    IN  /\ mgr[m].pc = "id"
        /\ mgr' = [mgr EXCEPT ![m].ident = identity, ![m].pc = verdict]
        /\ UNCHANGED <<kernel, files, lock, faults>>

\* The handle is taken before the process is looked at.
OpenHandle(m) ==
    /\ mgr[m].pc = "open"
    /\ \/ /\ \A p \in At(mgr[m].pid) : ~Live(p)
          /\ Goto(m, "stopped")
       \/ \E p \in At(mgr[m].pid) :
            /\ Live(p)
            /\ mgr' = [mgr EXCEPT ![m].handle = p,
                                  ![m].pc = IF mgr[m].ident = None THEN "unverified" ELSE "ticks"]
    /\ UNCHANGED <<kernel, files, lock, faults>>

\* What is under the number need not be what the handle holds any more.
ReadTicks(m) ==
    LET same == /\ mgr[m].ident.boot = boot
                /\ \E p \in At(mgr[m].pid) : procs[p].ticks = mgr[m].ident.ticks
    IN  /\ mgr[m].pc = "ticks"
        /\ Goto(m, IF same THEN "marker" ELSE "stopped")
        /\ UNCHANGED <<kernel, files, lock, faults>>

ReadMarker(m) ==
    /\ mgr[m].pc = "marker"
    /\ \/ /\ \E p \in At(mgr[m].pid) : Live(p) /\ p = mgr[m].ident.marker
          /\ Goto(m, "final")
       \/ /\ \A p \in At(mgr[m].pid) : ~(Live(p) /\ p = mgr[m].ident.marker)
          /\ Goto(m, "stopped")
       \/ \* the environment of a stranger may be unreadable
          /\ \E p \in At(mgr[m].pid) : p \in Strangers
          /\ Goto(m, IF Live(mgr[m].handle) THEN "unverified" ELSE "stopped")
    /\ UNCHANGED <<kernel, files, lock, faults>>

\* Slip: the handle is taken by number once the process has been looked at.
CheckAgainSlip(m) ==
    /\ mgr[m].pc = "final"
    /\ \/ \E p \in At(mgr[m].pid) :
            Live(p) /\ mgr' = [mgr EXCEPT ![m].handle = p, ![m].pc = "running"]
       \/ /\ \A p \in At(mgr[m].pid) : ~Live(p)
          /\ Goto(m, "stopped")
    /\ UNCHANGED <<kernel, files, lock, faults>>

CheckAgain(m) ==
    /\ mgr[m].pc = "final"
    /\ Goto(m, IF Live(mgr[m].handle) THEN "running" ELSE "stopped")
    /\ UNCHANGED <<kernel, files, lock, faults>>

Verdicts == {"stopped", "unverified", "running"}

Report(m) ==
    /\ mgr[m].cmd = "status" /\ mgr[m].pc \in Verdicts
    /\ Return(m)
    /\ UNCHANGED <<boot, procs, endpoint, files, faults>>

Refuse(m) ==
    /\ mgr[m].cmd # "status" /\ mgr[m].pc = "unverified"
    /\ Return(m)
    /\ UNCHANGED <<boot, procs, endpoint, files, faults>>

\* ensure_bind_available gives the address back before the daemon takes it.
CheckBind(m) ==
    /\ mgr[m].cmd = "up" /\ mgr[m].pc = "stopped"
    /\ IF endpoint = None
       THEN Goto(m, "unpid") /\ UNCHANGED <<parent, lock>>
       ELSE Return(m)
    /\ UNCHANGED <<boot, procs, endpoint, files, faults>>

\* clear: the PID file first, then the identity.
Clears(m) ==
    \/ mgr[m].pc = "unpid"
    \/ mgr[m].cmd \in {"down", "restart"} /\ mgr[m].pc = "stopped"

RemovePid(m) ==
    /\ Clears(m)
    /\ pidfile' = None
    /\ Goto(m, "unid")
    /\ UNCHANGED <<kernel, identity, lock, faults>>

\* Slip: only the PID file is removed.
RemoveIdentitySlip(m) ==
    /\ mgr[m].pc = "unid"
    /\ IF mgr[m].cmd = "up"
       THEN Goto(m, "spawn") /\ UNCHANGED <<parent, lock>>
       ELSE Return(m)
    /\ UNCHANGED <<boot, procs, endpoint, files, faults>>

RemoveIdentity(m) ==
    /\ mgr[m].pc = "unid"
    /\ identity' = None
    /\ \/ mgr[m].cmd = "up" /\ Goto(m, "spawn") /\ UNCHANGED <<parent, lock>>
       \/ mgr[m].cmd = "down" /\ Return(m)
       \/ /\ mgr[m].cmd = "restart"
          /\ mgr' = [mgr EXCEPT ![m] = Begun("up")]
          /\ Release(m)
          /\ UNCHANGED parent
    /\ UNCHANGED <<boot, procs, endpoint, pidfile, faults>>

Spawn(m) ==
    /\ mgr[m].pc = "spawn"
    /\ \E d \in Daemons, n \in Pids, t \in Ticks :
         /\ procs[d].life = "unborn" /\ Free(n)
         /\ procs' = [procs EXCEPT ![d] = [life |-> "starting", pid |-> n, ticks |-> t]]
         /\ parent' = [parent EXCEPT ![d] = m]
         /\ mgr' = [mgr EXCEPT ![m].handle = d, ![m].pc = "capture"]
    /\ UNCHANGED <<boot, endpoint, files, lock, faults>>

SpawnFails(m) ==
    /\ mgr[m].pc = "spawn"
    /\ \/ \A d \in Daemons : procs[d].life # "unborn"
       \/ \A n \in Pids : ~Free(n)
    /\ Return(m)
    /\ UNCHANGED <<boot, procs, endpoint, files, faults>>

\* Nobody else can have the number of a child that is not reaped.
Capture(m) ==
    LET d == mgr[m].handle
    IN  /\ mgr[m].pc = "capture"
        /\ IF Live(d)
           THEN /\ mgr' = [mgr EXCEPT
                     ![m].ident = [pid |-> procs[d].pid, boot |-> boot,
                                   ticks |-> procs[d].ticks, marker |-> d],
                     ![m].pc = "ack"]
                /\ UNCHANGED <<parent, lock>>
           ELSE Return(m)
        /\ UNCHANGED <<boot, procs, endpoint, files, faults>>

\* The environment stays unreadable: no signal is sent to what runs there.
CaptureFails(m) ==
    /\ mgr[m].pc = "capture" /\ faults < MaxFaults
    /\ faults' = faults + 1
    /\ Return(m)
    /\ UNCHANGED <<boot, procs, endpoint, files>>

\* wait_for_startup_ack, with its three seconds.
ReceiveAck(m) ==
    /\ mgr[m].pc = "ack"
    /\ procs[mgr[m].handle].life # "starting"
    /\ Goto(m, IF Live(mgr[m].handle) THEN "wid" ELSE "cleanup")
    /\ UNCHANGED <<kernel, files, lock, faults>>

\* Slip: `up` gives up on a silent child and leaves it.
AckTimesOutSlip(m) ==
    /\ mgr[m].pc = "ack"
    /\ Return(m)
    /\ UNCHANGED <<boot, procs, endpoint, files, faults>>

AckTimesOut(m) ==
    /\ mgr[m].pc = "ack"
    /\ Goto(m, "cleanup")
    /\ UNCHANGED <<kernel, files, lock, faults>>

\* Slip: the number is written to the identity file.
WriteIdentitySlip(m) ==
    /\ mgr[m].pc = "wid"
    /\ identity' = mgr[m].ident.pid
    /\ Goto(m, "wpid")
    /\ UNCHANGED <<kernel, pidfile, lock, faults>>

WriteIdentity(m) ==
    /\ mgr[m].pc = "wid"
    /\ identity' = mgr[m].ident
    /\ Goto(m, "wpid")
    /\ UNCHANGED <<kernel, pidfile, lock, faults>>

WritePid(m) ==
    /\ mgr[m].pc = "wpid"
    /\ pidfile' = mgr[m].ident.pid
    /\ Goto(m, "ready")
    /\ UNCHANGED <<kernel, identity, lock, faults>>

WriteFails(m) ==
    /\ mgr[m].pc \in {"wid", "wpid"} /\ faults < MaxFaults
    /\ faults' = faults + 1
    /\ Goto(m, "cleanup")
    /\ UNCHANGED <<kernel, files, lock>>

RemoveFails(m) ==
    /\ (Clears(m) \/ mgr[m].pc = "unid") /\ faults < MaxFaults
    /\ faults' = faults + 1
    /\ Return(m)
    /\ UNCHANGED <<boot, procs, endpoint, files>>

\* What a SIGTERM leaves of a process: the handler of `serve` is there some time
\* after it listens, and drains; before, the signal kills.
AfterTerm(life) ==
    CASE life = "serving" -> {"draining", "dead"}
      [] life \in {"starting", "acked", "alive"} -> {"dead"}
      [] OTHER -> {life}

Hangs(p, life) ==
    /\ procs' = [procs EXCEPT ![p].life = life]
    /\ endpoint' = IF endpoint = p THEN None ELSE endpoint

Terminate(m) ==
    /\ \/ mgr[m].pc = "cleanup"
       \/ mgr[m].cmd \in {"down", "restart"} /\ mgr[m].pc = "running"
    /\ \E life \in AfterTerm(procs[mgr[m].handle].life) : Hangs(mgr[m].handle, life)
    /\ Goto(m, "waiting")
    /\ UNCHANGED <<boot, parent, files, lock, faults>>

\* Slip: no deadline.
WaitExitSlip(m) ==
    /\ mgr[m].pc = "waiting" /\ ~Live(mgr[m].handle)
    /\ IF mgr[m].cmd # "up"
       THEN Goto(m, "unpid") /\ UNCHANGED <<parent, lock>>
       ELSE Return(m)
    /\ UNCHANGED <<boot, procs, endpoint, files, faults>>

\* terminate_and_wait gives up after four seconds.
WaitExit(m) ==
    /\ mgr[m].pc = "waiting"
    /\ IF ~Live(mgr[m].handle) /\ mgr[m].cmd # "up"
       THEN Goto(m, "unpid") /\ UNCHANGED <<parent, lock>>
       ELSE Return(m)
    /\ UNCHANGED <<boot, procs, endpoint, files, faults>>

\* Slip: readiness is asked for before the files are written.
WaitsSlip(m) == mgr[m].pc = "wid" \/ (mgr[m].cmd = "up" /\ mgr[m].pc = "running")

Waits(m) == mgr[m].pc = "ready" \/ (mgr[m].cmd = "up" /\ mgr[m].pc = "running")

\* wait_for_ready asks whoever listens on the address.
Ready(m) ==
    /\ Waits(m) /\ endpoint # None
    /\ Return(m)
    /\ UNCHANGED <<boot, procs, endpoint, files, faults>>

ReadyTimesOut(m) ==
    /\ Waits(m)
    /\ Return(m)
    /\ UNCHANGED <<boot, procs, endpoint, files, faults>>

Crash(m) ==
    /\ mgr[m].pc # "idle" /\ faults < MaxFaults
    /\ faults' = faults + 1
    /\ Return(m)
    /\ UNCHANGED <<boot, procs, endpoint, files>>

-----------------------------------------------------------------------------
(* Everybody else.                                                           *)

\* The manager still holds its end of the startup socket.
Listens(d) == parent[d] # None /\ mgr[parent[d]].pc \in {"capture", "ack"}

\* acknowledge_startup; main exits when the answer cannot be sent.
Acknowledge(d) ==
    /\ procs[d].life = "starting"
    /\ procs' = [procs EXCEPT ![d].life = IF Listens(d) THEN "acked" ELSE "dead"]
    /\ UNCHANGED <<boot, parent, endpoint, files, lock, mgr, faults>>

Serve(d) ==
    /\ procs[d].life = "acked"
    /\ IF endpoint = None
       THEN procs' = [procs EXCEPT ![d].life = "serving"] /\ endpoint' = d
       ELSE procs' = [procs EXCEPT ![d].life = "dead"] /\ UNCHANGED endpoint
    /\ UNCHANGED <<boot, parent, files, lock, mgr, faults>>

Exit(p) ==
    /\ Live(p)
    /\ Hangs(p, "dead")
    /\ UNCHANGED <<boot, parent, files, lock, mgr, faults>>

StrangerStarts(s) ==
    /\ procs[s].life = "unborn"
    /\ \E n \in Pids, t \in Ticks :
         /\ Free(n)
         /\ procs' = [procs EXCEPT ![s] = [life |-> "alive", pid |-> n, ticks |-> t]]
    /\ UNCHANGED <<boot, parent, endpoint, files, lock, mgr, faults>>

StrangerListens(s) ==
    /\ procs[s].life = "alive" /\ endpoint = None
    /\ endpoint' = s
    /\ UNCHANGED <<boot, procs, parent, files, lock, mgr, faults>>

Reboot ==
    /\ boot < MaxBoot /\ faults < MaxFaults
    /\ boot' = boot + 1 /\ faults' = faults + 1
    /\ procs' = [p \in Procs |-> IF Live(p) THEN [procs[p] EXCEPT !.life = "dead"] ELSE procs[p]]
    /\ parent' = [d \in Daemons |-> None]
    /\ endpoint' = None
    /\ lock' = None
    /\ mgr' = [m \in Managers |-> Idle]
    /\ UNCHANGED <<files>>

Inspect(m) == \/ ReadPid(m) \/ ReadIdentity(m) \/ OpenHandle(m)
              \/ ReadTicks(m) \/ ReadMarker(m) \/ CheckAgain(m)

Launch(m) == \/ CheckBind(m) \/ Spawn(m) \/ SpawnFails(m) \/ Capture(m)
             \/ ReceiveAck(m) \/ AckTimesOut(m) \/ WriteIdentity(m) \/ WritePid(m)
             \/ Ready(m) \/ ReadyTimesOut(m)

Stop(m) == RemovePid(m) \/ RemoveIdentity(m) \/ Terminate(m) \/ WaitExit(m)

Step(m) == Inspect(m) \/ Report(m) \/ Refuse(m) \/ Launch(m) \/ Stop(m)

Fault(m) == CaptureFails(m) \/ WriteFails(m) \/ RemoveFails(m) \/ Crash(m)

Next ==
    \/ \E m \in Managers : Command(m) \/ Acquire(m) \/ Step(m) \/ Fault(m)
    \/ \E d \in Daemons : Acknowledge(d) \/ Serve(d)
    \/ \E p \in Procs : Exit(p)
    \/ \E s \in Strangers : StrangerStarts(s) \/ StrangerListens(s)
    \/ Reboot

Spec == Init /\ [][Next]_vars

\* A command runs on; flock serves its waiters in turn.
FairSpec == Spec /\ \A m \in Managers : WF_vars(Step(m)) /\ SF_vars(Acquire(m))
=============================================================================
