------------------------------ MODULE HostProofs ------------------------------
(***************************************************************************)
(* Proofs about one machine.  The runtime is of its type and signals only  *)
(* its own daemons, which rests on how processes age: a number is given    *)
(* out once at a time, and what has ended does not come back.  The managed *)
(* container is the one asked for, a restore loses no database that was    *)
(* closed, a store that is open lacks nothing; and the models keep this    *)
(* together as they do each alone.                                         *)
(***************************************************************************)
EXTENDS MCHost, WellFoundedInduction, TLAPS

Lifes == [life : Lives, pid : Pids \cup {None}, ticks : Ticks \cup {None}]
Cmds == {"none", "up", "down", "restart", "status"}
Desks == [cmd : Cmds, pc : ManagerPcs, pid : Pids \cup {None},
          ident : Identities \cup {None}, handle : Procs \cup {None}]

(* Changes of a manager's record *)

Desk(c, x, n, i, h) == [cmd |-> c, pc |-> x, pid |-> n, ident |-> i, handle |-> h]

LEMMA NewPc ==
    ASSUME NEW r \in Desks, NEW x
    PROVE  [r EXCEPT !.pc = x] = Desk(r.cmd, x, r.pid, r.ident, r.handle)
BY DEF Desks, Desk

LEMMA NewPid ==
    ASSUME NEW r \in Desks, NEW x, NEW y \in Pids \cup {None}
    PROVE  [r EXCEPT !.pid = y, !.pc = x] = Desk(r.cmd, x, y, r.ident, r.handle)
<1> DEFINE s == [r EXCEPT !.pid = y]
<1>1. s = Desk(r.cmd, r.pc, y, r.ident, r.handle)
  BY DEF Desks, Desk
<1>2. s \in Desks
  BY <1>1 DEF Desks, Desk
<1>3. [r EXCEPT !.pid = y, !.pc = x] = [s EXCEPT !.pc = x]
  OBVIOUS
<1> HIDE DEF s
<1> QED
  BY <1>1, <1>2, <1>3, NewPc DEF Desk

LEMMA NewIdent ==
    ASSUME NEW r \in Desks, NEW x, NEW y \in Identities \cup {None}
    PROVE  [r EXCEPT !.ident = y, !.pc = x] = Desk(r.cmd, x, r.pid, y, r.handle)
<1> DEFINE s == [r EXCEPT !.ident = y]
<1>1. s = Desk(r.cmd, r.pc, r.pid, y, r.handle)
  BY DEF Desks, Desk
<1>2. s \in Desks
  BY <1>1 DEF Desks, Desk
<1>3. [r EXCEPT !.ident = y, !.pc = x] = [s EXCEPT !.pc = x]
  OBVIOUS
<1> HIDE DEF s
<1> QED
  BY <1>1, <1>2, <1>3, NewPc DEF Desk

LEMMA NewHandle ==
    ASSUME NEW r \in Desks, NEW x, NEW y \in Procs \cup {None}
    PROVE  [r EXCEPT !.handle = y, !.pc = x] = Desk(r.cmd, x, r.pid, r.ident, y)
<1> DEFINE s == [r EXCEPT !.handle = y]
<1>1. s = Desk(r.cmd, r.pc, r.pid, r.ident, y)
  BY DEF Desks, Desk
<1>2. s \in Desks
  BY <1>1 DEF Desks, Desk
<1>3. [r EXCEPT !.handle = y, !.pc = x] = [s EXCEPT !.pc = x]
  OBVIOUS
<1> HIDE DEF s
<1> QED
  BY <1>1, <1>2, <1>3, NewPc DEF Desk

LEMMA NewCommand ==
    ASSUME NEW c \in Cmds
    PROVE  Begun(c) = Desk(c, IF c = "status" THEN "pid" ELSE "lock", None, None, None)
<1> DEFINE s == [Idle EXCEPT !.cmd = c]
           x == IF c = "status" THEN "pid" ELSE "lock"
<1>1. s = Desk(c, "idle", None, None, None)
  BY DEF Idle, Desk
<1>2. s \in Desks
  BY <1>1 DEF Desks, Desk, ManagerPcs
<1>3. Begun(c) = [s EXCEPT !.pc = x]
  BY DEF Begun
<1> HIDE DEF s, x
<1>4. Begun(c) = Desk(c, x, None, None, None)
  BY <1>1, <1>2, <1>3, NewPc DEF Desk
<1> QED
  BY <1>4 DEF x

\* The record of m becomes r, and no other.
Turns(m, r) == mgr' = [mgr EXCEPT ![m] = r]

LEMMA TurnsOne ==
    ASSUME mgr \in [Managers -> Desks], NEW m \in Managers, NEW r, Turns(m, r)
    PROVE  /\ mgr'[m] = r
           /\ \A k \in Managers : k # m => mgr'[k] = mgr[k]
           /\ r \in Desks => mgr' \in [Managers -> Desks]
BY DEF Turns

LEMMA GotoTurns ==
    ASSUME mgr \in [Managers -> Desks], NEW m \in Managers, NEW x, Goto(m, x)
    PROVE  Turns(m, Desk(mgr[m].cmd, x, mgr[m].pid, mgr[m].ident, mgr[m].handle))
<1>1. mgr' = [mgr EXCEPT ![m] = [mgr[m] EXCEPT !.pc = x]]
  BY DEF Goto
<1>2. mgr[m] \in Desks
  OBVIOUS
<1> QED
  BY <1>1, <1>2, NewPc DEF Turns

\* Only m's record changes, and it is this.
Becomes(m, c, x, n, i, h) ==
    /\ mgr'[m].cmd = c /\ mgr'[m].pc = x
    /\ mgr'[m].pid = n /\ mgr'[m].ident = i /\ mgr'[m].handle = h
    /\ \A k \in Managers : k # m => mgr'[k] = mgr[k]
    /\ Desk(c, x, n, i, h) \in Desks => mgr' \in [Managers -> Desks]

LEMMA TurnsBecomes ==
    ASSUME mgr \in [Managers -> Desks], NEW m \in Managers,
           NEW c, NEW x, NEW n, NEW i, NEW h, Turns(m, Desk(c, x, n, i, h))
    PROVE  Becomes(m, c, x, n, i, h)
BY TurnsOne DEF Becomes, Desk

LEMMA GotoBecomes ==
    ASSUME mgr \in [Managers -> Desks], NEW m \in Managers, NEW x, Goto(m, x)
    PROVE  Becomes(m, mgr[m].cmd, x, mgr[m].pid, mgr[m].ident, mgr[m].handle)
BY GotoTurns, TurnsBecomes

LEMMA ReturnBecomes ==
    ASSUME mgr \in [Managers -> Desks], NEW m \in Managers, Return(m)
    PROVE  Becomes(m, "none", "idle", None, None, None)
<1>1. Turns(m, Desk("none", "idle", None, None, None))
  BY DEF Return, Turns, Idle, Desk
<1> QED
  BY <1>1, TurnsBecomes

LEMMA BeginBecomes ==
    ASSUME mgr \in [Managers -> Desks], NEW m \in Managers, NEW c \in Cmds,
           mgr' = [mgr EXCEPT ![m] = Begun(c)]
    PROVE  Becomes(m, c, IF c = "status" THEN "pid" ELSE "lock", None, None, None)
BY NewCommand, TurnsBecomes DEF Turns

LEMMA PidBecomes ==
    ASSUME mgr \in [Managers -> Desks], NEW m \in Managers, NEW x, NEW y \in Pids \cup {None},
           mgr' = [mgr EXCEPT ![m].pid = y, ![m].pc = x]
    PROVE  Becomes(m, mgr[m].cmd, x, y, mgr[m].ident, mgr[m].handle)
<1>1. mgr' = [mgr EXCEPT ![m] = [mgr[m] EXCEPT !.pid = y, !.pc = x]]
  OBVIOUS
<1>2. mgr[m] \in Desks
  OBVIOUS
<1> QED
  BY <1>1, <1>2, NewPid, TurnsBecomes DEF Turns

LEMMA IdentBecomes ==
    ASSUME mgr \in [Managers -> Desks], NEW m \in Managers, NEW x,
           NEW y \in Identities \cup {None},
           mgr' = [mgr EXCEPT ![m].ident = y, ![m].pc = x]
    PROVE  Becomes(m, mgr[m].cmd, x, mgr[m].pid, y, mgr[m].handle)
<1>1. mgr' = [mgr EXCEPT ![m] = [mgr[m] EXCEPT !.ident = y, !.pc = x]]
  OBVIOUS
<1>2. mgr[m] \in Desks
  OBVIOUS
<1> QED
  BY <1>1, <1>2, NewIdent, TurnsBecomes DEF Turns

LEMMA HandleBecomes ==
    ASSUME mgr \in [Managers -> Desks], NEW m \in Managers, NEW x, NEW y \in Procs \cup {None},
           mgr' = [mgr EXCEPT ![m].handle = y, ![m].pc = x]
    PROVE  Becomes(m, mgr[m].cmd, x, mgr[m].pid, mgr[m].ident, y)
<1>1. mgr' = [mgr EXCEPT ![m] = [mgr[m] EXCEPT !.handle = y, !.pc = x]]
  OBVIOUS
<1>2. mgr[m] \in Desks
  OBVIOUS
<1> QED
  BY ZenonT(30), <1>1, <1>2, NewHandle, TurnsBecomes DEF Turns
-----------------------------------------------------------------------------
(* Steps of managers that leave the processes alone *)

Quiet(m) ==
    \/ Command(m) \/ Acquire(m) \/ Inspect(m) \/ Report(m) \/ Refuse(m) \/ CheckBind(m)
    \/ SpawnFails(m) \/ Capture(m) \/ ReceiveAck(m) \/ AckTimesOut(m)
    \/ WriteIdentity(m) \/ WritePid(m) \/ Ready(m) \/ ReadyTimesOut(m)
    \/ RemovePid(m) \/ RemoveIdentity(m) \/ WaitExit(m) \/ Fault(m)

LEMMA QuietIsQuiet ==
    ASSUME NEW m \in Managers, Quiet(m)
    PROVE  /\ UNCHANGED <<boot, procs, endpoint>>
           /\ UNCHANGED parent \/ Orphan(m)
<1>1. CASE Command(m) \/ Acquire(m) \/ Inspect(m)
  <2>1. CASE Command(m) \/ Acquire(m) \/ ReadPid(m) \/ CheckAgain(m)
    BY <2>1 DEF Command, Acquire, ReadPid, CheckAgain, kernel
  <2>2. CASE ReadIdentity(m) \/ ReadTicks(m)
    BY <2>2 DEF ReadIdentity, ReadTicks, kernel
  <2>3. CASE OpenHandle(m) \/ ReadMarker(m)
    BY <2>3 DEF OpenHandle, ReadMarker, kernel
  <2> QED
    BY <1>1, <2>1, <2>2, <2>3 DEF Inspect
<1>2. CASE Report(m) \/ Refuse(m) \/ CheckBind(m) \/ SpawnFails(m) \/ Capture(m)
  BY <1>2 DEF Report, Refuse, CheckBind, SpawnFails, Capture, Return
<1>3. CASE ReceiveAck(m) \/ AckTimesOut(m) \/ WriteIdentity(m) \/ WritePid(m) \/ RemovePid(m)
  BY <1>3 DEF ReceiveAck, AckTimesOut, WriteIdentity, WritePid, RemovePid, kernel
<1>4. CASE Ready(m) \/ ReadyTimesOut(m) \/ RemoveIdentity(m) \/ WaitExit(m) \/ Fault(m)
  <2>1. CASE RemoveIdentity(m)
    BY <2>1 DEF RemoveIdentity, Return
  <2>2. CASE Ready(m) \/ ReadyTimesOut(m) \/ WaitExit(m)
    BY <2>2 DEF Ready, ReadyTimesOut, WaitExit, Return, kernel
  <2>3. CASE WriteFails(m)
    BY <2>3 DEF WriteFails, kernel
  <2>4. CASE CaptureFails(m) \/ RemoveFails(m) \/ Crash(m)
    BY <2>4 DEF CaptureFails, RemoveFails, Crash, Return
  <2> QED
    BY <1>4, <2>1, <2>2, <2>3, <2>4 DEF Fault
<1> QED
  BY <1>1, <1>2, <1>3, <1>4 DEF Quiet

LEMMA NextIs ==
    ASSUME Next
    PROVE  \/ \E m \in Managers : Quiet(m) \/ Spawn(m) \/ Terminate(m)
           \/ \E d \in Daemons : Acknowledge(d) \/ Serve(d)
           \/ \E p \in Procs : Exit(p)
           \/ \E s \in Strangers : StrangerStarts(s) \/ StrangerListens(s)
           \/ Reboot
BY DEF Next, Quiet, Step, Launch, Stop
-----------------------------------------------------------------------------
(* How processes age *)

Aged(p) ==
    /\ procs'[p].pid = procs[p].pid /\ procs'[p].ticks = procs[p].ticks
    /\ procs'[p].life # "unborn"
    /\ procs[p].life = "dead" => procs'[p].life = "dead"
    /\ p \in Daemons /\ parent'[p] # None => parent'[p] = parent[p]

Aging == \A p \in Procs : procs[p].life # "unborn" => Aged(p)

LEMMA OrphanKeeps ==
    ASSUME NEW m \in Managers, Orphan(m), NEW d \in Daemons, parent'[d] # None
    PROVE  parent'[d] = parent[d]
BY DEF Orphan

LEMMA QuietAges ==
    ASSUME NEW m \in Managers, Quiet(m)
    PROVE  Aging
BY QuietIsQuiet, OrphanKeeps DEF Aging, Aged

LEMMA HangsAges ==
    ASSUME procs \in [Procs -> Lifes], NEW p \in Procs, NEW life, Hangs(p, life),
           procs[p].life # "unborn" => life # "unborn",
           procs[p].life = "dead" => life = "dead", UNCHANGED parent
    PROVE  Aging
BY DEF Hangs, Aging, Aged, Lifes

LEMMA NextAges ==
    ASSUME TypeOK, Next,
           \A m \in Managers : Terminate(m) => mgr[m].handle \in Procs
    PROVE  Aging
<1>0. procs \in [Procs -> Lifes]
  BY DEF TypeOK, Lifes
<1>1. ASSUME NEW m \in Managers, Quiet(m) PROVE Aging
  BY <1>1, QuietAges
<1>2. ASSUME NEW m \in Managers, Spawn(m) PROVE Aging
  BY <1>0, <1>2 DEF Spawn, Aging, Aged, Procs, TypeOK
<1>3. ASSUME NEW m \in Managers, Terminate(m) PROVE Aging
  <2>1. PICK life \in AfterTerm(procs[mgr[m].handle].life) : Hangs(mgr[m].handle, life)
    BY <1>3 DEF Terminate
  <2>2. /\ procs[mgr[m].handle].life # "unborn" => life # "unborn"
        /\ procs[mgr[m].handle].life = "dead" => life = "dead"
    BY <2>1 DEF AfterTerm
  <2> QED
    BY <1>0, <1>3, <2>1, <2>2, HangsAges DEF Terminate
<1>4. ASSUME NEW d \in Daemons, Acknowledge(d) \/ Serve(d) PROVE Aging
  BY <1>0, <1>4 DEF Acknowledge, Serve, Aging, Aged, Procs, Lifes
<1>5. ASSUME NEW p \in Procs, Exit(p) PROVE Aging
  BY <1>0, <1>5, HangsAges DEF Exit
<1>6. ASSUME NEW s \in Strangers, StrangerStarts(s) \/ StrangerListens(s) PROVE Aging
  BY <1>0, <1>6 DEF StrangerStarts, StrangerListens, Aging, Aged, Procs
<1>7. CASE Reboot
  BY <1>0, <1>7 DEF Reboot, Aging, Aged, Live, Lifes
<1> QED
  BY <1>1, <1>2, <1>3, <1>4, <1>5, <1>6, <1>7, NextIs
-----------------------------------------------------------------------------
(* The inductive invariant *)

\* A process has a number and a start time.
Born == \A p \in Procs : procs[p].life # "unborn" => procs[p].pid \in Pids /\ procs[p].ticks \in Ticks

\* No number has two holders.
Distinct == \A p, q \in Procs : HasPid(p) /\ HasPid(q) /\ procs[p].pid = procs[q].pid => p = q

\* What m has read at each point, and that its handle, while the process lives, is
\* the process it looks at.
Fits(m) ==
    LET r == mgr[m]
    IN  /\ r.pc \in {"open", "ticks", "marker", "final"} => r.pid \in Pids
        /\ r.pc \in {"ticks", "marker", "final", "ack", "wid", "wpid"} => r.ident \in Identities
        /\ r.pc \in {"ticks", "marker", "final"} =>
              r.handle \in Procs /\ procs[r.handle].life # "unborn"
        /\ r.pc \in {"capture", "ack", "wid", "wpid", "cleanup", "running", "waiting"} =>
              r.handle \in Daemons /\ procs[r.handle].life # "unborn"
        /\ r.pc \in {"ticks", "marker"} /\ Live(r.handle) => procs[r.handle].pid = r.pid
        /\ r.pc = "final" /\ Live(r.handle) => r.handle = r.ident.marker

Sound == TypeOK /\ Born /\ Distinct /\ \A m \in Managers : Fits(m)

Typed == mgr \in [Managers -> Desks]

LEMMA SoundTyped ==
    ASSUME Sound
    PROVE  /\ Typed
           /\ procs \in [Procs -> Lifes]
           /\ \A m \in Managers : mgr[m] \in Desks
BY DEF Sound, Typed, TypeOK, Desks, Cmds, Lifes

Fine(m) == Typed' /\ Fits(m)' /\ \A k \in Managers : k # m => mgr'[k] = mgr[k]

LEMMA ReturnFine ==
    ASSUME Sound, NEW m \in Managers, Return(m)
    PROVE  Fine(m)
BY SoundTyped, ReturnBecomes DEF Becomes, Fine, Fits, Typed, Desks, Desk, Cmds, ManagerPcs

LEMMA CommandFine ==
    ASSUME Sound, NEW m \in Managers, Command(m)
    PROVE  Fine(m)
<1>1. PICK c \in Cmds : mgr' = [mgr EXCEPT ![m] = Begun(c)]
  BY LifecycleAssumption DEF Command, Cmds
<1>2. Becomes(m, c, IF c = "status" THEN "pid" ELSE "lock", None, None, None)
  BY <1>1, SoundTyped, BeginBecomes DEF Typed
<1> QED
  BY <1>2 DEF Becomes, Fine, Fits, Typed, Desks, Desk, ManagerPcs

LEMMA InspectFine ==
    ASSUME Sound, NEW m \in Managers, Inspect(m)
    PROVE  Fine(m)
<1> USE SoundTyped
<1>0. UNCHANGED <<boot, procs, endpoint>>
  BY QuietIsQuiet DEF Quiet
<1>1. CASE ReadPid(m)
  <2>1. Becomes(m, mgr[m].cmd, "id", pidfile, mgr[m].ident, mgr[m].handle)
    BY <1>1, PidBecomes DEF ReadPid, Typed, Sound, TypeOK
  <2> QED
    BY <2>1 DEF Becomes, Fine, Fits, Typed, Desks, Desk, ManagerPcs, Sound, TypeOK
<1>2. CASE ReadIdentity(m)
  <2>1. PICK x \in {"stopped", "unverified", "open"} :
          /\ mgr' = [mgr EXCEPT ![m].ident = identity, ![m].pc = x]
          /\ x = "open" => mgr[m].pid # None
    BY <1>2 DEF ReadIdentity
  <2>2. Becomes(m, mgr[m].cmd, x, mgr[m].pid, identity, mgr[m].handle)
    BY <2>1, IdentBecomes DEF Typed, Sound, TypeOK
  <2>3. mgr[m].pid \in Pids \cup {None}
    BY DEF Desks
  <2> QED
    BY <2>1, <2>2, <2>3 DEF Becomes, Fine, Fits, Typed, Desks, Desk, ManagerPcs, Verdicts, Sound, TypeOK
<1>3. CASE OpenHandle(m)
  <2>1. CASE Goto(m, "stopped")
    BY <2>1, GotoBecomes DEF Becomes, Fine, Fits, Typed, Desks, Desk, ManagerPcs, Verdicts
  <2>2. ASSUME NEW p \in At(mgr[m].pid), Live(p),
               mgr' = [mgr EXCEPT ![m].handle = p,
                                  ![m].pc = IF mgr[m].ident = None THEN "unverified" ELSE "ticks"]
        PROVE  Fine(m)
    <3>1. p \in Procs /\ procs[p].pid = mgr[m].pid /\ procs[p].life # "unborn"
      BY <2>2 DEF At, Live
    <3>2. Becomes(m, mgr[m].cmd, IF mgr[m].ident = None THEN "unverified" ELSE "ticks",
                  mgr[m].pid, mgr[m].ident, p)
      BY <2>2, <3>1, HandleBecomes DEF Typed
    <3>3. mgr[m].pid \in Pids /\ mgr[m].ident \in Identities \cup {None}
      BY <1>3 DEF OpenHandle, Sound, Fits, Desks
    <3> QED
      BY <1>0, <3>1, <3>2, <3>3 DEF Becomes, Fine, Fits, Typed, Desks, Desk, ManagerPcs, Verdicts
  <2> QED
    BY <1>3, <2>1, <2>2 DEF OpenHandle
<1>4. CASE ReadTicks(m)
  <2>1. PICK x \in {"stopped", "marker"} : Goto(m, x)
    BY <1>4 DEF ReadTicks
  <2>2. Becomes(m, mgr[m].cmd, x, mgr[m].pid, mgr[m].ident, mgr[m].handle)
    BY <2>1, GotoBecomes DEF Typed
  <2>3. Fits(m) /\ mgr[m].pc = "ticks"
    BY <1>4 DEF ReadTicks, Sound
  <2> QED
    BY <1>0, <2>2, <2>3 DEF Becomes, Fine, Fits, Live, Typed, Desks, Desk, ManagerPcs, Verdicts
<1>5. CASE ReadMarker(m)
  <2>0. Fits(m) /\ mgr[m].pc = "marker"
    BY <1>5 DEF ReadMarker, Sound
  <2>1. CASE Goto(m, "final") /\ \E p \in At(mgr[m].pid) : Live(p) /\ p = mgr[m].ident.marker
    <3>1. Becomes(m, mgr[m].cmd, "final", mgr[m].pid, mgr[m].ident, mgr[m].handle)
      BY <2>1, GotoBecomes DEF Typed
    <3>2. Live(mgr[m].handle) => mgr[m].handle = mgr[m].ident.marker
      BY <2>0, <2>1 DEF Fits, At, HasPid, Sound, Distinct
    <3> QED
      BY <1>0, <2>0, <3>1, <3>2 DEF Becomes, Fine, Fits, Live, Typed, Desks, Desk, ManagerPcs, Verdicts
  <2>2. CASE \E x \in {"stopped", "unverified"} : Goto(m, x)
    BY <2>2, GotoBecomes DEF Becomes, Fine, Fits, Typed, Desks, Desk, ManagerPcs, Verdicts
  <2> QED
    BY <1>5, <2>1, <2>2 DEF ReadMarker
<1>6. CASE CheckAgain(m)
  <2>0. Fits(m) /\ mgr[m].pc = "final"
    BY <1>6 DEF CheckAgain, Sound
  <2>1. CASE Goto(m, "running") /\ Live(mgr[m].handle)
    <3>1. Becomes(m, mgr[m].cmd, "running", mgr[m].pid, mgr[m].ident, mgr[m].handle)
      BY <2>1, GotoBecomes DEF Typed
    <3>2. mgr[m].handle \in Daemons
      BY <2>0, <2>1 DEF Fits, Identities
    <3> QED
      BY <1>0, <2>0, <3>1, <3>2 DEF Becomes, Fine, Fits, Live, Typed, Desks, Desk, ManagerPcs, Verdicts
  <2>2. CASE Goto(m, "stopped")
    BY <2>2, GotoBecomes DEF Becomes, Fine, Fits, Typed, Desks, Desk, ManagerPcs, Verdicts
  <2> QED
    BY <1>6, <2>1, <2>2 DEF CheckAgain
<1> QED
  BY <1>1, <1>2, <1>3, <1>4, <1>5, <1>6 DEF Inspect

\* A step to x keeps what is known at x.
LEMMA GotoFine ==
    ASSUME Sound, NEW m \in Managers, NEW x, Goto(m, x), UNCHANGED <<boot, procs>>,
           \/ x \in {"pid", "stopped", "unpid", "unid", "spawn", "wpid", "ready", "lock"}
                /\ (x = "wpid" => mgr[m].pc = "wid")
           \/ x = "cleanup" /\ mgr[m].pc \in {"ack", "wid", "wpid"}
           \/ x = "wid" /\ mgr[m].pc = "ack"
    PROVE  Fine(m)
<1>1. Becomes(m, mgr[m].cmd, x, mgr[m].pid, mgr[m].ident, mgr[m].handle)
  BY SoundTyped, GotoBecomes DEF Typed
<1>2. Fits(m) /\ mgr[m] \in Desks
  BY SoundTyped DEF Sound
<1> QED
  BY <1>1, <1>2 DEF Becomes, Fine, Fits, Live, Typed, Desks, Desk, ManagerPcs, Verdicts

LEMMA QuietFine ==
    ASSUME Sound, NEW m \in Managers, Quiet(m)
    PROVE  Fine(m)
<1>0. UNCHANGED <<boot, procs, endpoint>>
  BY QuietIsQuiet
<1>1. CASE Command(m) \/ Inspect(m)
  BY <1>1, CommandFine, InspectFine
<1>2. CASE Return(m)
  BY <1>2, ReturnFine
<1>3. CASE Acquire(m) \/ WriteIdentity(m) \/ WritePid(m) \/ AckTimesOut(m) \/ WriteFails(m)
           \/ RemovePid(m) \/ ReceiveAck(m)
  <2>1. CASE Acquire(m)
    BY <1>0, <2>1, GotoFine DEF Acquire
  <2>2. CASE WriteIdentity(m)
    BY <1>0, <2>2, GotoFine DEF WriteIdentity
  <2>3. CASE WritePid(m)
    BY <1>0, <2>3, GotoFine DEF WritePid
  <2>4. CASE AckTimesOut(m)
    BY <1>0, <2>4, GotoFine DEF AckTimesOut
  <2>5. CASE WriteFails(m)
    BY <1>0, <2>5, GotoFine DEF WriteFails
  <2>6. CASE RemovePid(m)
    BY <1>0, <2>6, GotoFine DEF RemovePid
  <2>7. CASE ReceiveAck(m)
    BY <1>0, <2>7, GotoFine DEF ReceiveAck
  <2> QED
    BY <1>3, <2>1, <2>2, <2>3, <2>4, <2>5, <2>6, <2>7
<1>4. CASE CheckBind(m)
  BY <1>0, <1>2, <1>4, GotoFine DEF CheckBind
<1>5. CASE WaitExit(m)
  BY <1>0, <1>2, <1>5, GotoFine DEF WaitExit
<1>6. CASE RemoveIdentity(m)
  <2>1. CASE Goto(m, "spawn")
    BY <1>0, <2>1, GotoFine
  <2>2. CASE mgr' = [mgr EXCEPT ![m] = Begun("up")]
    <3>1. Becomes(m, "up", "lock", None, None, None)
      BY <2>2, SoundTyped, BeginBecomes DEF Typed, Cmds
    <3> QED
      BY <3>1 DEF Becomes, Fine, Fits, Typed, Desks, Desk, Cmds, ManagerPcs
  <2> QED
    BY <1>2, <1>6, <2>1, <2>2 DEF RemoveIdentity
<1>7. CASE Capture(m)
  <2>1. CASE Live(mgr[m].handle)
    <3> DEFINE d == mgr[m].handle
               i == [pid |-> procs[d].pid, boot |-> boot, ticks |-> procs[d].ticks, marker |-> d]
    <3>1. d \in Daemons /\ procs[d].life # "unborn"
      BY <1>7 DEF Capture, Sound, Fits
    <3>2. i \in Identities
      BY <3>1 DEF Sound, Born, TypeOK, Identities, Procs
    <3>3. mgr' = [mgr EXCEPT ![m].ident = i, ![m].pc = "ack"]
      BY <1>7, <2>1 DEF Capture
    <3> HIDE DEF i
    <3>4. Becomes(m, mgr[m].cmd, "ack", mgr[m].pid, i, mgr[m].handle)
      BY <3>2, <3>3, SoundTyped, IdentBecomes DEF Typed
    <3>5. mgr[m] \in Desks
      BY SoundTyped
    <3> QED
      BY <1>0, <3>1, <3>2, <3>4, <3>5 DEF Becomes, Fine, Fits, Typed, Desks, Desk, ManagerPcs
  <2> QED
    BY <1>2, <1>7, <2>1 DEF Capture
<1>8. CASE Report(m) \/ Refuse(m) \/ SpawnFails(m) \/ Ready(m) \/ ReadyTimesOut(m)
  BY <1>2, <1>8 DEF Report, Refuse, SpawnFails, Ready, ReadyTimesOut
<1>9. CASE CaptureFails(m) \/ RemoveFails(m) \/ Crash(m)
  BY <1>2, <1>9 DEF CaptureFails, RemoveFails, Crash
<1> QED
  BY <1>1, <1>3, <1>4, <1>5, <1>6, <1>7, <1>8, <1>9 DEF Quiet, Fault

LEMMA SpawnFine ==
    ASSUME Sound, NEW m \in Managers, Spawn(m)
    PROVE  Fine(m)
<1>1. PICK d \in Daemons, n \in Pids, t \in Ticks :
        /\ procs' = [procs EXCEPT ![d] = [life |-> "starting", pid |-> n, ticks |-> t]]
        /\ mgr' = [mgr EXCEPT ![m].handle = d, ![m].pc = "capture"]
  BY DEF Spawn
<1>2. Becomes(m, mgr[m].cmd, "capture", mgr[m].pid, mgr[m].ident, d)
  BY <1>1, SoundTyped, HandleBecomes DEF Typed, Procs
<1>3. mgr[m] \in Desks /\ procs'[d].life = "starting"
  BY <1>1, SoundTyped DEF Procs
<1> QED
  BY <1>2, <1>3 DEF Becomes, Fine, Fits, Typed, Desks, Desk, ManagerPcs, Procs

LEMMA TerminateFine ==
    ASSUME Sound, NEW m \in Managers, Terminate(m), Aging
    PROVE  Fine(m)
<1>1. Becomes(m, mgr[m].cmd, "waiting", mgr[m].pid, mgr[m].ident, mgr[m].handle)
  BY SoundTyped, GotoBecomes DEF Terminate, Typed
<1>2. mgr[m] \in Desks /\ mgr[m].handle \in Daemons /\ procs[mgr[m].handle].life # "unborn"
  BY SoundTyped DEF Sound, Fits, Terminate
<1>3. procs'[mgr[m].handle].life # "unborn"
  BY <1>2 DEF Aging, Aged, Procs
<1> QED
  BY <1>1, <1>2, <1>3 DEF Becomes, Fine, Fits, Typed, Desks, Desk, ManagerPcs

\* Who did not move still fits, however the processes have aged.
LEMMA OthersFit ==
    ASSUME Sound, Aging, NEW k \in Managers, mgr'[k] = mgr[k]
    PROVE  Fits(k)'
<1>1. Fits(k) /\ mgr[k] \in Desks
  BY SoundTyped DEF Sound
<1>2. ASSUME NEW p \in Procs, procs[p].life # "unborn"
      PROVE  /\ procs'[p].life # "unborn"
             /\ procs'[p].pid = procs[p].pid
             /\ Live(p)' => Live(p)
  BY <1>2 DEF Aging, Aged, Live
<1> QED
  BY <1>1, <1>2 DEF Fits, Procs, Live

LEMMA DistinctStays ==
    ASSUME Distinct, Aging,
           \/ \A p \in Procs : procs[p].life = "unborn" => procs'[p].life = "unborn"
           \/ \E p \in Procs : /\ Free(procs'[p].pid) /\ procs[p].life = "unborn"
                               /\ \A q \in Procs : q # p => procs'[q] = procs[q]
    PROVE  Distinct'
<1>1. ASSUME NEW p \in Procs, procs[p].life # "unborn", HasPid(p)'
      PROVE  HasPid(p) /\ procs'[p].pid = procs[p].pid
  BY <1>1 DEF Aging, Aged, HasPid, Live
<1>2. ASSUME NEW p \in Procs, procs'[p].life = "unborn"
      PROVE  ~HasPid(p)'
  BY <1>2 DEF HasPid, Live
<1>3. CASE \A p \in Procs : procs[p].life = "unborn" => procs'[p].life = "unborn"
  BY <1>1, <1>2, <1>3 DEF Distinct
<1>4. ASSUME NEW p \in Procs, Free(procs'[p].pid), procs[p].life = "unborn",
             \A q \in Procs : q # p => procs'[q] = procs[q]
      PROVE  Distinct'
  <2>1. ASSUME NEW q \in Procs, HasPid(q)', q # p
        PROVE  HasPid(q) /\ procs'[q].pid = procs[q].pid /\ procs[q].pid # procs'[p].pid
    <3>1. procs[q].life # "unborn"
      BY <1>2, <1>4, <2>1
    <3> QED
      BY <1>1, <1>4, <2>1, <3>1 DEF Free, At
  <2> QED
    BY <2>1 DEF Distinct
<1> QED
  BY <1>3, <1>4
-----------------------------------------------------------------------------
(* The invariant is kept *)

RestTyped ==
    /\ boot \in 0 .. MaxBoot
    /\ procs \in [Procs -> Lifes]
    /\ parent \in [Daemons -> Managers \cup {None}]
    /\ endpoint \in Procs \cup {None}
    /\ pidfile \in Pids \cup {None}
    /\ identity \in Identities \cup {None}
    /\ lock \in Managers \cup {None}
    /\ faults \in 0 .. MaxFaults

LEMMA TypeIsBoth == TypeOK <=> RestTyped /\ Typed
BY DEF TypeOK, RestTyped, Typed, Desks, Cmds, Lifes

LEMMA ReturnTyped ==
    ASSUME RestTyped, NEW m \in Managers, Return(m)
    PROVE  /\ lock' \in Managers \cup {None}
           /\ parent' \in [Daemons -> Managers \cup {None}]
BY DEF RestTyped, Return, Release, Orphan

LEMMA QuietTyped ==
    ASSUME Sound, NEW m \in Managers, Quiet(m)
    PROVE  RestTyped'
<1>0. RestTyped /\ UNCHANGED <<boot, procs, endpoint>>
  BY TypeIsBoth, QuietIsQuiet DEF Sound
<1>1. CASE Command(m) \/ Inspect(m) \/ ReceiveAck(m) \/ AckTimesOut(m)
  <2>1. UNCHANGED <<kernel, files, lock, faults>>
    BY <1>1 DEF Command, Inspect, ReceiveAck, AckTimesOut, ReadPid, ReadIdentity, OpenHandle,
                ReadTicks, ReadMarker, CheckAgain
  <2> QED
    BY <1>0, <2>1 DEF RestTyped, kernel, files
<1>2. CASE Report(m) \/ Refuse(m) \/ SpawnFails(m) \/ Ready(m) \/ ReadyTimesOut(m)
  <2>1. Return(m) /\ UNCHANGED <<files, faults>>
    BY <1>2 DEF Report, Refuse, SpawnFails, Ready, ReadyTimesOut
  <2> QED
    BY <1>0, <2>1, ReturnTyped DEF RestTyped, files
<1>3. CASE CheckBind(m) \/ Capture(m) \/ WaitExit(m)
  <2>1. Return(m) \/ UNCHANGED <<parent, lock>>
    BY <1>3 DEF CheckBind, Capture, WaitExit
  <2>2. UNCHANGED <<files, faults>>
    BY <1>3 DEF CheckBind, Capture, WaitExit
  <2> QED
    BY <1>0, <2>1, <2>2, ReturnTyped DEF RestTyped, files
<1>4. CASE Acquire(m)
  BY <1>0, <1>4 DEF Acquire, RestTyped, kernel, files
<1>5. CASE WriteIdentity(m)
  <2>1. mgr[m].ident \in Identities
    BY <1>5 DEF WriteIdentity, Sound, Fits
  <2> QED
    BY <1>0, <1>5, <2>1 DEF WriteIdentity, RestTyped, kernel
<1>6. CASE WritePid(m)
  <2>1. mgr[m].ident.pid \in Pids
    BY <1>6 DEF WritePid, Sound, Fits, Identities
  <2> QED
    BY <1>0, <1>6, <2>1 DEF WritePid, RestTyped, kernel
<1>7. CASE RemovePid(m)
  BY <1>0, <1>7 DEF RemovePid, RestTyped, kernel
<1>8. CASE RemoveIdentity(m)
  <2>1. CASE Return(m)
    BY <1>0, <1>8, <2>1, ReturnTyped DEF RemoveIdentity, RestTyped
  <2>2. CASE Release(m) /\ UNCHANGED parent
    BY <1>0, <1>8, <2>2 DEF RemoveIdentity, RestTyped, Release
  <2>3. CASE UNCHANGED <<parent, lock>>
    BY <1>0, <1>8, <2>3 DEF RemoveIdentity, RestTyped
  <2> QED
    BY <1>8, <2>1, <2>2, <2>3 DEF RemoveIdentity
<1>9. CASE Fault(m)
  <2>1. faults' \in 0 .. MaxFaults
    BY <1>0, <1>9, LifecycleAssumption
       DEF Fault, CaptureFails, WriteFails, RemoveFails, Crash, RestTyped
  <2>2. (Return(m) \/ UNCHANGED <<parent, lock>>) /\ UNCHANGED files
    BY <1>9 DEF Fault, CaptureFails, WriteFails, RemoveFails, Crash, kernel
  <2> QED
    BY <1>0, <2>1, <2>2, ReturnTyped DEF RestTyped, files
<1> QED
  BY <1>1, <1>2, <1>3, <1>4, <1>5, <1>6, <1>7, <1>8, <1>9 DEF Quiet

LEMMA HangsTyped ==
    ASSUME RestTyped, NEW p \in Procs, NEW life \in Lives, Hangs(p, life)
    PROVE  /\ procs' \in [Procs -> Lifes]
           /\ endpoint' \in Procs \cup {None}
           /\ \A q \in Procs : procs[q].life = "unborn" /\ q # p => procs'[q].life = "unborn"
           /\ procs'[p].life = life
BY DEF RestTyped, Hangs, Lifes

\* Steps in which processes start, change or end.
Loud == \/ \E m \in Managers : Spawn(m) \/ Terminate(m)
        \/ \E d \in Daemons : Acknowledge(d) \/ Serve(d)
        \/ \E p \in Procs : Exit(p)
        \/ \E s \in Strangers : StrangerStarts(s) \/ StrangerListens(s)
        \/ Reboot

NoneIsBorn == \A p \in Procs : procs[p].life = "unborn" => procs'[p].life = "unborn"

OneIsBorn ==
    \E p \in Procs : /\ Free(procs'[p].pid) /\ procs[p].life = "unborn"
                     /\ procs'[p].pid \in Pids /\ procs'[p].ticks \in Ticks
                     /\ \A q \in Procs : q # p => procs'[q] = procs[q]

LEMMA LoudTyped ==
    ASSUME Sound, Loud
    PROVE  RestTyped' /\ (NoneIsBorn \/ OneIsBorn)
<1>0. RestTyped
  BY TypeIsBoth DEF Sound
<1>1. ASSUME NEW m \in Managers, Spawn(m)
      PROVE  RestTyped' /\ OneIsBorn
  <2>1. PICK d \in Daemons, n \in Pids, t \in Ticks :
          /\ procs[d].life = "unborn" /\ Free(n)
          /\ procs' = [procs EXCEPT ![d] = [life |-> "starting", pid |-> n, ticks |-> t]]
          /\ parent' = [parent EXCEPT ![d] = m]
    BY <1>1 DEF Spawn
  <2>2. [life |-> "starting", pid |-> n, ticks |-> t] \in Lifes
    BY DEF Lifes, Lives
  <2>3. d \in Procs /\ procs'[d] = [life |-> "starting", pid |-> n, ticks |-> t]
        /\ \A q \in Procs : q # d => procs'[q] = procs[q]
    BY <1>0, <2>1 DEF RestTyped, Procs
  <2>4. OneIsBorn
    BY <2>1, <2>3 DEF OneIsBorn
  <2> QED
    BY <1>0, <1>1, <2>1, <2>2, <2>4 DEF RestTyped, Spawn, files
<1>2. ASSUME NEW m \in Managers, Terminate(m)
      PROVE  RestTyped' /\ NoneIsBorn
  <2> DEFINE h == mgr[m].handle
  <2>1. PICK life \in AfterTerm(procs[h].life) : Hangs(h, life)
    BY <1>2 DEF Terminate
  <2>2. h \in Procs /\ procs[h].life # "unborn"
    BY <1>2 DEF Terminate, Sound, Fits, Procs
  <2>3. procs[h].life \in Lives
    BY <1>0, <2>2 DEF RestTyped, Lifes
  <2>4. life \in Lives
    BY <2>1, <2>3 DEF AfterTerm, Lives
  <2> QED
    BY <1>0, <1>2, <2>1, <2>2, <2>4, HangsTyped DEF RestTyped, Terminate, files, NoneIsBorn
<1>3. ASSUME NEW d \in Daemons, Acknowledge(d)
      PROVE  RestTyped' /\ NoneIsBorn
  <2>1. PICK life \in {"acked", "dead"} : procs' = [procs EXCEPT ![d].life = life]
    BY <1>3 DEF Acknowledge
  <2>2. procs' \in [Procs -> Lifes]
    BY <1>0, <2>1 DEF RestTyped, Lifes, Lives, Procs
  <2>3. NoneIsBorn
    BY <1>0, <1>3, <2>1 DEF NoneIsBorn, Acknowledge, RestTyped, Procs, Lifes
  <2> QED
    BY <1>0, <1>3, <2>2, <2>3 DEF RestTyped, Acknowledge, files
<1>4. ASSUME NEW d \in Daemons, Serve(d)
      PROVE  RestTyped' /\ NoneIsBorn
  <2>1. PICK life \in {"serving", "dead"} : procs' = [procs EXCEPT ![d].life = life]
    BY <1>4 DEF Serve
  <2>2. procs' \in [Procs -> Lifes]
    BY <1>0, <2>1 DEF RestTyped, Lifes, Lives, Procs
  <2>3. NoneIsBorn
    BY <1>0, <1>4, <2>1 DEF NoneIsBorn, Serve, RestTyped, Procs, Lifes
  <2> QED
    BY <1>0, <1>4, <2>2, <2>3 DEF RestTyped, Serve, files, Procs
<1>5. ASSUME NEW p \in Procs, Exit(p)
      PROVE  RestTyped' /\ NoneIsBorn
  BY <1>0, <1>5, HangsTyped DEF Exit, Live, RestTyped, files, NoneIsBorn, Lives
<1>6. ASSUME NEW s \in Strangers, StrangerStarts(s)
      PROVE  RestTyped' /\ OneIsBorn
  <2>1. PICK n \in Pids, t \in Ticks :
          /\ Free(n)
          /\ procs' = [procs EXCEPT ![s] = [life |-> "alive", pid |-> n, ticks |-> t]]
    BY <1>6 DEF StrangerStarts
  <2>2. [life |-> "alive", pid |-> n, ticks |-> t] \in Lifes
    BY DEF Lifes, Lives
  <2>3. s \in Procs /\ procs'[s] = [life |-> "alive", pid |-> n, ticks |-> t]
        /\ \A q \in Procs : q # s => procs'[q] = procs[q]
    BY <1>0, <2>1 DEF RestTyped, Procs
  <2>4. OneIsBorn
    BY <1>6, <2>1, <2>3 DEF OneIsBorn, StrangerStarts
  <2> QED
    BY <1>0, <1>6, <2>1, <2>2, <2>4 DEF RestTyped, StrangerStarts, files
<1>7. ASSUME NEW s \in Strangers, StrangerListens(s)
      PROVE  RestTyped' /\ NoneIsBorn
  BY <1>0, <1>7 DEF RestTyped, StrangerListens, files, NoneIsBorn, Procs
<1>8. CASE Reboot
  <2>1. procs' \in [Procs -> Lifes] /\ NoneIsBorn
    BY <1>0, <1>8 DEF Reboot, RestTyped, Lifes, Lives, Live, NoneIsBorn
  <2>2. boot' \in 0 .. MaxBoot /\ faults' \in 0 .. MaxFaults
    BY <1>0, <1>8, LifecycleAssumption DEF Reboot, RestTyped
  <2> QED
    BY <1>0, <1>8, <2>1, <2>2 DEF Reboot, RestTyped, files
<1> QED
  BY <1>1, <1>2, <1>3, <1>4, <1>5, <1>6, <1>7, <1>8 DEF Loud

LEMMA SoundInit == Init => Sound
<1> SUFFICES ASSUME Init PROVE Sound
  OBVIOUS
<1>1. RestTyped
  BY LifecycleAssumption DEF Init, RestTyped, Lifes, Lives
<1>2. Idle \in Desks
  BY DEF Idle, Desks, Cmds, ManagerPcs
<1>3. Typed
  BY <1>2 DEF Init, Typed
<1>4. Born /\ Distinct
  BY DEF Init, Born, Distinct, HasPid, Live, Procs
<1>5. \A m \in Managers : Fits(m)
  BY DEF Init, Fits, Idle
<1> QED
  BY <1>1, <1>3, <1>4, <1>5, TypeIsBoth DEF Sound

LEMMA SoundNext ==
    ASSUME Sound, Next
    PROVE  Sound' /\ Aging
<1>1. Aging
  BY NextAges DEF Sound, Fits, Terminate, Procs
<1>2. (\E m \in Managers : Quiet(m)) \/ Loud
  BY NextIs DEF Loud
<1>3. RestTyped' /\ (NoneIsBorn \/ OneIsBorn)
  <2>1. ASSUME NEW m \in Managers, Quiet(m) PROVE RestTyped' /\ NoneIsBorn
    BY <2>1, QuietTyped, QuietIsQuiet DEF NoneIsBorn
  <2> QED
    BY <1>2, <2>1, LoudTyped
<1>4. Distinct'
  BY <1>1, <1>3, DistinctStays DEF Sound, NoneIsBorn, OneIsBorn
<1>5. Born'
  BY <1>1, <1>3 DEF Sound, Born, NoneIsBorn, OneIsBorn, Aging, Aged
<1>6. Typed' /\ \A m \in Managers : Fits(m)'
  <2>1. ASSUME NEW m \in Managers, Fine(m) PROVE Typed' /\ \A k \in Managers : Fits(k)'
    BY <1>1, <2>1, OthersFit DEF Fine
  <2>2. ASSUME NEW m \in Managers, Quiet(m) \/ Spawn(m) \/ Terminate(m) PROVE Fine(m)
    BY <1>1, <2>2, QuietFine, SpawnFine, TerminateFine
  <2>3. ASSUME UNCHANGED mgr PROVE Typed' /\ \A k \in Managers : Fits(k)'
    BY <1>1, <2>3, OthersFit, SoundTyped DEF Typed
  <2>4. CASE Reboot
    <3>1. Idle \in Desks
      BY DEF Idle, Desks, Cmds, ManagerPcs
    <3> QED
      BY <2>4, <3>1 DEF Reboot, Typed, Fits, Idle
  <2>5. ASSUME NEW d \in Daemons, Acknowledge(d) \/ Serve(d) PROVE UNCHANGED mgr
    BY <2>5 DEF Acknowledge, Serve
  <2>6. ASSUME NEW p \in Procs, Exit(p) PROVE UNCHANGED mgr
    BY <2>6 DEF Exit
  <2>7. ASSUME NEW s \in Strangers, StrangerStarts(s) \/ StrangerListens(s) PROVE UNCHANGED mgr
    BY <2>7 DEF StrangerStarts, StrangerListens
  <2> QED
    BY <1>2, <2>1, <2>2, <2>3, <2>4, <2>5, <2>6, <2>7 DEF Loud
<1>7. (TypeOK <=> RestTyped /\ Typed)'
  BY DEF TypeOK, RestTyped, Typed, Lifes, Desks, Cmds
<1> QED
  BY <1>1, <1>3, <1>4, <1>5, <1>6, <1>7 DEF Sound

LEMMA SoundStutters ==
    ASSUME Sound, UNCHANGED vars
    PROVE  Sound'
BY DEF Sound, TypeOK, Born, Distinct, Fits, HasPid, Live, vars

LEMMA AlwaysSound == Spec => []Sound
<1>1. Sound /\ [Next]_vars => Sound'
  BY SoundNext, SoundStutters
<1> QED
  BY <1>1, SoundInit, PTL DEF Spec

\* The state stays within its types, for any managers, daemons and process numbers.
THEOREM TypeCorrect == Spec => []TypeOK
<1>1. Sound => TypeOK
  BY DEF Sound
<1> QED
  BY <1>1, AlwaysSound, PTL

\* A SIGTERM of terminate_and_wait goes to a daemon this runtime launched: what holds
\* the PID may change at every step, but not behind a handle.
THEOREM SignalsReachOwnDaemons == Spec => OnlyOwnDaemonsAreSignalled
<1>1. Sound => \A m \in Managers : Terminate(m) => mgr[m].handle \in Daemons
  BY DEF Sound, Fits, Terminate
<1>2. Sound => [\A m \in Managers : Terminate(m) => mgr[m].handle \in Daemons]_vars
  BY <1>1
<1> QED
  BY <1>2, AlwaysSound, PTL DEF OnlyOwnDaemonsAreSignalled

----------------------------------------------------------------------------
(***************************************************************************)
(* That `inspect` never takes a recorded live daemon for stopped.  The     *)
(* lock keeps the files as their holder has read them, identities stay     *)
(* true of the daemon they name, and so a look that fails means its end.   *)
(***************************************************************************)
Looks == {"pid", "id", "open", "ticks", "marker", "final"}

Holds(r) == r.cmd \in {"up", "down", "restart"} /\ r.pc \notin {"idle", "lock"}

\* Commands that write hold the lock, `status` only looks.
Locked(m) ==
    /\ Holds(mgr[m]) <=> lock = m
    /\ mgr[m].cmd = "status" => mgr[m].pc \in Looks \cup Verdicts
    /\ mgr[m].cmd = "none" => mgr[m].pc = "idle"

\* An identity is that of its daemon, while it lives.
Truth(i) ==
    i # None => /\ procs[i.marker].life # "unborn"
                /\ Live(i.marker) => /\ procs[i.marker].pid = i.pid
                                     /\ procs[i.marker].ticks = i.ticks
                                     /\ boot = i.boot

Truthful == Truth(identity) /\ \A m \in Managers : Truth(mgr[m].ident)

\* What the holder of the lock knows of the files and of the daemon they name.
Knows(m) ==
    LET r == mgr[m]
    IN  lock = m =>
          /\ r.pc \in {"id", "open", "ticks", "marker", "final"} => r.pid = pidfile
          /\ r.pc \in {"open", "ticks", "marker", "final"} =>
                r.ident = identity /\ (identity # None => identity.pid = pidfile)
          /\ r.pc \in {"ticks", "marker", "final"} /\ Live(identity.marker) =>
                r.handle = identity.marker
          /\ r.pc = "stopped" => \A d \in Daemons : Recorded(d) => ~Live(d)

Guarded == Sound /\ Truthful /\ \A m \in Managers : Locked(m) /\ Knows(m)

\* A step of m that leaves its record in this form.
Moves(m, x) == Becomes(m, mgr[m].cmd, x, mgr[m].pid, mgr[m].ident, mgr[m].handle)

LEMMA GotoMoves ==
    ASSUME Sound, NEW m \in Managers, NEW x, Goto(m, x)
    PROVE  Moves(m, x)
BY SoundTyped, GotoBecomes DEF Moves, Typed
-----------------------------------------------------------------------------
(* The lock *)

Owned(m) == \A k \in Managers : Locked(k)'

LEMMA StaysOwned ==
    ASSUME \A k \in Managers : Locked(k), NEW m \in Managers, UNCHANGED lock,
           \A k \in Managers : k # m => mgr'[k] = mgr[k],
           mgr'[m].cmd = mgr[m].cmd,
           mgr[m].pc \notin {"idle", "lock"}, mgr'[m].pc \notin {"idle", "lock"},
           mgr[m].cmd = "status" => mgr'[m].pc \in Looks \cup Verdicts
    PROVE  Owned(m)
BY DEF Owned, Locked, Holds

LEMMA ReturnOwned ==
    ASSUME Sound, \A k \in Managers : Locked(k), NEW m \in Managers, Return(m)
    PROVE  Owned(m)
<1>1. Becomes(m, "none", "idle", None, None, None)
  BY SoundTyped, ReturnBecomes DEF Typed
<1>2. lock' = IF lock = m THEN None ELSE lock
  BY DEF Return, Release
<1> QED
  BY <1>1, <1>2, LifecycleAssumption DEF Owned, Locked, Holds, Becomes

LEMMA GotoOwned ==
    ASSUME Sound, \A k \in Managers : Locked(k), NEW m \in Managers, UNCHANGED lock,
           NEW x, Goto(m, x), mgr[m].pc \notin {"idle", "lock"}, x \notin {"idle", "lock"},
           mgr[m].cmd = "status" => x \in Looks \cup Verdicts
    PROVE  Owned(m)
BY GotoMoves, StaysOwned DEF Moves, Becomes

LEMMA BeginsOwned ==
    ASSUME Sound, \A k \in Managers : Locked(k), NEW m \in Managers,
           Command(m) \/ Acquire(m) \/ RemoveIdentity(m)
    PROVE  Owned(m)
<1>1. CASE Command(m)
  <2>1. PICK c \in Cmds : c # "none" /\ mgr' = [mgr EXCEPT ![m] = Begun(c)]
    BY <1>1, LifecycleAssumption DEF Command, Cmds
  <2>2. Becomes(m, c, IF c = "status" THEN "pid" ELSE "lock", None, None, None)
    BY <2>1, SoundTyped, BeginBecomes DEF Typed
  <2> QED
    BY <1>1, <2>1, <2>2 DEF Command, Owned, Locked, Holds, Becomes, Looks, Cmds
<1>2. CASE Acquire(m)
  <2>1. Moves(m, "pid")
    BY <1>2, GotoMoves DEF Acquire
  <2>2. mgr[m].cmd \in Cmds
    BY SoundTyped DEF Desks
  <2> QED
    BY <1>2, <2>1, <2>2, LifecycleAssumption
       DEF Acquire, Owned, Locked, Holds, Moves, Becomes, Looks, Verdicts, Cmds
<1>3. CASE RemoveIdentity(m)
  <2>1. CASE Goto(m, "spawn") /\ UNCHANGED lock /\ mgr[m].cmd = "up"
    BY <1>3, <2>1, GotoOwned DEF RemoveIdentity
  <2>2. CASE mgr' = [mgr EXCEPT ![m] = Begun("up")] /\ Release(m)
    <3>1. Becomes(m, "up", "lock", None, None, None)
      BY <2>2, SoundTyped, BeginBecomes DEF Typed, Cmds
    <3> QED
      BY <2>2, <3>1, LifecycleAssumption DEF Release, Owned, Locked, Holds, Becomes
  <2> QED
    BY <1>3, <2>1, <2>2, ReturnOwned DEF RemoveIdentity
<1> QED
  BY <1>1, <1>2, <1>3

LEMMA InspectOwned ==
    ASSUME Sound, \A k \in Managers : Locked(k), NEW m \in Managers, Inspect(m)
    PROVE  Owned(m)
<1>1. CASE ReadPid(m)
  <2>1. Becomes(m, mgr[m].cmd, "id", pidfile, mgr[m].ident, mgr[m].handle)
    BY <1>1, SoundTyped, PidBecomes DEF ReadPid, Typed, Sound, TypeOK
  <2> QED
    BY <1>1, <2>1, StaysOwned DEF ReadPid, Becomes, Looks
<1>2. CASE ReadIdentity(m)
  <2>1. PICK x \in {"stopped", "unverified", "open"} :
          mgr' = [mgr EXCEPT ![m].ident = identity, ![m].pc = x]
    BY <1>2 DEF ReadIdentity
  <2>2. Becomes(m, mgr[m].cmd, x, mgr[m].pid, identity, mgr[m].handle)
    BY <2>1, SoundTyped, IdentBecomes DEF Typed, Sound, TypeOK
  <2> QED
    BY <1>2, <2>1, <2>2, StaysOwned DEF ReadIdentity, Becomes, Looks, Verdicts
<1>3. CASE OpenHandle(m)
  <2>1. ASSUME NEW p \in At(mgr[m].pid),
               mgr' = [mgr EXCEPT ![m].handle = p,
                                  ![m].pc = IF mgr[m].ident = None THEN "unverified" ELSE "ticks"]
        PROVE  Owned(m)
    <3>1. p \in Procs
      BY <2>1 DEF At
    <3>2. Becomes(m, mgr[m].cmd, IF mgr[m].ident = None THEN "unverified" ELSE "ticks",
                  mgr[m].pid, mgr[m].ident, p)
      BY <2>1, <3>1, SoundTyped, HandleBecomes DEF Typed
    <3> QED
      BY <1>3, <3>2, StaysOwned DEF OpenHandle, Becomes, Looks, Verdicts
  <2> QED
    BY <1>3, <2>1, GotoOwned DEF OpenHandle, Looks, Verdicts
<1>4. CASE ReadTicks(m)
  BY <1>4, GotoOwned DEF ReadTicks, Looks, Verdicts
<1>5. CASE ReadMarker(m)
  BY <1>5, GotoOwned DEF ReadMarker, Looks, Verdicts
<1>6. CASE CheckAgain(m)
  BY <1>6, GotoOwned DEF CheckAgain, Looks, Verdicts
<1> QED
  BY <1>1, <1>2, <1>3, <1>4, <1>5, <1>6 DEF Inspect

LEMMA ManagersOwned ==
    ASSUME Sound, \A k \in Managers : Locked(k), NEW m \in Managers,
           Quiet(m) \/ Spawn(m) \/ Terminate(m)
    PROVE  Owned(m)
<1>0. mgr[m].cmd \in Cmds /\ Locked(m)
  BY SoundTyped DEF Desks
<1>1. CASE Return(m)
  BY <1>1, ReturnOwned
<1>2. CASE Report(m) \/ Refuse(m) \/ SpawnFails(m) \/ Ready(m) \/ ReadyTimesOut(m)
           \/ CaptureFails(m) \/ RemoveFails(m) \/ Crash(m)
  BY <1>1, <1>2
     DEF Report, Refuse, SpawnFails, Ready, ReadyTimesOut, CaptureFails, RemoveFails, Crash
<1>3. CASE CheckBind(m)
  BY <1>1, <1>3, GotoOwned DEF CheckBind
<1>4. CASE Capture(m)
  <2>1. CASE Live(mgr[m].handle)
    <3> DEFINE d == mgr[m].handle
               i == [pid |-> procs[d].pid, boot |-> boot, ticks |-> procs[d].ticks, marker |-> d]
    <3>1. i \in Identities
      BY <1>4 DEF Capture, Sound, Fits, Born, TypeOK, Identities, Procs
    <3>2. mgr' = [mgr EXCEPT ![m].ident = i, ![m].pc = "ack"]
      BY <1>4, <2>1 DEF Capture
    <3> HIDE DEF i
    <3>3. Becomes(m, mgr[m].cmd, "ack", mgr[m].pid, i, mgr[m].handle)
      BY <3>1, <3>2, SoundTyped, IdentBecomes DEF Typed
    <3> QED
      BY <1>0, <1>4, <2>1, <3>3, StaysOwned DEF Capture, Becomes, Locked, Looks, Verdicts
  <2> QED
    BY <1>1, <1>4, <2>1 DEF Capture
<1>5. CASE WaitExit(m)
  BY <1>0, <1>1, <1>5, GotoOwned DEF WaitExit, Locked, Looks, Verdicts
<1>6. CASE ReceiveAck(m) \/ AckTimesOut(m)
  BY <1>0, <1>6, GotoOwned DEF ReceiveAck, AckTimesOut, Locked, Looks, Verdicts
<1>7. CASE WriteIdentity(m) \/ WritePid(m) \/ WriteFails(m)
  BY <1>0, <1>7, GotoOwned DEF WriteIdentity, WritePid, WriteFails, Locked, Looks, Verdicts
<1>8. CASE RemovePid(m)
  BY <1>0, <1>8, GotoOwned DEF RemovePid, Clears, Locked, Looks, Verdicts
<1>9. CASE Spawn(m)
  <2>1. PICK d \in Daemons : mgr' = [mgr EXCEPT ![m].handle = d, ![m].pc = "capture"]
    BY <1>9 DEF Spawn
  <2>2. Becomes(m, mgr[m].cmd, "capture", mgr[m].pid, mgr[m].ident, d)
    BY <2>1, SoundTyped, HandleBecomes DEF Typed, Procs
  <2> QED
    BY <1>0, <1>9, <2>2, StaysOwned DEF Spawn, Becomes, Locked, Looks, Verdicts
<1>10. CASE Terminate(m)
  BY <1>0, <1>10, GotoOwned DEF Terminate, Locked, Looks, Verdicts
<1> QED
  BY <1>2, <1>3, <1>4, <1>5, <1>6, <1>7, <1>8, <1>9, <1>10, InspectOwned, BeginsOwned
     DEF Quiet, Fault
-----------------------------------------------------------------------------
(* Identities *)

LEMMA TruthLasts ==
    ASSUME Aging, UNCHANGED boot \/ \A p \in Procs : ~Live(p)'
    PROVE  \A i \in Identities \cup {None} : Truth(i) => Truth(i)'
<1> SUFFICES ASSUME NEW i \in Identities, Truth(i), i # None PROVE Truth(i)'
  BY DEF Truth
<1>1. i.marker \in Procs
  BY DEF Identities, Procs
<1>2. Live(i.marker)' => Live(i.marker)
  BY <1>1 DEF Truth, Aging, Aged, Live
<1> QED
  BY <1>1, <1>2 DEF Truth, Aging, Aged

Watched == {"id", "open", "ticks", "marker", "final", "stopped"}

\* Where m goes the files do not matter.
Away(m) ==
    /\ mgr'[m].pc \notin Watched
    /\ mgr'[m].ident \in {mgr[m].ident, None} \/ Truth(mgr[m].ident)'

LEMMA GotoAway ==
    ASSUME Sound, NEW m \in Managers, NEW x, Goto(m, x), x \notin Watched
    PROVE  Away(m)
BY GotoMoves DEF Away, Moves, Becomes

LEMMA ReturnAway ==
    ASSUME Sound, NEW m \in Managers, Return(m)
    PROVE  Away(m)
<1>1. Becomes(m, "none", "idle", None, None, None)
  BY SoundTyped, ReturnBecomes DEF Typed
<1> QED
  BY <1>1 DEF Away, Becomes, Watched

LEMMA CaptureAway ==
    ASSUME Sound, NEW m \in Managers, Capture(m), Live(mgr[m].handle)
    PROVE  Away(m)
<1> DEFINE d == mgr[m].handle
           i == [pid |-> procs[d].pid, boot |-> boot, ticks |-> procs[d].ticks, marker |-> d]
<1>1. i \in Identities
  BY DEF Capture, Sound, Fits, Born, TypeOK, Identities, Procs
<1>2. mgr' = [mgr EXCEPT ![m].ident = i, ![m].pc = "ack"] /\ UNCHANGED <<boot, procs>>
  BY DEF Capture, Return
<1>3. /\ i.marker = d /\ i.pid = procs[d].pid /\ i.ticks = procs[d].ticks /\ i.boot = boot
      /\ procs[d].life # "unborn"
  BY DEF Live
<1> HIDE DEF i
<1>4. Becomes(m, mgr[m].cmd, "ack", mgr[m].pid, i, mgr[m].handle)
  BY <1>1, <1>2, SoundTyped, IdentBecomes DEF Typed
<1>5. Truth(mgr[m].ident)'
  BY <1>2, <1>3, <1>4 DEF Truth, Becomes
<1> QED
  BY <1>4, <1>5 DEF Away, Becomes, Watched

LEMMA OthersAway ==
    ASSUME Sound, NEW m \in Managers, Quiet(m) \/ Spawn(m) \/ Terminate(m), ~Inspect(m)
    PROVE  Away(m)
<1>1. CASE Return(m)
  BY <1>1, ReturnAway
<1>2. CASE Report(m) \/ Refuse(m) \/ SpawnFails(m) \/ Ready(m) \/ ReadyTimesOut(m)
           \/ CaptureFails(m) \/ RemoveFails(m) \/ Crash(m)
  BY <1>1, <1>2
     DEF Report, Refuse, SpawnFails, Ready, ReadyTimesOut, CaptureFails, RemoveFails, Crash
<1>3. CASE CheckBind(m) \/ WaitExit(m)
  BY <1>1, <1>3, GotoAway DEF CheckBind, WaitExit, Watched
<1>4. CASE Capture(m)
  BY <1>1, <1>4, CaptureAway DEF Capture
<1>5. CASE Acquire(m) \/ ReceiveAck(m) \/ AckTimesOut(m) \/ Terminate(m)
  BY <1>5, GotoAway DEF Acquire, ReceiveAck, AckTimesOut, Terminate, Watched
<1>6. CASE WriteIdentity(m) \/ WritePid(m) \/ WriteFails(m) \/ RemovePid(m)
  BY <1>6, GotoAway DEF WriteIdentity, WritePid, WriteFails, RemovePid, Watched
<1>7. CASE RemoveIdentity(m)
  <2>1. CASE mgr' = [mgr EXCEPT ![m] = Begun("up")]
    <3>1. Becomes(m, "up", "lock", None, None, None)
      BY <2>1, SoundTyped, BeginBecomes DEF Typed, Cmds
    <3> QED
      BY <3>1 DEF Away, Becomes, Watched
  <2> QED
    BY <1>1, <1>7, <2>1, GotoAway DEF RemoveIdentity, Watched
<1>8. CASE Command(m)
  <2>1. PICK c \in Cmds : mgr' = [mgr EXCEPT ![m] = Begun(c)]
    BY <1>8, LifecycleAssumption DEF Command, Cmds
  <2>2. Becomes(m, c, IF c = "status" THEN "pid" ELSE "lock", None, None, None)
    BY <2>1, SoundTyped, BeginBecomes DEF Typed
  <2> QED
    BY <2>2 DEF Away, Becomes, Watched
<1>9. CASE Spawn(m)
  <2>1. PICK d \in Daemons : mgr' = [mgr EXCEPT ![m].handle = d, ![m].pc = "capture"]
    BY <1>9 DEF Spawn
  <2>2. Becomes(m, mgr[m].cmd, "capture", mgr[m].pid, mgr[m].ident, d)
    BY <2>1, SoundTyped, HandleBecomes DEF Typed, Procs
  <2> QED
    BY <2>2 DEF Away, Becomes, Watched
<1> QED
  BY <1>2, <1>3, <1>4, <1>5, <1>6, <1>7, <1>8, <1>9 DEF Quiet, Fault

Writes(r) == \/ r.pc \in {"unpid", "unid", "wid", "wpid"}
             \/ r.cmd \in {"down", "restart"} /\ r.pc = "stopped"

\* Who writes a file works under the lock.
LEMMA WritersHold ==
    ASSUME NEW m \in Managers, Quiet(m) \/ Spawn(m) \/ Terminate(m)
    PROVE  /\ UNCHANGED files \/ Writes(mgr[m])
           /\ identity' \in {identity, None, mgr[m].ident}
<1>1. CASE UNCHANGED files
  BY <1>1 DEF files
<1>2. CASE Command(m) \/ Acquire(m) \/ CheckBind(m) \/ SpawnFails(m) \/ Capture(m) \/ ReceiveAck(m)
           \/ AckTimesOut(m) \/ Ready(m) \/ ReadyTimesOut(m) \/ WaitExit(m) \/ Report(m) \/ Refuse(m)
  BY <1>1, <1>2 DEF Command, Acquire, CheckBind, SpawnFails, Capture, ReceiveAck, AckTimesOut,
                    Ready, ReadyTimesOut, WaitExit, Report, Refuse
<1>3. CASE Inspect(m)
  BY <1>1, <1>3 DEF Inspect, ReadPid, ReadIdentity, OpenHandle, ReadTicks, ReadMarker, CheckAgain
<1>4. CASE Spawn(m) \/ Terminate(m) \/ Fault(m)
  BY <1>1, <1>4 DEF Spawn, Terminate, Fault, CaptureFails, WriteFails, RemoveFails, Crash
<1>5. CASE WriteIdentity(m)
  BY <1>5 DEF WriteIdentity, Writes
<1>6. CASE WritePid(m)
  BY <1>6 DEF WritePid, Writes
<1>7. CASE RemovePid(m)
  BY <1>7 DEF RemovePid, Clears, Writes
<1>8. CASE RemoveIdentity(m)
  BY <1>8 DEF RemoveIdentity, Writes
<1> QED
  BY <1>2, <1>3, <1>4, <1>5, <1>6, <1>7, <1>8 DEF Quiet
-----------------------------------------------------------------------------
(* What a look at the process tells *)

LEMMA InspectIdents ==
    ASSUME Sound, NEW m \in Managers, Inspect(m)
    PROVE  mgr'[m].ident \in {mgr[m].ident, identity}
<1>1. CASE ReadPid(m)
  <2>1. Becomes(m, mgr[m].cmd, "id", pidfile, mgr[m].ident, mgr[m].handle)
    BY <1>1, SoundTyped, PidBecomes DEF ReadPid, Typed, Sound, TypeOK
  <2> QED
    BY <2>1 DEF Becomes
<1>2. CASE ReadIdentity(m)
  <2>1. PICK x \in {"stopped", "unverified", "open"} :
          mgr' = [mgr EXCEPT ![m].ident = identity, ![m].pc = x]
    BY <1>2 DEF ReadIdentity
  <2>2. Becomes(m, mgr[m].cmd, x, mgr[m].pid, identity, mgr[m].handle)
    BY <2>1, SoundTyped, IdentBecomes DEF Typed, Sound, TypeOK
  <2> QED
    BY <2>2 DEF Becomes
<1>3. CASE OpenHandle(m)
  <2>1. ASSUME NEW p \in At(mgr[m].pid),
               mgr' = [mgr EXCEPT ![m].handle = p,
                                  ![m].pc = IF mgr[m].ident = None THEN "unverified" ELSE "ticks"]
        PROVE  mgr'[m].ident = mgr[m].ident
    <3>1. p \in Procs
      BY <2>1 DEF At
    <3>2. Becomes(m, mgr[m].cmd, IF mgr[m].ident = None THEN "unverified" ELSE "ticks",
                  mgr[m].pid, mgr[m].ident, p)
      BY <2>1, <3>1, SoundTyped, HandleBecomes DEF Typed
    <3> QED
      BY <3>2 DEF Becomes
  <2> QED
    BY <1>3, <2>1, GotoMoves DEF OpenHandle, Moves, Becomes
<1>4. CASE ReadTicks(m) \/ CheckAgain(m)
  BY <1>4, GotoMoves DEF ReadTicks, CheckAgain, Moves, Becomes
<1>5. CASE ReadMarker(m)
  BY <1>5, GotoMoves DEF ReadMarker, Moves, Becomes
<1> QED
  BY <1>1, <1>2, <1>3, <1>4, <1>5 DEF Inspect

\* A recorded daemon that lives is found where its identity says.
LEMMA RecordedIsFound ==
    ASSUME Sound, Truth(identity), NEW d \in Daemons, Recorded(d), Live(d)
    PROVE  /\ identity \in Identities /\ identity.marker = d /\ d \in Procs
           /\ pidfile \in Pids /\ d \in At(pidfile)
           /\ identity.boot = boot /\ procs[d].ticks = identity.ticks
BY DEF Sound, TypeOK, Recorded, Truth, Identities, At, HasPid, Procs

LEMMA InspectKnows ==
    ASSUME Guarded, NEW m \in Managers, lock = m, Inspect(m)
    PROVE  Knows(m)'
<1> DEFINE r == mgr[m]
<1>0. /\ Sound /\ Truth(identity) /\ Fits(m) /\ Knows(m)
      /\ UNCHANGED <<procs, parent, boot, pidfile, identity, lock>>
  <2>1. UNCHANGED <<kernel, files, lock>>
    BY DEF Inspect, ReadPid, ReadIdentity, OpenHandle, ReadTicks, ReadMarker, CheckAgain
  <2> QED
    BY <2>1 DEF Guarded, Sound, Truthful, kernel, files
<1>1. CASE ReadPid(m)
  <2>1. Becomes(m, r.cmd, "id", pidfile, r.ident, r.handle)
    BY <1>0, <1>1, SoundTyped, PidBecomes DEF ReadPid, Typed, Sound, TypeOK
  <2> QED
    BY <1>0, <2>1 DEF Becomes, Knows
<1>2. CASE ReadIdentity(m)
  <2>0. r.pc = "id"
    BY <1>2 DEF ReadIdentity
  <2>1. PICK x \in {"stopped", "unverified", "open"} :
          /\ mgr' = [mgr EXCEPT ![m].ident = identity, ![m].pc = x]
          /\ x = "stopped" => r.pid = None
          /\ x = "open" /\ identity # None => identity.pid = r.pid
    BY <1>2 DEF ReadIdentity
  <2>2. Becomes(m, r.cmd, x, r.pid, identity, r.handle)
    BY <1>0, <2>1, SoundTyped, IdentBecomes DEF Typed, Sound, TypeOK
  <2>3. r.pid = pidfile
    BY <1>0, <2>0 DEF Knows
  <2>4. pidfile = None => \A d \in Daemons : Recorded(d) => ~Live(d)
    BY <1>0, RecordedIsFound, LifecycleAssumption
  <2> QED
    BY <1>0, <2>1, <2>2, <2>3, <2>4 DEF Becomes, Knows, Recorded, Live
<1>3. CASE OpenHandle(m)
  <2>0. r.pc = "open" /\ r.pid = pidfile /\ r.ident = identity
    BY <1>0, <1>3 DEF OpenHandle, Knows
  <2>1. CASE (\A p \in At(r.pid) : ~Live(p)) /\ Goto(m, "stopped")
    <3>1. \A d \in Daemons : Recorded(d) => ~Live(d)
      BY <1>0, <2>0, <2>1, RecordedIsFound
    <3>2. Moves(m, "stopped")
      BY <1>0, <2>1, GotoMoves
    <3> QED
      BY <1>0, <3>1, <3>2 DEF Moves, Becomes, Knows, Recorded, Live
  <2>2. ASSUME NEW p \in At(r.pid), Live(p),
               mgr' = [mgr EXCEPT ![m].handle = p,
                                  ![m].pc = IF r.ident = None THEN "unverified" ELSE "ticks"]
        PROVE  Knows(m)'
    <3>1. p \in Procs /\ procs[p].pid = r.pid /\ HasPid(p)
      BY <2>2 DEF At
    <3>2. Becomes(m, r.cmd, IF r.ident = None THEN "unverified" ELSE "ticks",
                  r.pid, r.ident, p)
      BY <1>0, <2>2, <3>1, SoundTyped, HandleBecomes DEF Typed
    <3>3. ASSUME r.ident # None, Live(identity.marker)
          PROVE  p = identity.marker
      <4>1. identity \in Identities
        BY <1>0, <2>0, <3>3 DEF Sound, TypeOK
      <4>2. identity.marker \in Procs /\ HasPid(identity.marker)
        BY <3>3, <4>1 DEF Identities, Procs, HasPid
      <4>3. procs[identity.marker].pid = identity.pid
        BY <1>0, <2>0, <3>3 DEF Truth
      <4>4. identity.pid = r.pid
        BY <1>0, <1>3, <2>0, <3>3 DEF Knows, OpenHandle
      <4> QED
        BY <1>0, <3>1, <4>2, <4>3, <4>4 DEF Sound, Distinct
    <3> QED
      BY <1>0, <2>0, <3>2, <3>3 DEF Becomes, Knows, Live
  <2> QED
    BY <1>3, <2>1, <2>2 DEF OpenHandle
<1>4. CASE ReadTicks(m)
  <2>0. r.pc = "ticks" /\ r.pid = pidfile /\ r.ident = identity
    BY <1>0, <1>4 DEF ReadTicks, Knows
  <2>1. CASE Goto(m, "marker")
    BY <1>0, <2>0, <2>1, GotoMoves DEF Moves, Becomes, Knows, Live
  <2>2. CASE /\ Goto(m, "stopped")
             /\ \/ r.ident.boot # boot
                \/ \A p \in At(r.pid) : procs[p].ticks # r.ident.ticks
    <3>1. \A d \in Daemons : Recorded(d) => ~Live(d)
      BY <1>0, <2>0, <2>2, RecordedIsFound
    <3> QED
      BY <1>0, <2>2, <3>1, GotoMoves DEF Moves, Becomes, Knows, Recorded, Live
  <2> QED
    BY <1>4, <2>1, <2>2 DEF ReadTicks
<1>5. CASE ReadMarker(m)
  <2>0. r.pc = "marker" /\ r.pid = pidfile /\ r.ident = identity
    BY <1>0, <1>5 DEF ReadMarker, Knows
  <2>1. CASE Goto(m, "final")
    BY <1>0, <2>0, <2>1, GotoMoves DEF Moves, Becomes, Knows, Live
  <2>2. CASE Goto(m, "unverified")
    BY <1>0, <2>2, GotoMoves DEF Moves, Becomes, Knows
  <2>3. CASE /\ Goto(m, "stopped")
             /\ \/ \A p \in At(r.pid) : ~(Live(p) /\ p = r.ident.marker)
                \/ \E p \in At(r.pid) : p \in Strangers
    <3>1. ASSUME NEW d \in Daemons, Recorded(d), Live(d) PROVE FALSE
      <4>1. d \in At(r.pid) /\ d = r.ident.marker
        BY <1>0, <2>0, <3>1, RecordedIsFound
      <4>2. PICK p \in At(r.pid) : p \in Strangers
        BY <2>3, <3>1, <4>1
      <4>3. p = d
        BY <1>0, <4>1, <4>2 DEF At, Sound, Distinct
      <4> QED
        BY <4>2, <4>3, LifecycleAssumption
    <3> QED
      BY <1>0, <2>3, <3>1, GotoMoves DEF Moves, Becomes, Knows, Recorded, Live
  <2> QED
    BY <1>5, <2>1, <2>2, <2>3 DEF ReadMarker
<1>6. CASE CheckAgain(m)
  <2>0. r.pc = "final" /\ r.ident = identity
    BY <1>0, <1>6 DEF CheckAgain, Knows
  <2>1. CASE Goto(m, "running")
    BY <1>0, <2>1, GotoMoves DEF Moves, Becomes, Knows
  <2>2. CASE Goto(m, "stopped") /\ ~Live(r.handle)
    <3>1. \A d \in Daemons : Recorded(d) => ~Live(d)
      BY <1>0, <2>0, <2>2, RecordedIsFound DEF Knows
    <3> QED
      BY <1>0, <2>2, <3>1, GotoMoves DEF Moves, Becomes, Knows, Recorded, Live
  <2> QED
    BY <1>6, <2>1, <2>2 DEF CheckAgain
<1> QED
  BY <1>1, <1>2, <1>3, <1>4, <1>5, <1>6 DEF Inspect
-----------------------------------------------------------------------------
(* The invariant *)

LEMMA StillKnows ==
    ASSUME Guarded, Aging, NEW k \in Managers, lock = k, mgr'[k] = mgr[k], UNCHANGED files
    PROVE  Knows(k)'
<1>1. Knows(k) /\ Fits(k) /\ identity \in Identities \cup {None} /\ Truth(identity)
  BY DEF Guarded, Sound, Truthful, TypeOK
<1>2. UNCHANGED <<pidfile, identity>>
  BY DEF files
<1>3. identity # None /\ Live(identity.marker)' => Live(identity.marker)
  BY <1>1, <1>2 DEF Truth, Identities, Procs, Aging, Aged, Live
<1>4. mgr[k].pc \in {"ticks", "marker", "final"} => mgr[k].ident = identity /\ identity # None
  BY <1>1, LifecycleAssumption DEF Knows, Fits
<1>5. ASSUME mgr[k].pc = "stopped", NEW d \in Daemons, Recorded(d)'
      PROVE  ~Live(d)'
  <2>1. Recorded(d) /\ d \in Procs
    BY <1>2, <1>5 DEF Recorded, Procs
  <2>2. ~Live(d) /\ procs[d].life # "unborn"
    BY <1>1, <1>5, <2>1 DEF Knows, Recorded, Truth
  <2> QED
    BY <2>1, <2>2 DEF Aging, Aged, Live
<1> QED
  BY <1>1, <1>2, <1>3, <1>4, <1>5 DEF Knows

LEMMA ManagerKnows ==
    ASSUME Guarded, Aging, NEW m \in Managers, Quiet(m) \/ Spawn(m) \/ Terminate(m), Owned(m),
           NEW k \in Managers
    PROVE  Knows(k)'
<1> SUFFICES ASSUME lock' = k PROVE Knows(k)'
  BY DEF Knows
<1>0. Sound /\ \A j \in Managers : Locked(j) /\ Knows(j) /\ Locked(j)'
  BY DEF Guarded, Owned
<1>1. \A j \in Managers : j # m => mgr'[j] = mgr[j]
  BY <1>0, QuietFine, SpawnFine, TerminateFine DEF Fine
<1>2. CASE k # m
  <2>1. lock = k /\ mgr'[k] = mgr[k]
    BY <1>0, <1>1, <1>2 DEF Locked
  <2>2. ~Writes(mgr[m])
    BY <1>0, <1>2, <2>1, SoundTyped DEF Locked, Holds, Writes, Looks, Verdicts, Desks, Cmds
  <2>3. UNCHANGED files
    BY <1>0, <2>2, WritersHold DEF Guarded
  <2> QED
    BY <2>1, <2>3, StillKnows
<1>3. CASE k = m /\ ~Inspect(m)
  BY <1>0, <1>3, OthersAway DEF Away, Watched, Knows
<1>4. CASE k = m /\ Inspect(m)
  <2>1. UNCHANGED lock
    BY <1>4 DEF Inspect, ReadPid, ReadIdentity, OpenHandle, ReadTicks, ReadMarker, CheckAgain
  <2> QED
    BY <1>4, <2>1, InspectKnows
<1> QED
  BY <1>2, <1>3, <1>4

LEMMA TruthfulNext ==
    ASSUME Guarded, Aging, Next
    PROVE  Truthful'
<1>0. /\ Sound /\ Truthful
      /\ \A m \in Managers : mgr[m].ident \in Identities \cup {None}
      /\ identity \in Identities \cup {None}
  BY SoundTyped DEF Guarded, Desks, Sound, TypeOK
<1>1. ASSUME NEW m \in Managers, Quiet(m) \/ Spawn(m) \/ Terminate(m) PROVE Truthful'
  <2>1. UNCHANGED boot
    BY <1>1, QuietIsQuiet DEF Spawn, Terminate
  <2>2. \A i \in Identities \cup {None} : Truth(i) => Truth(i)'
    BY <2>1, TruthLasts
  <2>3. Truth(None)'
    BY DEF Truth
  <2>4. Truth(identity)'
    <3>1. identity' \in {identity, None, mgr[m].ident}
      BY <1>1, WritersHold
    <3>2. \A i \in {identity, None, mgr[m].ident} : Truth(i)
      BY <1>0 DEF Truthful, Truth
    <3> QED
      BY <1>0, <2>2, <3>1, <3>2 DEF Truth
  <2>5. Truth(mgr[m].ident)'
    <3>1. \A i \in {identity, None, mgr[m].ident} : i \in Identities \cup {None} /\ Truth(i)
      BY <1>0 DEF Truthful, Truth
    <3>2. mgr'[m].ident \in {identity, None, mgr[m].ident} \/ Truth(mgr[m].ident)'
      BY <1>0, <1>1, InspectIdents, OthersAway DEF Away
    <3> QED
      BY <2>2, <3>1, <3>2 DEF Truth
  <2>6. ASSUME NEW k \in Managers, k # m PROVE Truth(mgr[k].ident)'
    <3>1. mgr'[k] = mgr[k]
      BY <1>0, <1>1, <2>6, QuietFine, SpawnFine, TerminateFine DEF Fine
    <3> QED
      BY <1>0, <2>2, <3>1 DEF Truthful, Truth
  <2> QED
    BY <2>4, <2>5, <2>6 DEF Truthful
<1>2. ASSUME UNCHANGED <<boot, identity, mgr>> PROVE Truthful'
  BY <1>0, <1>2, TruthLasts DEF Truthful, Truth
<1>3. CASE Reboot
  <2>1. /\ \A p \in Procs : ~Live(p)'
        /\ identity' = identity /\ \A m \in Managers : mgr'[m].ident = None
    BY <1>0, <1>3 DEF Reboot, Live, Idle, Sound, TypeOK, files
  <2> QED
    BY <1>0, <2>1, TruthLasts DEF Truthful, Truth
<1>4. ASSUME NEW d \in Daemons, Acknowledge(d) \/ Serve(d) PROVE Truthful'
  BY <1>2, <1>4 DEF Acknowledge, Serve, files
<1>5. ASSUME NEW p \in Procs, Exit(p) PROVE Truthful'
  BY <1>2, <1>5 DEF Exit, files
<1>6. ASSUME NEW s \in Strangers, StrangerStarts(s) \/ StrangerListens(s) PROVE Truthful'
  BY <1>2, <1>6 DEF StrangerStarts, StrangerListens, files
<1> QED
  BY <1>1, <1>3, <1>4, <1>5, <1>6, NextIs

LEMMA GuardedNext ==
    ASSUME Guarded, Next
    PROVE  Guarded'
<1>1. Sound' /\ Aging
  BY SoundNext DEF Guarded
<1>2. Truthful'
  BY <1>1, TruthfulNext
<1>3. ASSUME NEW m \in Managers, Quiet(m) \/ Spawn(m) \/ Terminate(m), NEW k \in Managers
      PROVE  Locked(k)' /\ Knows(k)'
  <2>1. Owned(m)
    BY <1>3, ManagersOwned DEF Guarded
  <2> QED
    BY <1>1, <1>3, <2>1, ManagerKnows DEF Owned
<1>4. ASSUME UNCHANGED <<mgr, lock, files>>, NEW k \in Managers
      PROVE  Locked(k)' /\ Knows(k)'
  BY <1>1, <1>4, StillKnows DEF Guarded, Locked, Holds, Knows
<1>5. ASSUME Reboot, NEW k \in Managers
      PROVE  Locked(k)' /\ Knows(k)'
  BY <1>5, LifecycleAssumption DEF Reboot, Idle, Locked, Holds, Knows
<1>6. ASSUME NEW d \in Daemons, Acknowledge(d) \/ Serve(d) PROVE UNCHANGED <<mgr, lock, files>>
  BY <1>6 DEF Acknowledge, Serve
<1>7. ASSUME NEW p \in Procs, Exit(p) PROVE UNCHANGED <<mgr, lock, files>>
  BY <1>7 DEF Exit
<1>8. ASSUME NEW s \in Strangers, StrangerStarts(s) \/ StrangerListens(s)
      PROVE  UNCHANGED <<mgr, lock, files>>
  BY <1>8 DEF StrangerStarts, StrangerListens
<1>9. \A k \in Managers : Locked(k)' /\ Knows(k)'
  BY <1>3, <1>4, <1>5, <1>6, <1>7, <1>8, NextIs
<1> QED
  BY <1>1, <1>2, <1>9 DEF Guarded

LEMMA GuardedInit == Init => Guarded
<1> SUFFICES ASSUME Init PROVE Guarded
  OBVIOUS
<1>1. Truthful
  BY DEF Init, Idle, Truthful, Truth
<1>2. \A m \in Managers : Locked(m) /\ Knows(m)
  BY LifecycleAssumption DEF Init, Idle, Locked, Holds, Knows
<1> QED
  BY <1>1, <1>2, SoundInit DEF Guarded

LEMMA GuardedStutters ==
    ASSUME Guarded, UNCHANGED vars
    PROVE  Guarded'
<1>1. Sound'
  BY SoundStutters DEF Guarded
<1>2. Truthful'
  BY DEF Guarded, Truthful, Truth, Live, vars
<1>3. ASSUME NEW m \in Managers PROVE Locked(m)' /\ Knows(m)'
  BY DEF Guarded, Locked, Holds, Knows, Recorded, Live, vars
<1> QED
  BY <1>1, <1>2, <1>3 DEF Guarded

LEMMA AlwaysGuarded == Spec => []Guarded
<1>1. Guarded /\ [Next]_vars => Guarded'
  BY GuardedNext, GuardedStutters
<1> QED
  BY <1>1, GuardedInit, PTL DEF Spec

\* When inspect says "stopped" to the holder of the lock, no daemon the files name is
\* alive: crashes, failed writes, reboots, reused numbers and other commands included.
THEOREM StoppedIsTrue == Spec => []StoppedMeansNoneIsRecorded
<1>1. Guarded => StoppedMeansNoneIsRecorded
  BY DEF Guarded, Knows, StoppedMeansNoneIsRecorded
<1> QED
  BY <1>1, AlwaysGuarded, PTL
----------------------------------------------------------------------------
(***************************************************************************)
(* That no daemon is lost, and nobody is refused without a cause, as long  *)
(* as nothing fails: who holds the lock has cleared the files before it    *)
(* spawns and has written them before it lets its child go, so that a      *)
(* daemon at work is in the files or is the child of the holder.           *)
(***************************************************************************)
Busy(d) == procs[d].life \in {"acked", "serving"}

Launching == {"spawn", "capture", "ack", "wid", "wpid", "ready", "cleanup"}

\* Who may have a child.
Owns(r) == r.pc \in Launching \ {"spawn"} \/ (r.pc = "waiting" /\ r.cmd = "up")

Listening == \A d \in Daemons : endpoint = d => procs[d].life = "serving"
Ups == \A m \in Managers : mgr[m].pc \in Launching => mgr[m].cmd = "up"

\* The only child of a manager is its handle, and only the holder of the lock has one.
Children ==
    \A d \in Daemons, m \in Managers : parent[d] = m => lock = m /\ mgr[m].handle = d /\ Owns(mgr[m])

NoneIsLost == \A d \in Daemons : Busy(d) => Recorded(d) \/ parent[d] # None

\* A PID file without an identity is older than any daemon.
FilesAreOld == identity = None /\ pidfile # None => \A d \in Daemons : procs[d].life = "unborn"

\* The files disagree only between two writes of the holder.
FilesAgree ==
    identity # None /\ identity.pid # pidfile =>
        \E m \in Managers : lock = m /\ mgr[m].pc \in {"unid", "wpid"}

\* What holds of the files and the daemons wherever the holder of the lock is.
Kept(m) ==
    LET r == mgr[m]
    IN  lock = m =>
          /\ r.pc = "unid" => pidfile = None
          /\ r.pc \in {"spawn", "capture", "ack", "wid"} => pidfile = None /\ identity = None
          /\ r.pc \in {"unpid", "unid", "spawn"} => \A d \in Daemons : ~Busy(d)
          /\ Owns(r) => \A d \in Daemons : d # r.handle => ~Busy(d)
          /\ r.pc = "waiting" /\ r.cmd = "up" => ~Busy(r.handle)
          /\ r.pc = "running" \/ (r.pc = "waiting" /\ r.cmd # "up") => \A d \in Daemons : Recorded(d) => d = r.handle
          /\ r.pc \in {"capture", "ack", "wid", "wpid", "ready"} => r.handle \in Daemons /\ parent[r.handle] = m
          /\ r.pc \in {"ack", "wid", "wpid", "ready"} => r.ident # None /\ r.ident.marker = r.handle
          /\ r.pc = "wpid" => identity = r.ident /\ pidfile = None
          /\ r.pc = "ready" => identity = r.ident /\ pidfile = r.ident.pid
          /\ r.pc = "unverified" => r.handle \in Strangers

Steady ==
    /\ Listening /\ Ups /\ Children /\ NoneIsLost /\ FilesAreOld /\ FilesAgree
    /\ \A m \in Managers : Kept(m)

\* A step of m is steady when it is so for what m knows.
LEMMA Steadied ==
    ASSUME Sound, Steady, NEW m \in Managers, UNCHANGED <<procs, endpoint>>,
           \A k \in Managers : k # m => mgr'[k] = mgr[k],
           lock \notin {m, None} => UNCHANGED <<pidfile, identity, lock>>, lock' # lock => {lock, lock'} = {m, None},
           \A d \in Daemons : parent'[d] = parent[d] \/ (parent[d] = m /\ parent'[d] = None),
           mgr'[m].pc \in Launching => mgr'[m].cmd = "up",
           \A d \in Daemons : parent'[d] = m => lock' = m /\ mgr'[m].handle = d /\ Owns(mgr[m])',
           NoneIsLost', FilesAreOld', FilesAgree', lock' = m => Kept(m)'
    PROVE  Steady'
<1>1. Listening' /\ Ups'
  BY DEF Steady, Listening, Ups
<1>2. Children'
  <2> SUFFICES ASSUME NEW d \in Daemons, NEW k \in Managers, parent'[d] = k
               PROVE  lock' = k /\ mgr'[k].handle = d /\ Owns(mgr[k])'
    BY DEF Children
  <2>1. CASE k = m
    BY <2>1
  <2>2. CASE k # m
    <3>1. parent[d] = k
      BY <2>2, LifecycleAssumption
    <3>2. lock = k /\ mgr[k].handle = d /\ Owns(mgr[k])
      BY <3>1 DEF Steady, Children
    <3> QED
      BY <2>2, <3>2, LifecycleAssumption DEF Owns
  <2> QED
    BY <2>1, <2>2
<1>3. ASSUME NEW k \in Managers PROVE Kept(k)'
  <2>1. CASE k = m
    BY <2>1 DEF Kept
  <2>2. CASE k # m /\ lock' = k
    <3>1. lock = k /\ mgr'[k] = mgr[k] /\ UNCHANGED <<pidfile, identity>>
      BY <2>2, LifecycleAssumption
    <3>2. \A d \in Daemons : parent[d] = k => parent'[d] = k
      BY <2>2
    <3> QED
      BY <2>2, <3>1, <3>2 DEF Steady, Kept, Owns, Busy, Recorded
  <2> QED
    BY <2>1, <2>2 DEF Kept
<1> QED
  BY <1>1, <1>2, <1>3 DEF Steady


\* The holder of the lock at x is this one, and what its place tells.
LEMMA StaysSteady ==
    ASSUME Guarded, Steady, NEW m \in Managers, lock = m,
           UNCHANGED <<procs, endpoint, parent, pidfile, identity, lock>>,
           \A k \in Managers : k # m => mgr'[k] = mgr[k],
           mgr[m].pc \notin {"unid", "wpid"},
           mgr'[m].pc \in Launching => mgr'[m].cmd = "up",
           Owns(mgr[m]) => Owns(mgr[m])' /\ mgr'[m].handle = mgr[m].handle,
           Kept(m)'
    PROVE  Steady'
<1>1. \A d \in Daemons : parent'[d] = m => lock' = m /\ mgr'[m].handle = d /\ Owns(mgr[m])'
  BY DEF Steady, Children
<1>2. NoneIsLost' /\ FilesAreOld'
  BY DEF Steady, NoneIsLost, FilesAreOld, Busy, Recorded
<1>3. FilesAgree'
  BY LifecycleAssumption DEF Steady, FilesAgree
<1> QED
  BY <1>1, <1>2, <1>3, Steadied DEF Guarded

LEMMA GotoSteady ==
    ASSUME Guarded, Steady, NEW m \in Managers, lock = m, NEW x, Goto(m, x),
           UNCHANGED <<procs, endpoint, parent, pidfile, identity, lock>>,
           mgr[m].pc \notin {"unid", "wpid"},
           x \in Launching => mgr[m].cmd = "up",
           Owns(mgr[m]) => x \in Launching \ {"spawn"} \/ (x = "waiting" /\ mgr[m].cmd = "up"),
           Kept(m)'
    PROVE  Steady'
<1>1. Moves(m, x)
  BY GotoMoves DEF Guarded
<1> QED
  BY <1>1, StaysSteady DEF Moves, Becomes, Owns

\* A command may end where its children are recorded or gone and the files agree.
LEMMA ReturnSteady ==
    ASSUME Guarded, Steady, NEW m \in Managers, Return(m), UNCHANGED <<procs, endpoint, pidfile, identity>>,
           \A d \in Daemons : parent[d] = m /\ Busy(d) => Recorded(d),
           mgr[m].pc \notin {"unid", "wpid"}
    PROVE  Steady'
<1>1. Becomes(m, "none", "idle", None, None, None)
  BY SoundTyped, ReturnBecomes DEF Guarded, Typed
<1>2. lock' = (IF lock = m THEN None ELSE lock) /\ \A d \in Daemons : parent'[d] = IF parent[d] = m THEN None ELSE parent[d]
  BY DEF Return, Release, Orphan
<1>3. m # None
  BY LifecycleAssumption
<1>4. NoneIsLost'
  BY <1>2 DEF Steady, NoneIsLost, Busy, Recorded
<1>5. FilesAreOld'
  BY DEF Steady, FilesAreOld
<1>6. FilesAgree'
  <2> SUFFICES ASSUME identity # None, identity.pid # pidfile
               PROVE  \E k \in Managers : lock' = k /\ mgr'[k].pc \in {"unid", "wpid"}
    BY DEF FilesAgree
  <2>1. PICK k \in Managers : lock = k /\ mgr[k].pc \in {"unid", "wpid"}
    BY DEF Steady, FilesAgree
  <2>2. k # m
    BY <2>1
  <2> QED
    BY <1>1, <1>2, <2>1, <2>2 DEF Becomes
<1> QED
  BY <1>1, <1>2, <1>3, <1>4, <1>5, <1>6, Steadied DEF Guarded, Becomes, Launching

\* Where nothing is launched there are no children.
LEMMA Childless ==
    ASSUME Guarded, Steady, NEW m \in Managers, ~Owns(mgr[m]), lock \in {m, None}
    PROVE  \A d \in Daemons : parent[d] = None
BY LifecycleAssumption DEF Guarded, Sound, TypeOK, Steady, Children

LEMMA StoppedIsIdle ==
    ASSUME Guarded, Steady, NEW m \in Managers, lock = m, mgr[m].pc = "stopped"
    PROVE  \A d \in Daemons : ~Busy(d)
<1>1. \A d \in Daemons : parent[d] = None
  BY Childless DEF Owns, Launching
<1>2. \A d \in Daemons : Recorded(d) => ~Live(d)
  BY DEF Guarded, Knows
<1> QED
  BY <1>1, <1>2 DEF Steady, NoneIsLost, Busy, Live

\* What a step of m shares with the others.
LEMMA QuietShares ==
    ASSUME NEW m \in Managers, Quiet(m), ~Fault(m)
    PROVE  /\ UNCHANGED faults
           /\ UNCHANGED lock \/ Acquire(m) \/ Release(m)
<1>1. CASE Command(m) \/ Acquire(m) \/ Inspect(m)
  BY <1>1 DEF Command, Acquire, Inspect, ReadPid, ReadIdentity, OpenHandle, ReadTicks, ReadMarker, CheckAgain
<1>2. CASE Report(m) \/ Refuse(m) \/ CheckBind(m) \/ SpawnFails(m) \/ Capture(m)
  BY <1>2 DEF Report, Refuse, CheckBind, SpawnFails, Capture, Return
<1>3. CASE ReceiveAck(m) \/ AckTimesOut(m) \/ WriteIdentity(m) \/ WritePid(m) \/ RemovePid(m)
  BY <1>3 DEF ReceiveAck, AckTimesOut, WriteIdentity, WritePid, RemovePid
<1>4. CASE Ready(m) \/ ReadyTimesOut(m) \/ RemoveIdentity(m) \/ WaitExit(m)
  BY <1>4 DEF Ready, ReadyTimesOut, RemoveIdentity, WaitExit, Return
<1> QED
  BY <1>1, <1>2, <1>3, <1>4 DEF Quiet

\* Who is without the lock disturbs nothing.
LEMMA OthersSteady ==
    ASSUME Guarded, Steady, NEW m \in Managers, Quiet(m), ~Fault(m), ~Acquire(m), lock # m
    PROVE  Steady'
<1>0. Sound /\ Locked(m) /\ Owned(m) /\ mgr[m].cmd \in Cmds
  BY SoundTyped, ManagersOwned DEF Guarded, Desks
<1>1. UNCHANGED <<procs, endpoint>> /\ UNCHANGED lock
  BY QuietIsQuiet, QuietShares DEF Release
<1>2. UNCHANGED <<pidfile, identity>>
  <2>1. ~Writes(mgr[m])
    BY <1>0 DEF Locked, Holds, Writes, Looks, Verdicts, Cmds
  <2> QED
    BY <2>1, WritersHold DEF files
<1>3. UNCHANGED parent \/ Orphan(m)
  BY QuietIsQuiet
<1>4. \A d \in Daemons : parent[d] # m
  BY DEF Steady, Children
<1>5. \A d \in Daemons : parent'[d] = parent[d]
  BY <1>3, <1>4 DEF Orphan
<1>6. Fine(m)
  BY <1>0, QuietFine
<1>7. mgr'[m].pc \notin Launching
  <2>1. Locked(m)' /\ mgr'[m].cmd \in Cmds
    BY <1>0, <1>6 DEF Owned, Fine, Typed, Desks
  <2> QED
    BY <1>1, <2>1 DEF Locked, Holds, Launching, Looks, Verdicts, Cmds
<1>8. NoneIsLost' /\ FilesAreOld'
  BY <1>1, <1>2, <1>5 DEF Steady, NoneIsLost, FilesAreOld, Busy, Recorded
<1>9. FilesAgree'
  <2> SUFFICES ASSUME identity # None, identity.pid # pidfile
               PROVE  \E k \in Managers : lock' = k /\ mgr'[k].pc \in {"unid", "wpid"}
    BY <1>2 DEF FilesAgree
  <2>1. PICK k \in Managers : lock = k /\ mgr[k].pc \in {"unid", "wpid"}
    BY DEF Steady, FilesAgree
  <2>2. mgr'[k] = mgr[k]
    BY <1>6, <2>1 DEF Fine
  <2> QED
    BY <1>1, <2>1, <2>2
<1> QED
  BY <1>0, <1>1, <1>2, <1>4, <1>5, <1>6, <1>7, <1>8, <1>9, Steadied DEF Fine

LEMMA AcquireSteady ==
    ASSUME Guarded, Steady, NEW m \in Managers, Acquire(m)
    PROVE  Steady'
<1>1. Moves(m, "pid") /\ lock = None /\ lock' = m
      /\ UNCHANGED <<procs, endpoint, parent, pidfile, identity>>
  BY GotoMoves DEF Acquire, Guarded, kernel, files
<1>2. \A d \in Daemons : parent[d] = None
  <2>1. \A d \in Daemons, k \in Managers : parent[d] # k
    BY <1>1, LifecycleAssumption DEF Steady, Children
  <2> QED
    BY <2>1 DEF Guarded, Sound, TypeOK
<1>3. NoneIsLost' /\ FilesAreOld'
  BY <1>1 DEF Steady, NoneIsLost, FilesAreOld, Busy, Recorded
<1>4. FilesAgree'
  BY <1>1, LifecycleAssumption DEF Steady, FilesAgree
<1>5. Kept(m)'
  BY <1>1 DEF Kept, Moves, Becomes, Owns, Launching
<1> QED
  BY <1>1, <1>2, <1>3, <1>4, <1>5, Steadied, LifecycleAssumption DEF Guarded, Moves, Becomes, Launching

\* To the holder, the files agree and a number without an identity is a stranger's.
LEMMA InspectSteady ==
    ASSUME Guarded, Steady, NEW m \in Managers, lock = m, Inspect(m)
    PROVE  Steady'
<1> DEFINE r == mgr[m]
<1>0. /\ Sound /\ Fits(m) /\ Knows(m) /\ FilesAreOld
      /\ UNCHANGED <<procs, endpoint, parent, pidfile, identity, lock>>
      /\ r.pc \in Looks /\ ~Owns(r)
      /\ \A k \in Managers : k # m => mgr'[k] = mgr[k]
  <2>1. UNCHANGED <<kernel, files, lock>>
    BY DEF Inspect, ReadPid, ReadIdentity, OpenHandle, ReadTicks, ReadMarker, CheckAgain
  <2>2. r.pc \in Looks
    BY DEF Inspect, ReadPid, ReadIdentity, OpenHandle, ReadTicks, ReadMarker, CheckAgain, Looks
  <2>3. Fine(m)
    BY InspectFine DEF Guarded
  <2> QED
    BY <2>1, <2>2, <2>3 DEF Guarded, Sound, Steady, kernel, files, Looks, Owns, Launching, Fine
<1>a. identity # None => identity.pid = pidfile
  BY <1>0, LifecycleAssumption DEF Steady, FilesAgree, Looks
<1> DEFINE y == mgr'[m]
<1>b. SUFFICES /\ y.pc \in Looks \cup Verdicts
               /\ y.pc = "running" => \A d \in Daemons : Recorded(d) => d = y.handle
               /\ y.pc = "unverified" => y.handle \in Strangers
  <2>1. ASSUME y.pc \in Looks \cup Verdicts,
               y.pc = "running" => \A d \in Daemons : Recorded(d) => d = y.handle,
               y.pc = "unverified" => y.handle \in Strangers
        PROVE  Steady'
    <3>1. Kept(m)'
      BY <1>0, <2>1 DEF Kept, Looks, Verdicts, Owns, Launching, Recorded
    <3> QED
      BY <1>0, <2>1, <3>1, StaysSteady DEF Looks, Verdicts, Launching
  <2> QED
    BY <2>1
<1> HIDE DEF y
<1>1. CASE ReadPid(m)
  <2>1. Becomes(m, r.cmd, "id", pidfile, r.ident, r.handle)
    BY <1>0, <1>1, SoundTyped, PidBecomes DEF ReadPid, Typed, Sound, TypeOK
  <2> QED
    BY <2>1 DEF Becomes, Looks, y
<1>2. CASE ReadIdentity(m)
  <2>0. r.pc = "id" /\ r.pid = pidfile
    BY <1>0, <1>2 DEF ReadIdentity, Knows
  <2>1. PICK x \in {"stopped", "unverified", "open"} :
          /\ mgr' = [mgr EXCEPT ![m].ident = identity, ![m].pc = x]
          /\ x = "unverified" => identity # None /\ identity.pid # r.pid
    <3>1. identity # None => identity.pid # None
      BY <1>0, LifecycleAssumption DEF Sound, TypeOK, Identities
    <3> QED
      BY <1>2, <3>1 DEF ReadIdentity
  <2>2. Becomes(m, r.cmd, x, r.pid, identity, r.handle)
    BY <1>0, <2>1, SoundTyped, IdentBecomes DEF Typed, Sound, TypeOK
  <2> QED
    BY <1>a, <2>0, <2>1, <2>2 DEF Becomes, Looks, Verdicts, y
<1>3. CASE OpenHandle(m)
  <2>0. r.pc = "open" /\ r.pid = pidfile /\ r.ident = identity /\ r.pid \in Pids
    BY <1>0, <1>3 DEF OpenHandle, Knows, Fits
  <2>1. ASSUME NEW p \in At(r.pid), Live(p),
               mgr' = [mgr EXCEPT ![m].handle = p,
                                  ![m].pc = IF r.ident = None THEN "unverified" ELSE "ticks"]
        PROVE  /\ y.pc \in {"unverified", "ticks"}
               /\ y.pc = "unverified" => y.handle \in Strangers
    <3>1. p \in Procs
      BY <2>1 DEF At
    <3>2. Becomes(m, r.cmd, IF r.ident = None THEN "unverified" ELSE "ticks", r.pid, r.ident, p)
      BY <1>0, <2>1, <3>1, SoundTyped, HandleBecomes DEF Typed
    <3>3. identity = None => p \in Strangers
      BY <1>0, <2>0, <2>1, <3>1, LifecycleAssumption DEF FilesAreOld, Live, Procs
    <3> QED
      BY <2>0, <3>2, <3>3 DEF Becomes, y
  <2>2. CASE Goto(m, "stopped")
    BY <1>0, <2>2, GotoMoves DEF Moves, Becomes, Verdicts, y
  <2> QED
    BY <1>3, <2>1, <2>2 DEF OpenHandle, Looks, Verdicts
<1>4. CASE ReadTicks(m)
  BY <1>0, <1>4, GotoMoves DEF ReadTicks, Moves, Becomes, Looks, Verdicts, y
<1>5. CASE ReadMarker(m)
  <2>1. PICK x \in {"final", "stopped", "unverified"} :
          /\ Goto(m, x)
          /\ x = "unverified" => Live(r.handle) /\ \E p \in At(r.pid) : p \in Strangers
    BY <1>5 DEF ReadMarker
  <2>2. r.pc = "marker"
    BY <1>5 DEF ReadMarker
  <2>3. x = "unverified" => r.handle \in Strangers
    BY <1>0, <2>1, <2>2 DEF Fits, Sound, Distinct, At, HasPid
  <2> QED
    BY <1>0, <2>1, <2>3, GotoMoves DEF Moves, Becomes, Looks, Verdicts, y
<1>6. CASE CheckAgain(m)
  <2>0. r.pc = "final" /\ r.ident = identity
    BY <1>0, <1>6 DEF CheckAgain, Knows
  <2>1. CASE Goto(m, "running") /\ Live(r.handle)
    <3>1. \A d \in Daemons : Recorded(d) => d = r.handle
      BY <1>0, <2>0, <2>1 DEF Fits, Recorded
    <3> QED
      BY <1>0, <2>1, <3>1, GotoMoves DEF Moves, Becomes, Looks, Verdicts, y
  <2>2. CASE Goto(m, "stopped")
    BY <1>0, <2>2, GotoMoves DEF Moves, Becomes, Verdicts, y
  <2> QED
    BY <1>6, <2>1, <2>2 DEF CheckAgain
<1> QED
  BY <1>1, <1>2, <1>3, <1>4, <1>5, <1>6 DEF Inspect

LEMMA ReturnsSteady ==
    ASSUME Guarded, Steady, NEW m \in Managers, lock = m,
           Report(m) \/ Refuse(m) \/ SpawnFails(m) \/ Ready(m) \/ ReadyTimesOut(m)
           \/ (CheckBind(m) /\ Return(m)) \/ (Capture(m) /\ Return(m)) \/ (WaitExit(m) /\ Return(m)),
           ~Live(mgr[m].handle) \/ ~Capture(m)
    PROVE  Steady'
<1> DEFINE r == mgr[m]
<1>0. Return(m) /\ UNCHANGED <<procs, endpoint, pidfile, identity>>
  BY DEF Report, Refuse, SpawnFails, Ready, ReadyTimesOut, CheckBind, Capture, WaitExit, files
<1>1. Kept(m) /\ \A d \in Daemons : parent[d] = m => r.handle = d /\ Owns(r)
  BY DEF Steady, Children
<1>2. CASE Report(m) \/ Refuse(m) \/ SpawnFails(m) \/ CheckBind(m)
  BY <1>0, <1>1, <1>2, ReturnSteady DEF Report, Refuse, SpawnFails, CheckBind, Owns, Launching, Verdicts
<1>3. CASE Ready(m) \/ ReadyTimesOut(m)
  BY <1>0, <1>1, <1>3, ReturnSteady
     DEF Ready, ReadyTimesOut, Waits, Kept, Recorded, Owns, Launching
<1>4. CASE Capture(m)
  BY <1>0, <1>1, <1>4, ReturnSteady DEF Capture, Busy, Live
<1>5. CASE WaitExit(m)
  BY <1>0, <1>1, <1>5, ReturnSteady DEF WaitExit, Kept, Owns, Launching
<1> QED
  BY <1>2, <1>3, <1>4, <1>5

\* From the verdict to the launch, and from the launch to the files.
LEMMA GotosSteady ==
    ASSUME Guarded, Steady, NEW m \in Managers, lock = m,
           (CheckBind(m) /\ ~Return(m)) \/ ReceiveAck(m) \/ AckTimesOut(m) \/ (WaitExit(m) /\ ~Return(m))
    PROVE  Steady'
<1> DEFINE r == mgr[m]
<1>0. Kept(m) /\ Sound
  BY DEF Steady, Guarded
<1>1. CASE CheckBind(m) /\ ~Return(m)
  <2>1. r.pc = "stopped" /\ Goto(m, "unpid") /\ UNCHANGED <<procs, endpoint, parent, pidfile, identity, lock>>
    BY <1>1 DEF CheckBind, files
  <2>2. Kept(m)'
    BY <1>0, <2>1, StoppedIsIdle, GotoMoves DEF Moves, Becomes, Kept, Busy, Owns, Launching
  <2> QED
    BY <2>1, <2>2, GotoSteady DEF Owns, Launching
<1>2. CASE ReceiveAck(m) \/ AckTimesOut(m)
  <2>1. /\ r.pc = "ack" /\ (Goto(m, "wid") \/ Goto(m, "cleanup"))
        /\ UNCHANGED <<procs, endpoint, parent, pidfile, identity, lock>>
    BY <1>2 DEF ReceiveAck, AckTimesOut, kernel, files
  <2>2. r.cmd = "up"
    BY <2>1 DEF Steady, Ups, Launching
  <2>3. CASE Goto(m, "wid")
    <3>1. Kept(m)'
      BY <1>0, <2>1, <2>3, GotoMoves DEF Moves, Becomes, Kept, Busy, Owns, Launching
    <3> QED
      BY <2>1, <2>2, <2>3, <3>1, GotoSteady DEF Launching
  <2>4. CASE Goto(m, "cleanup")
    <3>1. Kept(m)'
      BY <1>0, <2>1, <2>4, GotoMoves DEF Moves, Becomes, Kept, Busy, Owns, Launching
    <3> QED
      BY <2>1, <2>2, <2>4, <3>1, GotoSteady DEF Launching
  <2> QED
    BY <2>1, <2>3, <2>4
<1>3. CASE WaitExit(m) /\ ~Return(m)
  <2>1. /\ r.pc = "waiting" /\ ~Live(r.handle) /\ r.cmd # "up" /\ Goto(m, "unpid")
        /\ UNCHANGED <<procs, endpoint, parent, pidfile, identity, lock>>
    BY <1>3 DEF WaitExit, files
  <2>2. \A d \in Daemons : parent[d] = None
    BY <2>1, Childless DEF Owns, Launching
  <2>3. \A d \in Daemons : ~Busy(d)
    BY <1>0, <2>1, <2>2 DEF Kept, Steady, NoneIsLost, Busy, Live
  <2>4. Kept(m)'
    BY <1>0, <2>1, <2>3, GotoMoves DEF Moves, Becomes, Kept, Busy, Owns, Launching
  <2> QED
    BY <2>1, <2>4, GotoSteady DEF Owns, Launching
<1> QED
  BY <1>1, <1>2, <1>3

LEMMA CaptureSteady ==
    ASSUME Guarded, Steady, NEW m \in Managers, lock = m, Capture(m), Live(mgr[m].handle)
    PROVE  Steady'
<1> DEFINE d == mgr[m].handle
           i == [pid |-> procs[d].pid, boot |-> boot, ticks |-> procs[d].ticks, marker |-> d]
<1>1. i \in Identities /\ i.marker = d
  BY DEF Capture, Guarded, Sound, Fits, Born, TypeOK, Identities, Procs
<1>2. /\ mgr' = [mgr EXCEPT ![m].ident = i, ![m].pc = "ack"] /\ mgr[m].pc = "capture"
      /\ UNCHANGED <<procs, endpoint, parent, pidfile, identity, lock>>
  BY DEF Capture, Return, files
<1> HIDE DEF i
<1>3. Becomes(m, mgr[m].cmd, "ack", mgr[m].pid, i, mgr[m].handle)
  BY <1>1, <1>2, SoundTyped, IdentBecomes DEF Guarded, Typed
<1>4. Kept(m) /\ mgr[m].cmd = "up"
  BY <1>2 DEF Steady, Ups, Launching
<1>5. Kept(m)'
  BY <1>1, <1>2, <1>3, <1>4, LifecycleAssumption DEF Becomes, Kept, Busy, Owns, Launching
<1> QED
  BY <1>2, <1>3, <1>4, <1>5, StaysSteady DEF Becomes, Owns, Launching

LEMMA WritesSteady ==
    ASSUME Guarded, Steady, NEW m \in Managers, lock = m, WriteIdentity(m) \/ WritePid(m)
    PROVE  Steady'
<1> DEFINE r == mgr[m]
<1>0. /\ Sound /\ Kept(m) /\ r.pc \in {"wid", "wpid"} /\ r.cmd = "up"
      /\ r.ident \in Identities /\ r.ident # None /\ r.ident.pid \in Pids /\ r.ident.marker = r.handle
      /\ UNCHANGED <<procs, endpoint, parent, lock>>
  BY LifecycleAssumption
     DEF WriteIdentity, WritePid, kernel, Guarded, Sound, Fits, Identities, Steady, Ups, Launching, Kept
<1>1. /\ \A d \in Daemons : parent[d] = m => d = r.handle
      /\ \A d \in Daemons : Busy(d) => d = r.handle /\ parent[d] # None
  BY <1>0, LifecycleAssumption DEF Steady, Children, Kept, Owns, Launching
<1>2. NoneIsLost'
  BY <1>0, <1>1 DEF NoneIsLost, Busy
<1>3. CASE WriteIdentity(m)
  <2>1. Moves(m, "wpid") /\ identity' = r.ident /\ pidfile' = pidfile /\ r.pc = "wid"
    BY <1>0, <1>3, GotoMoves DEF WriteIdentity
  <2>2. FilesAreOld' /\ FilesAgree'
    BY <1>0, <2>1 DEF FilesAreOld, FilesAgree, Moves, Becomes
  <2>3. Kept(m)'
    BY <1>0, <2>1 DEF Kept, Moves, Becomes, Busy, Owns, Launching
  <2> QED
    BY <1>0, <1>1, <1>2, <2>1, <2>2, <2>3, Steadied DEF Moves, Becomes, Owns, Launching
<1>4. CASE WritePid(m)
  <2>1. Moves(m, "ready") /\ pidfile' = r.ident.pid /\ identity' = identity /\ r.pc = "wpid"
    BY <1>0, <1>4, GotoMoves DEF WritePid
  <2>2. identity = r.ident
    BY <1>0, <2>1 DEF Kept
  <2>3. FilesAreOld' /\ FilesAgree'
    BY <1>0, <2>1, <2>2 DEF FilesAreOld, FilesAgree, Moves, Becomes
  <2>4. Kept(m)'
    BY <1>0, <2>1, <2>2 DEF Kept, Moves, Becomes, Busy, Owns, Launching
  <2> QED
    BY <1>0, <1>1, <1>2, <2>1, <2>3, <2>4, Steadied DEF Moves, Becomes, Owns, Launching
<1> QED
  BY <1>3, <1>4

LEMMA RemovesSteady ==
    ASSUME Guarded, Steady, NEW m \in Managers, lock = m, RemovePid(m) \/ RemoveIdentity(m)
    PROVE  Steady'
<1> DEFINE r == mgr[m]
<1>0. /\ Sound /\ Kept(m) /\ r.pc \in {"unpid", "stopped", "unid"}
      /\ UNCHANGED <<procs, endpoint>>
  BY DEF RemovePid, RemoveIdentity, Clears, kernel, Guarded, Steady
<1>1. /\ \A d \in Daemons : parent[d] = None
      /\ \A d \in Daemons : ~Busy(d)
  BY <1>0, Childless, StoppedIsIdle DEF Kept, Owns, Launching
<1>2. NoneIsLost' /\ m # None
  BY <1>0, <1>1, LifecycleAssumption DEF NoneIsLost, Busy
<1>3. CASE RemovePid(m)
  <2>1. Moves(m, "unid") /\ pidfile' = None /\ UNCHANGED <<parent, identity, lock>>
    BY <1>0, <1>3, GotoMoves DEF RemovePid, kernel
  <2>2. FilesAreOld' /\ FilesAgree'
    BY <2>1 DEF FilesAreOld, FilesAgree, Moves, Becomes
  <2>3. Kept(m)'
    BY <1>0, <1>1, <2>1 DEF Kept, Moves, Becomes, Busy, Owns, Launching
  <2> QED
    BY <1>0, <1>1, <1>2, <2>1, <2>2, <2>3, Steadied DEF Moves, Becomes, Launching
<1>4. CASE RemoveIdentity(m)
  <2>1. identity' = None /\ pidfile' = None /\ r.pc = "unid"
    BY <1>0, <1>4 DEF RemoveIdentity, Kept
  <2>2. FilesAreOld' /\ FilesAgree'
    BY <2>1 DEF FilesAreOld, FilesAgree
  <2>3. CASE r.cmd = "up" /\ Goto(m, "spawn") /\ UNCHANGED <<parent, lock>>
    <3>1. Moves(m, "spawn")
      BY <1>0, <2>3, GotoMoves
    <3>2. Kept(m)'
      BY <1>0, <1>1, <2>1, <2>3, <3>1 DEF Kept, Moves, Becomes, Busy, Owns, Launching
    <3> QED
      BY <1>0, <1>1, <1>2, <2>2, <2>3, <3>1, <3>2, Steadied DEF Moves, Becomes
  <2>4. CASE Return(m)
    <3>1. Becomes(m, "none", "idle", None, None, None)
      BY <1>0, <2>4, SoundTyped, ReturnBecomes DEF Typed
    <3>2. lock' = None /\ \A d \in Daemons : parent'[d] = None
      BY <1>1, <2>4 DEF Return, Release, Orphan
    <3> QED
      BY <1>0, <1>1, <1>2, <2>2, <3>1, <3>2, Steadied DEF Becomes, Launching
  <2>5. CASE mgr' = [mgr EXCEPT ![m] = Begun("up")] /\ Release(m) /\ UNCHANGED parent
    <3>1. Becomes(m, "up", "lock", None, None, None)
      BY <1>0, <2>5, SoundTyped, BeginBecomes DEF Typed, Cmds
    <3>2. lock' = None
      BY <2>5 DEF Release
    <3> QED
      BY <1>0, <1>1, <1>2, <2>2, <2>5, <3>1, <3>2, Steadied DEF Becomes, Launching
  <2> QED
    BY <1>4, <2>3, <2>4, <2>5 DEF RemoveIdentity
<1> QED
  BY <1>3, <1>4

LEMMA SpawnSteady ==
    ASSUME Guarded, Steady, NEW m \in Managers, lock = m, Spawn(m)
    PROVE  Steady'
<1>0. /\ Sound /\ Kept(m) /\ mgr[m].pc = "spawn" /\ mgr[m].cmd = "up"
      /\ pidfile = None /\ identity = None /\ m # None
      /\ UNCHANGED <<endpoint, pidfile, identity, lock>>
  BY LifecycleAssumption DEF Spawn, files, Guarded, Steady, Kept, Ups, Launching
<1>1. PICK d \in Daemons, n \in Pids, t \in Ticks :
        /\ procs[d].life = "unborn"
        /\ procs' = [procs EXCEPT ![d] = [life |-> "starting", pid |-> n, ticks |-> t]]
        /\ parent' = [parent EXCEPT ![d] = m]
        /\ mgr' = [mgr EXCEPT ![m].handle = d, ![m].pc = "capture"]
  BY DEF Spawn
<1>2. Becomes(m, mgr[m].cmd, "capture", mgr[m].pid, mgr[m].ident, d)
  BY <1>0, <1>1, SoundTyped, HandleBecomes DEF Typed, Procs
<1>3. /\ \A e \in Daemons : parent[e] = None
      /\ \A e \in Daemons : ~Busy(e)
  BY <1>0, Childless DEF Kept, Owns, Launching
<1>4. /\ procs'[d].life = "starting" /\ \A e \in Daemons : e # d => procs'[e] = procs[e]
      /\ parent'[d] = m /\ \A e \in Daemons : e # d => parent'[e] = None
  BY <1>0, <1>1, <1>3 DEF Sound, TypeOK, Procs
<1>5. \A e \in Daemons : ~Busy(e)'
  BY <1>3, <1>4 DEF Busy
<1>6. Listening'
  BY <1>0, <1>1, <1>4 DEF Steady, Listening
<1>7. Ups'
  BY <1>0, <1>2 DEF Steady, Ups, Becomes
<1>8. Children'
  BY <1>0, <1>2, <1>4, LifecycleAssumption DEF Children, Becomes, Owns, Launching
<1>9. NoneIsLost' /\ FilesAreOld' /\ FilesAgree'
  BY <1>0, <1>5 DEF NoneIsLost, FilesAreOld, FilesAgree
<1>10. \A k \in Managers : Kept(k)'
  BY <1>0, <1>2, <1>4, <1>5 DEF Kept, Becomes, Owns
<1> QED
  BY <1>6, <1>7, <1>8, <1>9, <1>10 DEF Steady

LEMMA TerminateSteady ==
    ASSUME Guarded, Steady, NEW m \in Managers, lock = m, Terminate(m)
    PROVE  Steady'
<1> DEFINE r == mgr[m]
           h == mgr[m].handle
<1>0. /\ Sound /\ Kept(m) /\ procs \in [Procs -> Lifes] /\ h \in Daemons /\ h \in Procs
      /\ procs[h].life # "unborn" /\ r.pc \in {"cleanup", "running"}
      /\ r.pc = "cleanup" => r.cmd = "up"
      /\ r.pc = "running" => r.cmd # "up"
      /\ UNCHANGED <<parent, pidfile, identity, lock>>
  BY SoundTyped DEF Terminate, Guarded, Sound, Fits, Procs, Steady, Ups, Launching, files
<1>1. Moves(m, "waiting")
  BY <1>0, GotoMoves DEF Terminate
<1>2. PICK life \in AfterTerm(procs[h].life) : Hangs(h, life)
  BY DEF Terminate
<1>3. life \notin {"unborn", "acked", "serving"}
  BY <1>0, <1>2 DEF AfterTerm, Lifes, Lives
<1>4. /\ procs'[h].life = life /\ \A e \in Daemons : e # h => procs'[e] = procs[e]
      /\ endpoint' = IF endpoint = h THEN None ELSE endpoint
  BY <1>0, <1>2 DEF Hangs, Lifes
<1>5. \A e \in Daemons : Busy(e)' => Busy(e) /\ e # h
  BY <1>3, <1>4 DEF Busy
<1>6. Listening'
  BY <1>0, <1>4, LifecycleAssumption DEF Steady, Listening, Procs
<1>7. Ups'
  BY <1>1 DEF Steady, Ups, Moves, Becomes, Launching
<1>8. Children'
  <2> SUFFICES ASSUME NEW d \in Daemons, NEW k \in Managers, parent'[d] = k
               PROVE  lock' = k /\ mgr'[k].handle = d /\ Owns(mgr[k])'
    BY DEF Children
  <2>1. lock = k /\ mgr[k].handle = d /\ Owns(mgr[k]) /\ k = m
    BY <1>0 DEF Steady, Children
  <2> QED
    BY <1>0, <1>1, <2>1 DEF Moves, Becomes, Owns, Launching
<1>9. NoneIsLost'
  BY <1>0, <1>5 DEF Steady, NoneIsLost, Recorded
<1>10. FilesAreOld' /\ FilesAgree'
  <2>1. ~(identity = None /\ pidfile # None)
    BY <1>0 DEF Steady, FilesAreOld
  <2>2. identity # None => identity.pid = pidfile
    BY <1>0 DEF Steady, FilesAgree
  <2> QED
    BY <1>0, <2>1, <2>2 DEF FilesAreOld, FilesAgree
<1>11. \A k \in Managers : Kept(k)'
  <2>1. Kept(m)'
    BY <1>0, <1>1, <1>5 DEF Kept, Moves, Becomes, Owns, Launching, Recorded
  <2> QED
    BY <1>0, <2>1 DEF Kept
<1> QED
  BY <1>6, <1>7, <1>8, <1>9, <1>10, <1>11 DEF Steady

\* Daemons that end or serve, and strangers, leave what holds of the rest.
LEMMA AgingSteady ==
    ASSUME Sound, Steady, UNCHANGED <<parent, pidfile, identity, lock, mgr>>, Listening',
           \A d \in Daemons : Busy(d)' => Busy(d),
           \A d \in Daemons : procs[d].life = "unborn" => procs'[d].life = "unborn"
    PROVE  Steady'
<1>1. Ups' /\ Children' /\ NoneIsLost'
  BY DEF Steady, Ups, Children, NoneIsLost, Owns, Recorded
<1>2. FilesAreOld' /\ FilesAgree'
  BY DEF Steady, FilesAreOld, FilesAgree
<1>3. \A k \in Managers : Kept(k)'
  <2> SUFFICES ASSUME NEW k \in Managers, Kept(k) PROVE Kept(k)'
    BY DEF Steady
  <2>1. lock = k /\ mgr[k].pc = "waiting" => mgr[k].handle \in Daemons
    BY DEF Sound, Fits
  <2> QED
    BY <2>1 DEF Kept, Owns, Recorded
<1> QED
  BY <1>1, <1>2, <1>3 DEF Steady

LEMMA AcknowledgeSteady ==
    ASSUME Guarded, Steady, NEW d \in Daemons, Acknowledge(d)
    PROVE  Steady'
<1>0. /\ Sound /\ procs \in [Procs -> Lifes] /\ d \in Procs /\ procs[d].life = "starting"
      /\ UNCHANGED <<parent, endpoint, pidfile, identity, lock, mgr>>
  BY SoundTyped DEF Acknowledge, Guarded, Procs, files
<1>1. /\ procs'[d].life = IF Listens(d) THEN "acked" ELSE "dead"
      /\ \A e \in Daemons : e # d => procs'[e] = procs[e]
  BY <1>0 DEF Acknowledge
<1>2. Listening'
  BY <1>0, <1>1 DEF Steady, Listening
<1>3. CASE ~Listens(d)
  BY <1>0, <1>1, <1>2, <1>3, AgingSteady DEF Busy
<1>4. CASE Listens(d)
  <2>1. PICK k \in Managers : parent[d] = k /\ mgr[k].pc \in {"capture", "ack"}
    BY <1>0, <1>4 DEF Listens, Sound, TypeOK
  <2>2. lock = k /\ mgr[k].handle = d /\ Kept(k) /\ k # None
    BY <2>1, LifecycleAssumption DEF Steady, Children
  <2>3. \A e \in Daemons : Busy(e)' => Busy(e) \/ e = d
    BY <1>1 DEF Busy
  <2>4. Ups' /\ Children'
    BY <1>0 DEF Steady, Ups, Children, Owns
  <2>5. NoneIsLost'
    BY <1>0, <2>1, <2>2, <2>3 DEF Steady, NoneIsLost, Recorded
  <2>6. FilesAreOld' /\ FilesAgree'
    BY <1>0 DEF Steady, FilesAreOld, FilesAgree
  <2>7. Kept(k)'
    BY <1>0, <2>1, <2>2, <2>3 DEF Kept, Owns, Recorded
  <2> QED
    BY <1>0, <1>2, <2>2, <2>4, <2>5, <2>6, <2>7 DEF Steady, Kept
<1> QED
  BY <1>3, <1>4

LEMMA EnvironmentSteady ==
    ASSUME Guarded, Steady,
           \/ \E d \in Daemons : Acknowledge(d) \/ Serve(d)
           \/ \E p \in Procs : Exit(p)
           \/ \E s \in Strangers : StrangerStarts(s) \/ StrangerListens(s)
    PROVE  Steady'
<1>0. Sound /\ procs \in [Procs -> Lifes] /\ Listening
  BY SoundTyped DEF Guarded, Steady
<1>1. ASSUME NEW d \in Daemons, Acknowledge(d) PROVE Steady'
  BY <1>1, AcknowledgeSteady
<1>2. ASSUME NEW d \in Daemons, Serve(d) PROVE Steady'
  <2>0. d \in Procs /\ procs[d] \in Lifes
    BY <1>0 DEF Procs
  <2>1. /\ d \in Procs /\ procs[d].life = "acked" /\ UNCHANGED <<parent, pidfile, identity, lock, mgr>>
        /\ procs'[d].life \in {"serving", "dead"} /\ \A e \in Daemons : e # d => procs'[e] = procs[e]
        /\ endpoint' = endpoint \/ (endpoint' = d /\ procs'[d].life = "serving")
    <3>1. procs[d].life = "acked" /\ UNCHANGED <<parent, pidfile, identity, lock, mgr>>
      BY <1>2 DEF Serve, files
    <3>2. CASE procs' = [procs EXCEPT ![d].life = "serving"] /\ endpoint' = d
      BY <1>0, <2>0, <3>1, <3>2 DEF Procs, Lifes
    <3>3. CASE procs' = [procs EXCEPT ![d].life = "dead"] /\ UNCHANGED endpoint
      BY <1>0, <2>0, <3>1, <3>3 DEF Procs, Lifes
    <3> QED
      BY <1>2, <3>2, <3>3 DEF Serve
  <2>2. Listening'
    BY <1>0, <2>1 DEF Listening
  <2> QED
    BY <1>0, <2>1, <2>2, AgingSteady DEF Busy
<1>3. ASSUME NEW p \in Procs, Exit(p) PROVE Steady'
  <2>1. /\ procs[p].life # "unborn" /\ UNCHANGED <<parent, pidfile, identity, lock, mgr>>
        /\ procs'[p].life = "dead" /\ \A e \in Daemons : e # p => procs'[e] = procs[e]
        /\ endpoint' = IF endpoint = p THEN None ELSE endpoint
    BY <1>0, <1>3 DEF Exit, Live, Hangs, Procs, files
  <2>2. Listening'
    BY <1>0, <2>1, LifecycleAssumption DEF Listening, Procs
  <2> QED
    BY <1>0, <2>1, <2>2, AgingSteady DEF Busy
<1>4. ASSUME NEW s \in Strangers, StrangerStarts(s) \/ StrangerListens(s) PROVE Steady'
  <2>1. /\ UNCHANGED <<parent, pidfile, identity, lock, mgr>>
        /\ \A e \in Daemons : procs'[e] = procs[e]
        /\ endpoint' \in {endpoint, s}
    BY <1>0, <1>4, LifecycleAssumption DEF StrangerStarts, StrangerListens, Procs, files
  <2>2. Listening'
    BY <1>0, <2>1, LifecycleAssumption DEF Listening
  <2> QED
    BY <1>0, <2>1, <2>2, AgingSteady DEF Busy
<1> QED
  BY <1>1, <1>2, <1>3, <1>4

LEMMA ManagersSteady ==
    ASSUME Guarded, Steady, NEW m \in Managers, Quiet(m) \/ Spawn(m) \/ Terminate(m), ~Fault(m)
    PROVE  Steady'
<1>0. Sound /\ Locked(m) /\ mgr[m].cmd \in Cmds /\ Ups
  BY SoundTyped DEF Guarded, Desks, Steady
<1>1. CASE Acquire(m)
  BY <1>1, AcquireSteady
<1>2. CASE lock # m /\ Quiet(m) /\ ~Acquire(m)
  BY <1>2, OthersSteady
<1>3. CASE Spawn(m) \/ Terminate(m)
  <2>1. lock = m
    BY <1>0, <1>3 DEF Locked, Holds, Spawn, Terminate, Ups, Launching
  <2> QED
    BY <1>3, <2>1, SpawnSteady, TerminateSteady
<1>4. CASE lock = m /\ Quiet(m) /\ ~Acquire(m)
  <2>1. ~Command(m)
    BY <1>0, <1>4 DEF Locked, Holds, Command
  <2>2. CASE Capture(m)
    BY <1>4, <2>2, CaptureSteady, ReturnsSteady DEF Capture
  <2>3. CASE ~Capture(m)
    BY <1>4, <2>1, <2>3, InspectSteady, ReturnsSteady, GotosSteady, WritesSteady, RemovesSteady DEF Quiet
  <2> QED
    BY <2>2, <2>3
<1> QED
  BY <1>1, <1>2, <1>3, <1>4

\* Without a fault the files and the daemons are in order, whatever commands race.
Orderly == Guarded /\ (faults = 0 => Steady)

LEMMA OrderlyNext ==
    ASSUME Orderly, [Next]_vars
    PROVE  Orderly'
<1>1. Guarded'
  BY GuardedNext, GuardedStutters DEF Orderly
<1>2. faults \in Nat
  BY DEF Orderly, Guarded, Sound, TypeOK
<1>3. CASE UNCHANGED vars
  BY <1>1, <1>3 DEF Orderly, vars, Steady, Listening, Ups, Children, NoneIsLost, FilesAreOld, FilesAgree,
                    Kept, Busy, Owns, Recorded
<1>4. CASE Next
  <2>1. ASSUME NEW m \in Managers, Fault(m) PROVE faults' # 0
    BY <1>2, <2>1 DEF Fault, CaptureFails, WriteFails, RemoveFails, Crash
  <2>2. ASSUME NEW m \in Managers, Quiet(m) \/ Spawn(m) \/ Terminate(m), ~Fault(m), faults' = 0 PROVE Steady'
    <3>1. UNCHANGED faults
      BY <2>2, QuietShares DEF Spawn, Terminate
    <3> QED
      BY <2>2, <3>1, ManagersSteady DEF Orderly
  <2>3. CASE \/ \E d \in Daemons : Acknowledge(d) \/ Serve(d)
             \/ \E p \in Procs : Exit(p)
             \/ \E s \in Strangers : StrangerStarts(s) \/ StrangerListens(s)
    <3>1. UNCHANGED faults
      BY <2>3 DEF Acknowledge, Serve, Exit, StrangerStarts, StrangerListens
    <3> QED
      BY <1>1, <2>3, <3>1, EnvironmentSteady DEF Orderly
  <2>4. CASE Reboot
    BY <1>1, <1>2, <2>4 DEF Reboot, Orderly
  <2> QED
    BY <1>1, <1>4, <2>1, <2>2, <2>3, <2>4, NextIs DEF Orderly
<1> QED
  BY <1>3, <1>4

LEMMA OrderlyInit == Init => Orderly
<1> SUFFICES ASSUME Init PROVE Steady
  BY GuardedInit DEF Orderly
<1>1. \A d \in Daemons : procs[d].life = "unborn" /\ parent[d] = None /\ endpoint # d
  BY LifecycleAssumption DEF Init, Procs
<1>2. \A m \in Managers : mgr[m].pc = "idle" /\ lock # m
  BY LifecycleAssumption DEF Init, Idle
<1>3. identity = None
  BY DEF Init
<1> QED
  BY <1>1, <1>2, <1>3, LifecycleAssumption
     DEF Steady, Listening, Ups, Children, NoneIsLost, FilesAreOld, FilesAgree, Kept, Busy, Launching

LEMMA AlwaysOrderly == Spec => []Orderly
BY OrderlyInit, OrderlyNext, PTL DEF Spec

\* As long as no command crashes and no write fails, a daemon that serves is in the
\* files or its `up` is still at it, and only a stranger under the recorded number
\* makes a command refuse: for any number of commands, daemons and numbers.
THEOREM NoneIsLostByRaces == Spec => []DaemonsAreAccountedFor
<1>1. Orderly => NoDaemonIsLost
  BY LifecycleAssumption
     DEF Orderly, Guarded, Sound, TypeOK, Steady, NoneIsLost, Children, Busy, NoDaemonIsLost
<1>2. Orderly => RefusalsHaveACause
  BY DEF Orderly, Steady, Kept, RefusalsHaveACause
<1> QED
  BY <1>1, <1>2, AlwaysOrderly, PTL DEF DaemonsAreAccountedFor

\* The answer wait_for_ready gets is the recorded daemon's or a stranger's, whichever
\* of its two places `up` waits at.
THEOREM UpWaitsForItsOwn == Spec => UpAnswersForOurs
<1>1. ASSUME Orderly, NEW m \in Managers, faults = 0, Ready(m)
      PROVE  endpoint \in Strangers \/ (endpoint \in Daemons /\ Recorded(endpoint))
  <2> SUFFICES ASSUME endpoint \notin Strangers PROVE endpoint \in Daemons /\ Recorded(endpoint)
    OBVIOUS
  <2>0. /\ Sound /\ Locked(m) /\ Kept(m) /\ Waits(m) /\ Ups
    BY <1>1 DEF Orderly, Guarded, Steady, Ready
  <2>1. endpoint \in Daemons
    BY <1>1, <2>0 DEF Ready, Sound, TypeOK, Procs
  <2>2. lock = m
    BY <2>0 DEF Waits, Locked, Holds, Ups, Launching
  <2>3. Busy(endpoint)
    BY <1>1, <2>1 DEF Orderly, Steady, Listening, Busy
  <2>4. CASE mgr[m].pc = "ready"
    BY <2>0, <2>1, <2>2, <2>3, <2>4 DEF Kept, Owns, Launching, Recorded
  <2>5. CASE mgr[m].pc = "running"
    <3>1. parent[endpoint] = None
      BY <1>1, <2>1, <2>2, <2>5, Childless DEF Orderly, Owns, Launching
    <3> QED
      BY <1>1, <2>1, <2>3, <3>1 DEF Orderly, Steady, NoneIsLost
  <2> QED
    BY <2>0, <2>1, <2>4, <2>5 DEF Waits
<1>2. Orderly => [\A m \in Managers : faults = 0 /\ Ready(m) =>
                     endpoint \in Strangers \/ (endpoint \in Daemons /\ Recorded(endpoint))]_vars
  BY <1>1
<1> QED
  BY <1>2, AlwaysOrderly, PTL DEF UpAnswersForOurs
----------------------------------------------------------------------------
(* Backup and restore *)

Restoring == {"safety", "replace", "replacing", "sidecars", "check", "restored"}

\* A restore works on a backup it found whole, with the daemon down; the database it is about to
\* write over is among the safety copies, and what is there at its end is the backup.
BackupInv ==
    /\ BackupTypeOK /\ lastCommit \in Nat
    /\ serving => journal \in Journal
    /\ operator \in Restoring => ~serving /\ backup \in Database /\ backup.whole
    /\ operator = "replace" /\ live # Missing => live \in priors
    /\ operator \in {"sidecars", "check"} => live = backup
    /\ operator \in {"check", "restored"} => journal = Missing
    /\ RestoresLoseNothing

LEMMA FilesStayFiles ==
    ASSUME BackupAssumption, binary \in 1 .. MaxSchema, NEW f \in Database
    PROVE  /\ Migrated(f) \in Database /\ Migrated(f).whole = f.whole /\ Migrated(f).data = f.data
           /\ Torn(f) \in Database
<1>1. f = [schema |-> f.schema, data |-> f.data, whole |-> f.whole] /\ f.schema \in 1 .. MaxSchema
      /\ f.data \in Data /\ f.whole \in BOOLEAN
  BY DEF Database
<1>2. Migrated(f) = [schema |-> binary, data |-> f.data, whole |-> f.whole]
  BY <1>1 DEF Migrated, Database
<1>3. Torn(f) = [schema |-> f.schema, data |-> f.data, whole |-> FALSE]
      \/ Torn(f) = [schema |-> 1, data |-> {}, whole |-> FALSE]
  BY <1>1 DEF Torn, Database
<1>4. 1 \in 1 .. MaxSchema /\ {} \in Data
  BY DEF BackupAssumption, Data
<1>5. \A n \in 1 .. MaxSchema, d \in Data, w \in BOOLEAN : [schema |-> n, data |-> d, whole |-> w] \in Database
  BY DEF Database
<1>6. Torn(f) \in Database
  BY <1>1, <1>3, <1>4, <1>5
<1>7. Migrated(f) \in Database
  BY <1>1, <1>2, <1>5
<1> QED
  BY <1>2, <1>6, <1>7

\* An opening yields a database, and without a journal the one that is there.
LEMMA OpeningsOfDatabases ==
    ASSUME BackupAssumption, binary \in 1 .. MaxSchema, live \in Database, journal \in Journal \cup {Missing}
    PROVE  Openings \subseteq Database /\ (journal = Missing => Openings = {live})
<1>1. Torn(live) \in Database
  BY FilesStayFiles
<1>2. CASE journal = Missing \/ live = Missing
  BY <1>2 DEF Openings
<1>3. CASE journal # Missing /\ live # Missing
  <2>1. journal.data \in Data /\ journal.schema \in 1 .. MaxSchema
    BY <1>3 DEF Journal
  <2>2. [live EXCEPT !.schema = journal.schema, !.data = journal.data] \in Database
    BY <2>1 DEF Database
  <2>3. \A d \in {live.data, journal.data} : [live EXCEPT !.data = d] \in Database
    BY <2>1 DEF Database
  <2> QED
    BY <1>1, <1>3, <2>2, <2>3 DEF Openings
<1> QED
  BY <1>2, <1>3

LEMMA BackupInitInv == BackupInit => BackupInv
<1>1. 1 \in 1 .. MaxSchema /\ {} \in Data
  BY BackupAssumption DEF BackupAssumption, Data
<1> QED
  BY <1>1 DEF BackupInit, BackupInv, BackupTypeOK, RestoresLoseNothing, Restoring, Database

\* A step that is not one of a restore, after which no restore is under way.
LEMMA OthersKeepBackup ==
    ASSUME BackupInv, BackupTypeOK', (lastCommit \in Nat)', (serving => journal \in Journal)',
           UNCHANGED <<priors, replaced>>,
           operator' \notin Restoring \/ UNCHANGED <<live, journal, serving, backup, operator>>
    PROVE  BackupInv'
  BY DEF BackupInv, Restoring, RestoresLoseNothing

\* Each action of the daemon keeps the invariant.
LEMMA DaemonKeepsBackup ==
    ASSUME BackupInv, BackupAssumption, Openings \subseteq Database,
           StartDaemon \/ CommitData \/ StopDaemon \/ KillDaemon \/ InstallBinary
    PROVE  BackupInv'
<1>1. /\ BackupTypeOK /\ lastCommit \in Nat /\ (serving => journal \in Journal)
      /\ (operator \in Restoring => ~serving)
  BY DEF BackupInv
<1>2. CASE StartDaemon
  <2>1. PICK f \in Openings : journal' = [schema |-> binary, data |-> f.data, ours |-> TRUE]
    BY <1>2 DEF StartDaemon
  <2>2. f.data \in Data
    BY DEF Database
  <2>3. journal' \in Journal
    BY <1>1, <2>1, <2>2 DEF Journal, BackupTypeOK
  <2>4. operator' = "idle" /\ UNCHANGED <<live, binary, backup, manifest, priors, replaced, lastCommit>>
    BY <1>2 DEF StartDaemon, Daemon
  <2> QED
    BY <1>1, <2>3, <2>4, OthersKeepBackup DEF BackupTypeOK, Restoring
<1>3. CASE CommitData
  <2>1. operator \notin Restoring
    BY <1>1, <1>3 DEF CommitData
  <2>2. UNCHANGED <<live, binary, backup, manifest, priors, operator, replaced, serving>>
    BY <1>3 DEF CommitData, Daemon
  <2>3. lastCommit' \in 1 .. MaxCommits /\ lastCommit' \in Nat /\ journal \in Journal
    BY <1>1, <1>3 DEF CommitData, BackupAssumption
  <2>4. journal' = [journal EXCEPT !.data = journal.data \cup {lastCommit'}]
    BY <1>3 DEF CommitData
  <2>5. journal.data \cup {lastCommit'} \in Data
    BY <2>3 DEF Journal, Data
  <2>6. journal' \in Journal
    BY <2>3, <2>4, <2>5 DEF Journal
  <2> QED
    BY <1>1, <2>1, <2>2, <2>3, <2>6, OthersKeepBackup DEF BackupTypeOK
<1>4. CASE StopDaemon
  <2>1. operator \notin Restoring
    BY <1>1, <1>4 DEF StopDaemon
  <2>2. UNCHANGED <<binary, backup, manifest, priors, operator, replaced, lastCommit>>
        /\ live' \in Database /\ journal' = Missing /\ ~serving'
    BY <1>4 DEF StopDaemon, Daemon
  <2> QED
    BY <1>1, <2>1, <2>2, OthersKeepBackup DEF BackupTypeOK
<1>5. CASE KillDaemon
  BY <1>1, <1>5, OthersKeepBackup DEF KillDaemon, Daemon, BackupTypeOK
<1>6. CASE InstallBinary
  <2>1. binary' \in 1 .. MaxSchema
    BY <1>1, <1>6 DEF InstallBinary, BackupTypeOK, BackupAssumption
  <2> QED
    BY <1>1, <1>6, <2>1, OthersKeepBackup DEF InstallBinary, BackupTypeOK
<1> QED
  BY <1>2, <1>3, <1>4, <1>5, <1>6

\* The commands that keep or read a backup keep it.
LEMMA CopiesKeepBackup ==
    ASSUME BackupInv, BackupAssumption, Openings \subseteq Database,
           \A f \in Database : Migrated(f) \in Database /\ Torn(f) \in Database,
           StartBackup \/ CopyBackup \/ WriteManifest \/ VerifyBackup \/ PreviewRestore \/ EndCommand
             \/ KillCommand
    PROVE  BackupInv'
<1>1. /\ BackupTypeOK /\ lastCommit \in Nat /\ (serving => journal \in Journal)
      /\ (operator \in Restoring => ~serving)
  BY DEF BackupInv
<1>2. ASSUME OpensLive
      PROVE  live' \in Database /\ journal' \in Journal \cup {Missing} /\ (serving => journal' \in Journal)
  BY <1>1, <1>2 DEF OpensLive, BackupTypeOK
<1>3. ASSUME OpensBackup
      PROVE  backup' \in Database \cup {Missing}
  BY <1>1, <1>3 DEF OpensBackup, BackupTypeOK, Usable
<1>4. Torn(Missing) \in Database
  BY DEF Torn, Database, Data, BackupAssumption
<1>5. CASE StartBackup
  <2>1. UNCHANGED <<binary, serving, lastCommit, manifest, priors, replaced>> /\ operator' = "copy" /\ OpensLive
        /\ backup' \in Database
    BY <1>1, <1>4, <1>5 DEF StartBackup, OperatorActs, BackupTypeOK
  <2> QED
    BY <1>1, <1>2, <2>1, OthersKeepBackup DEF BackupTypeOK, Restoring
<1>6. CASE CopyBackup
  <2>1. UNCHANGED <<binary, serving, lastCommit, manifest, priors, replaced, live, journal>> /\ operator' = "manifest"
        /\ backup' \in Database
    BY <1>6 DEF CopyBackup, OperatorActs
  <2> QED
    BY <1>1, <2>1, OthersKeepBackup DEF BackupTypeOK, Restoring
<1>7. CASE WriteManifest
  <2>1. UNCHANGED <<binary, serving, lastCommit, backup, priors, replaced, live, journal>> /\ operator' = "idle"
        /\ manifest' = backup
    BY <1>7 DEF WriteManifest, OperatorActs
  <2> QED
    BY <1>1, <2>1, OthersKeepBackup DEF BackupTypeOK, Restoring
<1>8. CASE VerifyBackup
  <2>1. UNCHANGED <<binary, serving, lastCommit, manifest, priors, replaced, live, journal>> /\ operator = "idle"
        /\ operator' = "idle" /\ OpensBackup
    BY <1>8 DEF VerifyBackup, OperatorActs, Begins
  <2> QED
    BY <1>1, <1>3, <2>1, OthersKeepBackup DEF BackupTypeOK, Restoring
<1>9. CASE PreviewRestore
  <2>1. UNCHANGED <<binary, serving, lastCommit, manifest, priors, replaced>> /\ operator = "idle"
        /\ operator' = "idle" /\ OpensBackup /\ (OpensLive \/ UNCHANGED <<live, journal>>)
    BY <1>9 DEF PreviewRestore, OperatorActs, Begins
  <2> QED
    BY <1>1, <1>2, <1>3, <2>1, OthersKeepBackup DEF BackupTypeOK, Restoring
<1>10. CASE EndCommand
  BY <1>1, <1>10, OthersKeepBackup DEF EndCommand, OperatorActs, BackupTypeOK, Restoring
<1>11. CASE KillCommand
  <2>1. UNCHANGED <<binary, live, journal, serving, backup, priors, lastCommit, replaced>> /\ operator' = "idle"
        /\ manifest' \in {manifest, Missing}
    BY <1>11 DEF KillCommand
  <2> QED
    BY <1>1, <2>1, OthersKeepBackup DEF BackupTypeOK, Restoring
<1> QED
  BY <1>5, <1>6, <1>7, <1>8, <1>9, <1>10, <1>11

\* Each step of a restore keeps it.
LEMMA RestoreKeepsBackup ==
    ASSUME BackupInv, BackupAssumption, journal = Missing => Openings = {live},
           \A f \in Database : /\ Migrated(f) \in Database /\ Migrated(f).whole = f.whole
                               /\ Migrated(f).data = f.data /\ Torn(f) \in Database,
           StartRestore \/ CopyTarget \/ StartReplace \/ ReplaceTarget \/ RemoveSidecars \/ CheckTarget
    PROVE  BackupInv'
<1>1. /\ BackupTypeOK /\ lastCommit \in Nat /\ (serving => journal \in Journal) /\ RestoresLoseNothing
      /\ (operator \in Restoring => ~serving /\ backup \in Database /\ backup.whole)
      /\ (operator = "replace" /\ live # Missing => live \in priors)
      /\ (operator \in {"sidecars", "check"} => live = backup)
      /\ (operator \in {"check", "restored"} => journal = Missing)
  BY DEF BackupInv
<1>2. CASE StartRestore
  <2>1. UNCHANGED <<binary, serving, lastCommit, manifest, priors, replaced, live, journal>> /\ ~serving
        /\ operator' \in {"safety", "idle"}
    BY <1>2 DEF StartRestore, OperatorActs
  <2>2. backup' \in Database \cup {Missing}
    BY <1>1, <1>2 DEF StartRestore, OpensBackup, BackupTypeOK, Usable
  <2>3. operator' = "safety" => backup' \in Database /\ backup'.whole
    BY <1>1, <1>2 DEF StartRestore, OpensBackup, IsGood, BackupTypeOK, Usable
  <2> QED
    BY <1>1, <2>1, <2>2, <2>3 DEF BackupInv, BackupTypeOK, Restoring, RestoresLoseNothing
<1>3. CASE CopyTarget
  <2>1. UNCHANGED <<binary, serving, lastCommit, manifest, backup, replaced, live, journal>>
        /\ operator = "safety" /\ operator' = "replace" /\ priors \subseteq priors'
        /\ (live # Missing => live \in priors') /\ priors' \subseteq Database
    BY <1>1, <1>3 DEF CopyTarget, OperatorActs, Priors, BackupTypeOK
  <2> QED
    BY <1>1, <2>1 DEF BackupInv, BackupTypeOK, Restoring, RestoresLoseNothing
<1>4. CASE StartReplace
  <2>1. UNCHANGED <<binary, serving, lastCommit, manifest, backup, priors>>
        /\ operator = "replace" /\ operator' = "replacing" /\ live' \in Database
    BY <1>1, <1>4 DEF StartReplace, OperatorActs, BackupTypeOK
  <2>2. journal' \in Journal \cup {Missing}
    BY <1>1, <1>4 DEF StartReplace, Disowned, BackupTypeOK, Journal
  <2>3. \A d \in replaced' : d \in replaced \/ (d = live.data /\ live # Missing /\ live.whole)
    BY <1>4 DEF StartReplace, Usable
  <2>4. replaced' \subseteq Data
    BY <1>1, <2>3 DEF BackupTypeOK, Database
  <2>5. \A d \in replaced' : \E f \in priors : f.whole /\ f.data = d
    BY <1>1, <2>1, <2>3 DEF RestoresLoseNothing
  <2> QED
    BY <1>1, <2>1, <2>2, <2>4, <2>5 DEF BackupInv, BackupTypeOK, Restoring, RestoresLoseNothing
<1>5. CASE ReplaceTarget
  <2>1. UNCHANGED <<binary, serving, lastCommit, manifest, backup, replaced, priors, journal>>
        /\ operator = "replacing" /\ operator' = "sidecars" /\ live' = backup
    BY <1>5 DEF ReplaceTarget, OperatorActs
  <2> QED
    BY <1>1, <2>1 DEF BackupInv, BackupTypeOK, Restoring, RestoresLoseNothing
<1>6. CASE RemoveSidecars
  <2>1. UNCHANGED <<binary, serving, lastCommit, manifest, backup, replaced, priors, live>>
        /\ operator = "sidecars" /\ operator' = "check" /\ journal' = Missing
    BY <1>6 DEF RemoveSidecars, OperatorActs, JournalLeft
  <2> QED
    BY <1>1, <2>1 DEF BackupInv, BackupTypeOK, Restoring, RestoresLoseNothing
<1>7. CASE CheckTarget
  <2>1. UNCHANGED <<binary, serving, lastCommit, manifest, backup, replaced, priors>> /\ operator = "check"
    BY <1>7 DEF CheckTarget, OperatorActs
  <2>2. live = backup /\ live \in Database /\ live.whole /\ ~serving /\ Openings = {live} /\ journal = Missing
    BY <1>1, <2>1 DEF Restoring
  <2>3. \/ live' = Migrated(live) /\ journal' = Missing /\ operator' = "restored"
        \/ operator' = "idle" /\ UNCHANGED <<live, journal>>
    BY <1>7, <2>2 DEF CheckTarget
  <2>4. live' \in Database /\ live'.whole /\ live'.data = backup.data /\ journal' = Missing
        /\ operator' \in {"restored", "idle"}
    BY <2>2, <2>3
  <2> QED
    BY <1>1, <2>1, <2>2, <2>4 DEF BackupInv, BackupTypeOK, Restoring, RestoresLoseNothing
<1> QED
  BY <1>2, <1>3, <1>4, <1>5, <1>6, <1>7

LEMMA BackupNextInv ==
    ASSUME BackupInv, BackupAssumption, [BackupNext]_backupVars
    PROVE  BackupInv'
<1>1. binary \in 1 .. MaxSchema /\ live \in Database /\ journal \in Journal \cup {Missing}
  BY DEF BackupInv, BackupTypeOK
<1>2. Openings \subseteq Database /\ (journal = Missing => Openings = {live})
  BY <1>1, OpeningsOfDatabases
<1>3. \A f \in Database : /\ Migrated(f) \in Database /\ Migrated(f).whole = f.whole
                          /\ Migrated(f).data = f.data /\ Torn(f) \in Database
  BY <1>1, FilesStayFiles
<1>4. CASE BackupNext
  BY <1>2, <1>3, <1>4, DaemonKeepsBackup, CopiesKeepBackup, RestoreKeepsBackup DEF BackupNext
<1>5. CASE UNCHANGED backupVars
  BY <1>5 DEF backupVars, BackupInv, BackupTypeOK, RestoresLoseNothing, Restoring
<1> QED
  BY <1>4, <1>5

LEMMA AlwaysBackup == BackupSpec => []BackupInv
  BY BackupInitInv, BackupNextInv, BackupAssumption, PTL DEF BackupSpec

\* Whatever is killed, and however often a restore is begun again (restore_apply of src/src/backup.rs),
\* each database that was closed and that a restore wrote over stays whole among the safety copies.
THEOREM NothingIsLostByRestores == BackupSpec => []RestoresLoseNothing
<1>1. BackupInv => RestoresLoseNothing
  BY DEF BackupInv
<1> QED
  BY <1>1, AlwaysBackup, PTL
----------------------------------------------------------------------------
(* The managed container *)

CallPcs == {"idle", "look", "verify", "running", "bindold", "bindnew", "start", "create", "wait",
            "stop", "pull", "ok"}
CallsOf == [pc: CallPcs, last: {"none", "up", "down"}, set: Settings \cup {NoServer}, blind: BOOLEAN]
Boxes == [db: {LinkOf[d] : d \in Stores}, scope: Scopes, on: BOOLEAN]

\* What a call has seen: unless it has been blinded, the container it looked at is there over the
\* database it asks for, and nobody else has the address once it has been started.
Seen(k) ==
    /\ k.pc \notin {"idle", "ok"} => k.last # "none" /\ k.set \in Settings
    /\ ~k.blind /\ k.pc \in {"running", "bindold", "start", "wait"} => box # NoServer /\ box.db = MountOf(k.set)
    /\ ~k.blind /\ k.pc = "wait" => other = NoServer

BoxInv ==
    /\ ContainersTypeOK
    /\ BoxRuns => other = NoServer
    /\ \A c \in Callers : Seen(calls[c])

LEMMA BoxTyped ==
    ContainersTypeOK <=> /\ box \in Boxes \cup {NoServer}
                         /\ other \in [db: Stores, scope: Scopes] \cup {NoServer}
                         /\ stored \in [Stores -> SUBSET Scopes] /\ swaps \in 0 .. MaxSwaps
                         /\ calls \in [Callers -> CallsOf]
  BY DEF ContainersTypeOK, CallsOf, CallPcs, Boxes

\* Where a call goes next.
LEMMA ToGoes ==
    ASSUME NEW c \in Callers, NEW pc \in CallPcs, calls \in [Callers -> CallsOf], To(c, pc)
    PROVE  /\ calls' \in [Callers -> CallsOf]
           /\ \A d \in Callers \ {c} : calls'[d] = calls[d]
           /\ pc \notin {"ok", "failed"} =>
                 calls'[c] = [pc |-> pc, last |-> calls[c].last, set |-> calls[c].set, blind |-> calls[c].blind]
           /\ pc = "ok" => calls'[c].pc = "ok"
<1> DEFINE next == CASE pc = "ok" -> [NoCall EXCEPT !.pc = "ok"]
                     [] pc = "failed" -> NoCall
                     [] OTHER -> [calls[c] EXCEPT !.pc = pc]
<1>1. calls' = [calls EXCEPT ![c] = next]
  BY DEF To
<1>2. calls[c] \in CallsOf
  OBVIOUS
<1>3. pc # "failed"
  BY DEF CallPcs
<1>4. pc # "ok" => next = [pc |-> pc, last |-> calls[c].last, set |-> calls[c].set, blind |-> calls[c].blind]
  BY <1>2, <1>3 DEF CallsOf
<1>5. pc = "ok" => next = [pc |-> "ok", last |-> "none", set |-> NoServer, blind |-> FALSE]
  BY DEF NoCall
<1>6. next \in CallsOf
  BY <1>2, <1>4, <1>5 DEF CallsOf, CallPcs
<1> HIDE DEF next
<1> QED
  BY <1>1, <1>3, <1>4, <1>5, <1>6

LEMMA ToFails ==
    ASSUME NEW c \in Callers, calls \in [Callers -> CallsOf], To(c, "failed")
    PROVE  /\ calls' \in [Callers -> CallsOf]
           /\ \A d \in Callers \ {c} : calls'[d] = calls[d]
           /\ calls'[c].pc = "idle"
<1>1. calls' = [calls EXCEPT ![c] = NoCall]
  BY DEF To
<1>2. NoCall \in CallsOf /\ NoCall.pc = "idle"
  BY DEF NoCall, CallsOf, CallPcs
<1> QED
  BY <1>1, <1>2

\* The container keeps its database while it is there.
BoxStays ==
    /\ box # NoServer => box' # NoServer /\ box'.db = box.db
    /\ other' \in {other, NoServer}

\* A call's own step, while the container stays: the invariant is kept if the call still sees truly.
LEMMA CallKeepsBox ==
    ASSUME BoxInv, NEW c \in Callers, calls' \in [Callers -> CallsOf],
           \A d \in Callers \ {c} : calls'[d] = calls[d],
           box' \in Boxes \cup {NoServer}, BoxRuns' => other' = NoServer, BoxStays,
           UNCHANGED <<other, stored, swaps>>, Seen(calls[c])'
    PROVE  BoxInv'
<1>1. ContainersTypeOK'
  <2>1. stored' \in [Stores -> SUBSET Scopes] /\ swaps' \in 0 .. MaxSwaps
        /\ other' \in [db: Stores, scope: Scopes] \cup {NoServer}
    BY BoxTyped DEF BoxInv
  <2> QED
    BY <2>1 DEF ContainersTypeOK, CallsOf, CallPcs, Boxes
<1>2. ASSUME NEW d \in Callers \ {c} PROVE Seen(calls[d])'
  BY DEF BoxInv, Seen, BoxStays
<1> QED
  BY <1>1, <1>2 DEF BoxInv

\* The steps of a call that leave the container as it is.
LEMMA QuietCallsKeepBox ==
    ASSUME BoxInv, NEW c \in Callers,
           Look(c) \/ Verify(c) \/ AskRunning(c) \/ Bind(c) \/ Wait(c) \/ Pull(c)
    PROVE  BoxInv'
<1> DEFINE k == calls[c]
<1>1. /\ calls \in [Callers -> CallsOf] /\ box \in Boxes \cup {NoServer} /\ k \in CallsOf
      /\ (BoxRuns => other = NoServer) /\ Seen(k)
  BY BoxTyped DEF BoxInv
<1>2. UNCHANGED <<box, other, stored, swaps>>
  BY DEF Look, Verify, AskRunning, Bind, Wait, Pull, RestStays
<1>3. BoxStays /\ (BoxRuns' => other' = NoServer)
  BY <1>1, <1>2 DEF BoxStays, BoxRuns, Exists
<1>4. CASE To(c, "failed")
  <2>1. Seen(calls[c])'
    BY <1>1, <1>4, ToFails DEF Seen
  <2> QED
    BY <1>1, <1>2, <1>3, <1>4, <2>1, ToFails, CallKeepsBox
<1>5. CASE To(c, "ok")
  <2>1. Seen(calls[c])'
    BY <1>1, <1>5, ToGoes DEF Seen, CallPcs
  <2> QED
    BY <1>1, <1>2, <1>3, <1>5, <2>1, ToGoes, CallKeepsBox DEF CallPcs
<1>6. ASSUME NEW pc \in CallPcs \ {"ok", "idle", "wait"}, To(c, pc), k.pc \notin {"idle", "ok"},
             pc \in {"running", "bindold", "start"} /\ ~k.blind => box # NoServer /\ box.db = MountOf(k.set)
      PROVE  BoxInv'
  <2>1. pc # "failed"
    BY <1>6 DEF CallPcs
  <2>2. calls'[c] = [pc |-> pc, last |-> k.last, set |-> k.set, blind |-> k.blind]
    BY <1>1, <1>6, <2>1, ToGoes
  <2>3. Seen(calls[c])'
    BY <1>1, <1>2, <1>6, <2>2 DEF Seen, MountOf
  <2> QED
    BY <1>1, <1>2, <1>3, <1>6, <2>3, ToGoes, CallKeepsBox
<1>7. \/ To(c, "failed") \/ To(c, "ok")
      \/ k.pc = "look" /\ (To(c, "verify") \/ To(c, "bindnew"))
      \/ k.pc = "verify" /\ Mounted(k.set) /\ To(c, "running")
      \/ k.pc = "running" /\ (To(c, "start") \/ To(c, "bindold"))
      \/ k.pc = "bindold" /\ To(c, "start")
      \/ k.pc = "bindnew" /\ To(c, "create")
      \/ k.pc = "pull" /\ To(c, "stop")
  BY DEF Look, Verify, AskRunning, Bind, Wait, Pull
<1>8. /\ "verify" \in CallPcs /\ "bindnew" \in CallPcs /\ "running" \in CallPcs /\ "start" \in CallPcs
      /\ "bindold" \in CallPcs /\ "create" \in CallPcs /\ "stop" \in CallPcs
  BY DEF CallPcs
<1>9. CASE k.pc = "verify" /\ Mounted(k.set) /\ To(c, "running")
  BY <1>6, <1>8, <1>9 DEF Mounted, Exists
<1>10. CASE k.pc = "running" /\ (To(c, "start") \/ To(c, "bindold"))
  BY <1>1, <1>6, <1>8, <1>10 DEF Seen
<1>11. CASE k.pc = "bindold" /\ To(c, "start")
  BY <1>1, <1>6, <1>8, <1>11 DEF Seen
<1>12. CASE \/ k.pc = "look" /\ (To(c, "verify") \/ To(c, "bindnew"))
            \/ k.pc = "bindnew" /\ To(c, "create")
            \/ k.pc = "pull" /\ To(c, "stop")
  BY <1>6, <1>8, <1>12
<1> QED
  BY <1>4, <1>5, <1>7, <1>9, <1>10, <1>11, <1>12

\* Starting container b, the one that is there or one over the database asked for.
LEMMA StartsKeepsBox ==
    ASSUME BoxInv, NEW c \in Callers, NEW b \in Boxes, calls[c].pc \notin {"idle", "ok"}, Starts(c, b),
           RestStays, box # NoServer => b = box, box = NoServer => ~b.on,
           ~calls[c].blind => b.db = MountOf(calls[c].set), NoServer \notin Boxes
    PROVE  BoxInv'
<1> DEFINE k == calls[c]
<1>1. calls \in [Callers -> CallsOf] /\ k \in CallsOf /\ (BoxRuns => other = NoServer) /\ Seen(k)
  BY BoxTyped DEF BoxInv
<1>2. UNCHANGED <<other, stored, swaps>>
  BY DEF RestStays
<1>3. b = [db |-> b.db, scope |-> b.scope, on |-> b.on] /\ b.db \in {LinkOf[d] : d \in Stores} /\ b.scope \in Scopes
      /\ b.on \in BOOLEAN
  BY DEF Boxes
<1>4. CASE box' = b /\ To(c, "failed")
  <2>1. Seen(calls[c])'
    BY <1>1, <1>4, ToFails DEF Seen
  <2>2. BoxStays /\ (BoxRuns' => other' = NoServer)
    BY <1>1, <1>2, <1>4 DEF BoxStays, BoxRuns, Exists
  <2> QED
    BY <1>1, <1>2, <1>4, <2>1, <2>2, ToFails, CallKeepsBox
<1>5. CASE (b.on \/ other = NoServer) /\ box' = [b EXCEPT !.on = TRUE] /\ To(c, "wait")
  <2>1. box' = [db |-> b.db, scope |-> b.scope, on |-> TRUE]
    BY <1>3, <1>5
  <2>2. box' \in Boxes /\ box'.db = b.db
    BY <1>3, <2>1 DEF Boxes
  <2>3. other = NoServer
    BY <1>1, <1>5 DEF BoxRuns, Exists
  <2>4. calls'[c] = [pc |-> "wait", last |-> k.last, set |-> k.set, blind |-> k.blind]
        /\ calls' \in [Callers -> CallsOf] /\ \A d \in Callers \ {c} : calls'[d] = calls[d]
    BY <1>1, <1>5, ToGoes DEF CallPcs
  <2>5. Seen(calls[c])'
    BY <1>1, <1>2, <2>2, <2>3, <2>4 DEF Seen, MountOf
  <2>6. BoxStays /\ (BoxRuns' => other' = NoServer)
    BY <1>2, <2>2, <2>3 DEF BoxStays, BoxRuns, Exists
  <2> QED
    BY <1>1, <1>2, <2>2, <2>4, <2>5, <2>6, CallKeepsBox
<1> QED
  BY <1>4, <1>5 DEF Starts

\* The steps of a call that may change the container.
LEMMA CallsKeepBox ==
    ASSUME BoxInv, ContainersAssumption, NoServer \notin Boxes, NEW c \in Callers,
           Start(c) \/ RunNew(c) \/ StopBox(c)
    PROVE  BoxInv'
<1> DEFINE k == calls[c]
<1>1. /\ calls \in [Callers -> CallsOf] /\ box \in Boxes \cup {NoServer} /\ k \in CallsOf
      /\ (BoxRuns => other = NoServer) /\ Seen(k)
  BY BoxTyped DEF BoxInv
<1>2. UNCHANGED <<other, stored, swaps>>
  BY DEF Start, RunNew, StopBox, RestStays
<1>3. CASE To(c, "failed") /\ UNCHANGED box
  <2>1. Seen(calls[c])'
    BY <1>1, <1>3, ToFails DEF Seen
  <2>2. BoxStays /\ (BoxRuns' => other' = NoServer)
    BY <1>1, <1>2, <1>3 DEF BoxStays, BoxRuns, Exists
  <2> QED
    BY <1>1, <1>2, <1>3, <2>1, <2>2, ToFails, CallKeepsBox
<1>4. CASE Start(c) /\ Exists
  <2>1. Starts(c, box) /\ k.pc = "start" /\ box \in Boxes
    BY <1>1, <1>4 DEF Start, Exists
  <2> QED
    BY <1>1, <1>2, <1>4, <2>1, StartsKeepsBox DEF Seen, Exists, RestStays
<1>5. CASE RunNew(c) /\ ~To(c, "failed")
  <2> DEFINE b == [db |-> MountOf(k.set), scope |-> k.set.scope, on |-> FALSE]
  <2>1. Starts(c, b) /\ k.pc = "create" /\ ~Exists
    BY <1>5 DEF RunNew
  <2>2. k.set \in Settings
    BY <1>1, <2>1 DEF Seen
  <2>3. b \in Boxes /\ b.db = MountOf(k.set) /\ ~b.on
    BY <2>2 DEF Boxes, MountOf, ContainersAssumption
  <2> HIDE DEF b
  <2> QED
    BY <1>1, <1>2, <2>1, <2>3, StartsKeepsBox DEF Exists, RestStays
<1>6. CASE RunNew(c) /\ To(c, "failed")
  <2>1. UNCHANGED box \/ (box = NoServer /\ box' \in Boxes /\ ~box'.on)
    <3> DEFINE b == [db |-> MountOf(k.set), scope |-> k.set.scope, on |-> FALSE]
    <3>1. k.set \in Settings
      BY <1>1, <1>6 DEF Seen, RunNew
    <3>2. b \in Boxes /\ ~b.on
      BY <3>1 DEF Boxes, MountOf, ContainersAssumption
    <3>3. ~To(c, "wait")
      <4>1. calls'[c].pc = "idle"
        BY <1>1, <1>6, ToFails
      <4>2. ASSUME To(c, "wait") PROVE calls'[c].pc = "wait"
        <5>1. calls'[c] = [pc |-> "wait", last |-> k.last, set |-> k.set, blind |-> k.blind]
          BY <1>1, <4>2, ToGoes DEF CallPcs
        <5> QED
          BY <5>1
      <4> QED
        BY <4>1, <4>2
    <3> HIDE DEF b
    <3>4. UNCHANGED box \/ (~Exists /\ Starts(c, b))
      BY <1>6 DEF RunNew, b
    <3> QED
      BY <3>2, <3>3, <3>4 DEF Starts, Exists
  <2>2. Seen(calls[c])'
    BY <1>1, <1>6, ToFails DEF Seen
  <2>3. BoxStays /\ (BoxRuns' => other' = NoServer)
    BY <1>1, <1>2, <2>1 DEF BoxStays, BoxRuns, Exists
  <2> QED
    BY <1>1, <1>2, <1>6, <2>1, <2>2, <2>3, ToFails, CallKeepsBox
<1>7. CASE StopBox(c)
  <2>1. k.pc = "stop" /\ (To(c, "ok") \/ To(c, "look"))
    BY <1>7 DEF StopBox
  <2>2. Seen(calls[c])' /\ calls' \in [Callers -> CallsOf] /\ \A d \in Callers \ {c} : calls'[d] = calls[d]
    <3>1. CASE To(c, "ok")
      BY <1>1, <3>1, ToGoes DEF Seen, CallPcs
    <3>2. CASE To(c, "look")
      <4>1. /\ calls' \in [Callers -> CallsOf] /\ \A d \in Callers \ {c} : calls'[d] = calls[d]
            /\ calls'[c] = [pc |-> "look", last |-> k.last, set |-> k.set, blind |-> k.blind]
        BY <1>1, <3>2, ToGoes DEF CallPcs
      <4> QED
        BY <1>1, <2>1, <4>1 DEF Seen
    <3> QED
      BY <2>1, <3>1, <3>2
  <2>3. UNCHANGED box \/ (Exists /\ box' = [box EXCEPT !.on = FALSE])
    BY <1>7 DEF StopBox
  <2>4. Exists => [box EXCEPT !.on = FALSE] \in Boxes /\ [box EXCEPT !.on = FALSE].db = box.db
                  /\ ~[box EXCEPT !.on = FALSE].on
    BY <1>1 DEF Exists, Boxes
  <2>5. BoxStays /\ (BoxRuns' => other' = NoServer) /\ box' \in Boxes \cup {NoServer}
    BY <1>1, <1>2, <2>3, <2>4 DEF BoxStays, BoxRuns, Exists
  <2> QED
    BY <1>1, <1>2, <2>2, <2>5, CallKeepsBox
<1> QED
  BY <1>3, <1>4, <1>5, <1>6, <1>7 DEF Start

\* A new call has seen nothing.
LEMMA NewCallsKeepBox ==
    ASSUME BoxInv, NEW c \in Callers, NEW cmd, NEW set \in Settings, Call(c, cmd, set)
    PROVE  BoxInv'
<1> DEFINE next == [pc |-> CASE cmd = "up" -> "look" [] cmd = "upgrade" -> "pull" [] OTHER -> "stop",
                    last |-> IF cmd = "down" THEN "down" ELSE "up", set |-> set, blind |-> FALSE]
<1>1. calls \in [Callers -> CallsOf] /\ box \in Boxes \cup {NoServer} /\ (BoxRuns => other = NoServer)
  BY BoxTyped DEF BoxInv
<1>2. calls' = [calls EXCEPT ![c] = next] /\ UNCHANGED <<box, other, stored, swaps>>
  BY DEF Call, RestStays
<1>3. next \in CallsOf /\ next.pc \in {"look", "pull", "stop"} /\ next.last # "none" /\ next.set \in Settings
  BY DEF CallsOf, CallPcs
<1> HIDE DEF next
<1>4. Seen(calls[c])' /\ calls' \in [Callers -> CallsOf] /\ \A d \in Callers \ {c} : calls'[d] = calls[d]
  BY <1>1, <1>2, <1>3 DEF Seen
<1>5. BoxStays /\ (BoxRuns' => other' = NoServer)
  BY <1>1, <1>2 DEF BoxStays, BoxRuns, Exists
<1> QED
  BY <1>1, <1>2, <1>4, <1>5, CallKeepsBox

\* What happens meanwhile blinds the calls it matters to.
LEMMA OthersKeepBox ==
    ASSUME BoxInv, ContainersAssumption, Removed \/ Dies \/ OtherComes \/ OtherGoes \/ ClientWrites
    PROVE  BoxInv'
<1>1. /\ calls \in [Callers -> CallsOf] /\ box \in Boxes \cup {NoServer} /\ (BoxRuns => other = NoServer)
      /\ other \in [db: Stores, scope: Scopes] \cup {NoServer} /\ swaps \in 0 .. MaxSwaps
      /\ stored \in [Stores -> SUBSET Scopes] /\ \A c \in Callers : Seen(calls[c])
  BY BoxTyped DEF BoxInv
<1>2. ASSUME Blinded
      PROVE  /\ calls' \in [Callers -> CallsOf]
             /\ \A c \in Callers : calls'[c] = [pc |-> calls[c].pc, last |-> calls[c].last,
                                                set |-> calls[c].set, blind |-> calls[c].last # "none"]
  <2>1. ASSUME NEW c \in Callers, NEW b \in BOOLEAN
        PROVE  /\ [calls[c] EXCEPT !.blind = b] =
                     [pc |-> calls[c].pc, last |-> calls[c].last, set |-> calls[c].set, blind |-> b]
               /\ [calls[c] EXCEPT !.blind = b] \in CallsOf
    BY <1>1 DEF CallsOf
  <2>2. \A c \in Callers : (calls[c].last # "none") \in BOOLEAN
    OBVIOUS
  <2>3. calls' = [c \in Callers |-> [calls[c] EXCEPT !.blind = calls[c].last # "none"]]
    BY <1>2 DEF Blinded
  <2> QED
    BY <2>1, <2>2, <2>3, Zenon
<1>3. ASSUME Blinded
      PROVE  \A c \in Callers : Seen(calls[c])'
  <2>1. ASSUME NEW c \in Callers, calls[c].pc \in {"idle", "ok"}
        PROVE  Seen(calls[c])'
    <3>1. calls'[c].pc = calls[c].pc
      BY <1>2, <1>3
    <3> QED
      BY <2>1, <3>1 DEF Seen
  <2>2. ASSUME NEW c \in Callers, calls[c].pc \notin {"idle", "ok"}
        PROVE  Seen(calls[c])'
    <3>1. calls[c].last # "none" /\ calls[c].set \in Settings
      BY <1>1, <2>2 DEF Seen
    <3>2. (calls[c].last # "none") = TRUE
      BY <3>1
    <3>3. calls'[c] = [pc |-> calls[c].pc, last |-> calls[c].last, set |-> calls[c].set, blind |-> TRUE]
      BY <1>2, <1>3, <3>2, Zenon
    <3> QED
      BY <3>1, <3>3 DEF Seen
  <2> QED
    BY <2>1, <2>2
<1>4. swaps < MaxSwaps => swaps + 1 \in 0 .. MaxSwaps
  BY <1>1 DEF ContainersAssumption
<1>5. CASE Removed
  <2>1. ContainersTypeOK'
    BY <1>1, <1>2, <1>4, <1>5 DEF Removed, ContainersTypeOK, CallsOf, CallPcs, Boxes
  <2> QED
    BY <1>3, <1>5, <2>1 DEF Removed, BoxInv, BoxRuns, Exists
<1>6. CASE Dies
  <2>1. box # NoServer /\ box' = [box EXCEPT !.on = FALSE] /\ swaps' = swaps + 1 /\ swaps < MaxSwaps
        /\ UNCHANGED <<other, stored, calls>>
    BY <1>6 DEF Dies, BoxRuns, Exists
  <2>2. box' \in Boxes /\ box'.db = box.db /\ ~box'.on
    BY <1>1, <2>1 DEF Boxes
  <2>3. ContainersTypeOK'
    BY <1>1, <1>4, <2>1, <2>2 DEF ContainersTypeOK, CallsOf, CallPcs, Boxes
  <2>4. \A c \in Callers : Seen(calls[c])'
    BY ZenonT(30), <1>1, <2>1, <2>2 DEF Seen, MountOf, Boxes, ContainersAssumption, Stores
  <2> QED
    BY <2>1, <2>2, <2>3, <2>4 DEF BoxInv, BoxRuns, Exists
<1>7. CASE OtherComes
  <2>1. other' \in [db: Stores, scope: Scopes] \cup {NoServer}
    BY <1>7 DEF OtherComes, MountOf, ContainersAssumption
  <2>2. ContainersTypeOK'
    BY <1>1, <1>2, <1>4, <1>7, <2>1 DEF OtherComes, ContainersTypeOK, CallsOf, CallPcs, Boxes
  <2> QED
    BY <1>3, <1>7, <2>2 DEF OtherComes, BoxInv, AddressIsTaken, BoxRuns, Exists
<1>8. CASE OtherGoes
  <2>1. ContainersTypeOK'
    BY <1>1, <1>8 DEF OtherGoes, ContainersTypeOK, CallsOf, CallPcs, Boxes
  <2> QED
    BY <1>1, <1>8, <2>1 DEF OtherGoes, BoxInv, BoxRuns, Exists, Seen
<1>9. CASE ClientWrites
  <2>1. Answering # NoServer /\ stored' = [stored EXCEPT ![Answering.db] = @ \cup {Answering.scope}]
        /\ UNCHANGED <<box, other, calls, swaps>>
    BY <1>9 DEF ClientWrites
  <2>2. Answering.scope \in Scopes
    BY <1>1, <2>1 DEF Answering, BoxRuns, Exists, Boxes
  <2>3. stored' \in [Stores -> SUBSET Scopes]
    BY <1>1, <2>1, <2>2
  <2>4. ContainersTypeOK'
    BY <1>1, <2>1, <2>3 DEF ContainersTypeOK, CallsOf, CallPcs, Boxes
  <2> QED
    BY <1>1, <2>1, <2>4 DEF BoxInv, BoxRuns, Exists, Seen
<1> QED
  BY <1>5, <1>6, <1>7, <1>8, <1>9

LEMMA NoBoxIsNone == ContainersAssumption => NoServer \notin Boxes
  BY DEF ContainersAssumption, Boxes

LEMMA BoxInitInv == ContainersAssumption /\ ContainersInit => BoxInv
<1> SUFFICES ASSUME ContainersAssumption, ContainersInit PROVE BoxInv
  OBVIOUS
<1>1. NoCall \in CallsOf /\ NoCall.pc = "idle"
  BY DEF NoCall, CallsOf, CallPcs
<1>2. calls \in [Callers -> CallsOf] /\ \A c \in Callers : calls[c].pc = "idle"
  BY <1>1 DEF ContainersInit
<1>3. stored \in [Stores -> SUBSET Scopes]
  BY DEF ContainersInit, ContainersAssumption
<1>4. ContainersTypeOK
  BY <1>2, <1>3 DEF ContainersInit, ContainersTypeOK, CallsOf, CallPcs, ContainersAssumption
<1> QED
  BY <1>2, <1>4 DEF ContainersInit, BoxInv, BoxRuns, Exists, Seen

LEMMA BoxNextInv ==
    ASSUME BoxInv, ContainersAssumption, [ContainersNext]_boxVars
    PROVE  BoxInv'
<1>1. CASE ContainersNext
  BY <1>1, NewCallsKeepBox, QuietCallsKeepBox, CallsKeepBox, OthersKeepBox, NoBoxIsNone DEF ContainersNext
<1>2. CASE UNCHANGED boxVars
  BY <1>2 DEF boxVars, BoxInv, ContainersTypeOK, BoxRuns, Exists, Seen
<1> QED
  BY <1>1, <1>2

LEMMA AlwaysBox == ContainersSpec => []BoxInv
  BY BoxInitInv, BoxNextInv, ContainersAssumption, PTL DEF ContainersSpec

\* Only its own step moves a call.
LEMMA CallsMoveThemselves ==
    ASSUME calls \in [Callers -> CallsOf], [ContainersNext]_boxVars, NEW c \in Callers, calls'[c].pc # calls[c].pc
    PROVE  Look(c) \/ Verify(c) \/ AskRunning(c) \/ Bind(c) \/ Start(c) \/ RunNew(c) \/ Wait(c) \/ StopBox(c)
           \/ Pull(c) \/ \E cmd \in {"up", "down", "restart", "upgrade"}, set \in Settings : Call(c, cmd, set)
<1>1. ~UNCHANGED calls
  OBVIOUS
<1>2. ~Blinded
  <2>1. calls[c] \in CallsOf
    OBVIOUS
  <2>2. Blinded => calls'[c] = [calls[c] EXCEPT !.blind = calls[c].last # "none"]
    BY DEF Blinded
  <2>3. [calls[c] EXCEPT !.blind = calls[c].last # "none"].pc = calls[c].pc
    BY <2>1 DEF CallsOf
  <2> QED
    BY <2>2, <2>3
<1>3. ASSUME NEW d \in Callers, NEW pc, To(d, pc) PROVE d = c
  <2> DEFINE next == CASE pc = "ok" -> [NoCall EXCEPT !.pc = "ok"]
                       [] pc = "failed" -> NoCall
                       [] OTHER -> [calls[d] EXCEPT !.pc = pc]
  <2>1. calls' = [calls EXCEPT ![d] = next]
    BY <1>3 DEF To
  <2> HIDE DEF next
  <2> QED
    BY <2>1
<1>4. ASSUME NEW d \in Callers, NEW cmd, NEW set, Call(d, cmd, set) PROVE d = c
  <2>1. \E next : calls' = [calls EXCEPT ![d] = next]
    BY <1>4 DEF Call
  <2> QED
    BY <2>1
<1>5. CASE Removed \/ Dies \/ OtherComes \/ OtherGoes \/ ClientWrites
  BY <1>1, <1>2, <1>5 DEF Removed, Dies, OtherComes, OtherGoes, ClientWrites
<1>6. ASSUME NEW d \in Callers, Look(d) \/ Verify(d) \/ AskRunning(d) \/ Bind(d) \/ Start(d) \/ RunNew(d)
                                 \/ Wait(d) \/ StopBox(d) \/ Pull(d)
      PROVE  d = c
  <2>1. CASE Look(d) \/ Verify(d) \/ AskRunning(d) \/ Bind(d) \/ StopBox(d) \/ Pull(d)
    BY <1>3, <2>1 DEF Look, Verify, AskRunning, Bind, StopBox, Pull
  <2>2. CASE Start(d) \/ RunNew(d) \/ Wait(d)
    BY <1>3, <2>2 DEF Start, RunNew, Wait, Starts
  <2> QED
    BY <1>6, <2>1, <2>2
<1> QED
  BY <1>1, <1>4, <1>5, <1>6 DEF ContainersNext, boxVars

\* Where a call is after its step.
LEMMA CallsArrive ==
    ASSUME calls \in [Callers -> CallsOf], NEW c \in Callers, NEW pc \in CallPcs \cup {"failed"}, To(c, pc)
    PROVE  calls'[c].pc = IF pc = "failed" THEN "idle" ELSE pc
<1>1. CASE pc = "failed"
  BY <1>1, ToFails
<1>2. CASE pc = "ok"
  BY <1>2, ToGoes DEF CallPcs
<1>3. CASE pc \notin {"failed", "ok"}
  <2>1. calls'[c] = [pc |-> pc, last |-> calls[c].last, set |-> calls[c].set, blind |-> calls[c].blind]
    BY <1>3, ToGoes
  <2> QED
    BY <1>3, <2>1
<1> QED
  BY <1>1, <1>2, <1>3

LEMMA StartsWhatIsAsked ==
    ASSUME BoxInv, ContainersAssumption, [ContainersNext]_boxVars
    PROVE  OnlyTheAskedIsStarted
<1> SUFFICES ASSUME NEW c \in Callers, Starting(c), ~calls[c].blind
             PROVE  box'.db = MountOf(calls[c].set)
  BY DEF OnlyTheAskedIsStarted
<1> DEFINE k == calls[c]
<1>1. calls \in [Callers -> CallsOf] /\ k.pc \in {"start", "create"} /\ calls'[c].pc = "wait" /\ Seen(k)
      /\ box \in Boxes \cup {NoServer}
  BY BoxTyped DEF BoxInv, Starting
<1>2. Start(c) \/ RunNew(c)
  BY <1>1, CallsMoveThemselves DEF Look, Verify, AskRunning, Bind, Wait, StopBox, Pull, Call
<1>3. ~To(c, "failed")
  BY <1>1, CallsArrive
<1>4. CASE Start(c)
  <2>1. k.pc = "start" /\ Exists /\ box' = [box EXCEPT !.on = TRUE]
    BY <1>3, <1>4 DEF Start, Starts
  <2> QED
    BY <1>1, <2>1 DEF Seen, Exists, Boxes
<1>5. CASE RunNew(c)
  <2>1. box' = [[db |-> MountOf(k.set), scope |-> k.set.scope, on |-> FALSE] EXCEPT !.on = TRUE]
    BY <1>3, <1>5 DEF RunNew, Starts
  <2> QED
    BY <2>1
<1> QED
  BY <1>2, <1>4, <1>5

LEMMA UpIsWhatWasAsked ==
    ASSUME BoxInv, ContainersAssumption, [ContainersNext]_boxVars
    PROVE  UpIsUpForTheAsked
<1> SUFFICES ASSUME NEW c \in Callers, Ends(c, "ok"), calls[c].last = "up", ~calls[c].blind
             PROVE  /\ BoxRuns /\ box.db = MountOf(calls[c].set) /\ box.scope = calls[c].set.scope
                    /\ stored[box.db] # {} => box.scope \in stored[box.db]
  BY DEF UpIsUpForTheAsked
<1> DEFINE k == calls[c]
<1>1. calls \in [Callers -> CallsOf] /\ k.pc # "ok" /\ calls'[c].pc = "ok" /\ Seen(k)
  BY BoxTyped DEF BoxInv, Ends
<1>2. ASSUME NEW pc \in CallPcs \cup {"failed"}, To(c, pc)
      PROVE  pc = "ok"
  BY <1>1, <1>2, CallsArrive
<1>3. /\ "verify" \in CallPcs /\ "bindnew" \in CallPcs /\ "running" \in CallPcs /\ "start" \in CallPcs
      /\ "bindold" \in CallPcs /\ "create" \in CallPcs /\ "stop" \in CallPcs /\ "look" \in CallPcs
      /\ "wait" \in CallPcs
  BY DEF CallPcs
<1>4. ~Look(c) /\ ~Verify(c) /\ ~AskRunning(c) /\ ~Bind(c) /\ ~Pull(c)
  BY <1>2, <1>3 DEF Look, Verify, AskRunning, Bind, Pull
<1>5. ~Start(c) /\ ~RunNew(c)
  BY <1>2, <1>3 DEF Start, RunNew, Starts
<1>6. ~StopBox(c)
  BY <1>2, <1>3 DEF StopBox
<1>7. ASSUME NEW cmd, NEW set, Call(c, cmd, set) PROVE FALSE
  BY <1>1, <1>7 DEF Call
<1>8. Wait(c)
  BY <1>1, <1>4, <1>5, <1>6, <1>7, CallsMoveThemselves
<1>9. k.pc = "wait" /\ Answering # NoServer /\ \E sane \in BOOLEAN : BoxReady(Answering, k.set, sane)
  BY <1>2, <1>8 DEF Wait
<1>10. other = NoServer /\ box # NoServer /\ box.db = MountOf(k.set)
  BY <1>9, <1>1 DEF Seen
<1>11. BoxRuns /\ Answering = box
  BY <1>9, <1>10 DEF Answering
<1> QED
  BY <1>9, <1>10, <1>11 DEF BoxReady, Available
----------------------------------------------------------------------------
(* Least and greatest *)

LEMMA HasLeast ==
    ASSUME NEW S, S \subseteq Nat, S # {}
    PROVE  \E m \in S : \A n \in S : m <= n
<1>1. PICK m \in S : \A n \in S : ~(<<n, m>> \in OpToRel(<, Nat))
  BY NatLessThanWellFounded, WFMin
<1>2. \A n \in S : ~(n < m)
  BY <1>1 DEF OpToRel
<1> QED
  BY <1>2

LEMMA MinIsLeast ==
    ASSUME NEW S, S \subseteq Nat, S # {}
    PROVE  Min(S) \in S /\ \A n \in S : Min(S) <= n
  BY HasLeast DEF Min

LEMMA MaxIsGreatest ==
    ASSUME NEW S, S \subseteq Nat, S # {}, NEW b \in Nat, \A n \in S : n <= b
    PROVE  Max(S) \in S /\ \A n \in S : n <= Max(S)
<1> DEFINE T == {b - n : n \in S}
<1>1. \A n \in S : n \in Nat /\ b - n \in Nat /\ b - n \in T
  OBVIOUS
<1>2. T \subseteq Nat /\ T # {}
  BY <1>1
<1>3. PICK m \in T : \A n \in T : m <= n
  <2> HIDE DEF T
  <2> QED
    BY <1>2, HasLeast
<1>4. PICK g \in S : m = b - g
  OBVIOUS
<1>5. \A n \in S : g >= n
  <2> TAKE n \in S
  <2> HIDE DEF T
  <2>1. m <= b - n /\ n \in Nat /\ g \in Nat
    BY <1>1, <1>3
  <2> QED
    BY <1>4, <2>1
<1>6. \E x \in S : \A y \in S : x >= y
  BY <1>5
<1>7. Max(S) \in S /\ \A y \in S : Max(S) >= y
  BY <1>6 DEF Max
<1> QED
  BY <1>1, <1>7
----------------------------------------------------------------------------
(* The opening of stores *)

\* The statements, each after those it needs.
LEMMA ScriptIs ==
    /\ Len(Script) = 17 /\ Open = 18 /\ Failed = 19 /\ Script[17] = "fts"
    /\ \A i \in 1 .. 17 : Script[i] \in Steps
    /\ \A i \in 1 .. 16 : Script[i] # "fts"
    /\ \A s \in Steps \ {"fts"} : \E i \in 1 .. 16 : Script[i] = s
  BY DEF Script, Open, Failed, Steps, ToSet

LEMMA NeedsComeFirst ==
    ASSUME NEW i \in 1 .. 17, NEW n \in Needs[Script[i]]
    PROVE  \E j \in 1 .. i - 1 : Script[j] = n
  BY DEF Script, Needs, Steps, ToSet

\* The next statement to run: those passed over have had their effect.
LEMMA PendingIsNext ==
    ASSUME NEW i \in 1 .. 17, NEW f
    PROVE  Pending(i, f) \in i .. 17 /\ \A j \in i .. Pending(i, f) - 1 : Script[j] \in f
<1> DEFINE S == {j \in i .. Len(Script) :
                    \/ j = Len(Script)
                    \/ IF Script[j] \in Added THEN IsMissing(Script[j], f) ELSE Script[j] \notin f}
<1>1. S \subseteq i .. 17 /\ 17 \in S
  BY ScriptIs
<1>2. Min(S) \in S /\ \A n \in S : Min(S) <= n
  <2> HIDE DEF S
  <2>1. i .. 17 \subseteq Nat
    OBVIOUS
  <2>2. S \subseteq Nat /\ S # {}
    BY <1>1, <2>1
  <2> QED
    BY <2>2, MinIsLeast
<1>3. \A j \in i .. 17 : j \notin S => Script[j] \in f
  BY ScriptIs DEF IsMissing
<1>4. \A j \in i .. Min(S) - 1 : j \in i .. 17 /\ j \notin S
  BY <1>1, <1>2
<1>5. Pending(i, f) = Min(S)
  BY DEF Pending
<1> HIDE DEF S
<1> QED
  BY <1>1, <1>2, <1>3, <1>4, <1>5

OpenersOf == [pc: 0 .. 19, adding: BOOLEAN, crowded: BOOLEAN]

\* What the statements up to where an opening is have done to file f; only who meets another can find
\* that a column it is about to add has come.
Sane(r, f) ==
    /\ r.pc \in 1 .. 17 => \A j \in 1 .. r.pc - 1 : Script[j] \in f
    /\ r.pc = 18 => Steps \ {"fts"} \subseteq f
    /\ r.pc = 19 => r.crowded
    /\ r.pc \in 1 .. 17 /\ r.adding => r.crowded \/ Script[r.pc] \notin f

OpeningInv ==
    /\ file \subseteq Steps /\ openers \in [Openers -> OpenersOf] /\ failures \in 0 .. MaxFailures
    /\ \A o \in Openers : Sane(openers[o], file)
    /\ \A o, d \in Openers : o # d /\ openers[o].pc \in 1 .. 17 /\ openers[d].pc \in 1 .. 17 => openers[o].crowded

LEMMA OpeningIs == \A o \in Openers : Opening(o) <=> openers[o].pc \in 1 .. 17
  BY ScriptIs DEF Opening

\* A step of one opening, which only adds to the file.
LEMMA StepsKeepOpenings ==
    ASSUME OpeningInv, NEW o \in Openers, openers[o].pc \in 1 .. 17, NEW n \in 0 .. 19, NEW b \in BOOLEAN,
           Go(o, n, b), file \subseteq file', file' \subseteq Steps, failures' \in 0 .. MaxFailures,
           Sane([pc |-> n, adding |-> b, crowded |-> openers[o].crowded], file')
    PROVE  OpeningInv'
<1>1. openers \in [Openers -> OpenersOf]
  BY DEF OpeningInv
<1>2. [pc |-> n, adding |-> b, crowded |-> openers[o].crowded] \in OpenersOf
  BY <1>1 DEF OpenersOf
<1>3. openers' \in [Openers -> OpenersOf] /\ (\A d \in Openers \ {o} : openers'[d] = openers[d])
      /\ openers'[o] = [pc |-> n, adding |-> b, crowded |-> openers[o].crowded]
  BY <1>1, <1>2 DEF Go
<1>4. ASSUME NEW d \in Openers \ {o} PROVE Sane(openers'[d], file')
  <2>1. Sane(openers[d], file) /\ openers'[d] = openers[d]
        /\ (openers[d].pc \in 1 .. 17 => openers[d].crowded)
    BY <1>3 DEF OpeningInv
  <2> QED
    BY <2>1 DEF Sane
<1>5. \A d \in Openers : openers'[d].crowded = openers[d].crowded /\ (d # o => openers'[d].pc = openers[d].pc)
  BY <1>3
<1>6. \A d, e \in Openers : d # e /\ openers'[d].pc \in 1 .. 17 /\ openers'[e].pc \in 1 .. 17 => openers'[d].crowded
  BY <1>5 DEF OpeningInv
<1> QED
  BY <1>3, <1>4, <1>6 DEF OpeningInv

\* On to the next statement, when this one has had its effect.
LEMMA GoesKeepsOpenings ==
    ASSUME OpeningInv, NEW o \in Openers, openers[o].pc \in 1 .. 16, Goes(o), file \subseteq file', file' \subseteq Steps,
           Script[openers[o].pc] \in file', UNCHANGED failures
    PROVE  OpeningInv'
<1> DEFINE i == openers[o].pc + 1
           n == Pending(i, file')
<1>1. openers \in [Openers -> OpenersOf] /\ Sane(openers[o], file) /\ i \in 1 .. 17
  BY DEF OpeningInv
<1>2. n \in i .. 17 /\ \A j \in i .. n - 1 : Script[j] \in file'
  <2> HIDE DEF i
  <2> QED
    BY <1>1, PendingIsNext
<1>3. Go(o, n, FALSE)
  BY DEF Goes
<1>4. n \in 0 .. 19 /\ n \in 1 .. 17
  BY <1>1, <1>2
<1>5. \A j \in 1 .. n - 1 : Script[j] \in file'
  <2> TAKE j \in 1 .. n - 1
  <2>1. CASE j \in i .. n - 1
    BY <1>2, <2>1
  <2>2. CASE j = openers[o].pc
    BY <2>2
  <2>3. CASE j \in 1 .. openers[o].pc - 1
    BY <1>1, <2>3 DEF Sane
  <2> QED
    BY <1>1, <1>4, <2>1, <2>2, <2>3
<1> HIDE DEF n
<1>6. Sane([pc |-> n, adding |-> FALSE, crowded |-> openers[o].crowded], file')
  BY <1>4, <1>5 DEF Sane
<1>7. failures' \in 0 .. MaxFailures /\ openers[o].pc \in 1 .. 17
  BY DEF OpeningInv
<1> QED
  BY <1>3, <1>4, <1>6, <1>7, StepsKeepOpenings

LEMMA BeginKeepsOpenings ==
    ASSUME OpeningInv, NEW o \in Openers, Begin(o)
    PROVE  OpeningInv'
<1> DEFINE others == {x \in Openers : Opening(x)}
           some == others # {}
           r == [pc |-> Pending(1, file), adding |-> FALSE, crowded |-> some]
<1>1. openers \in [Openers -> OpenersOf] /\ UNCHANGED <<file, failures>> /\ file \subseteq Steps
      /\ failures \in 0 .. MaxFailures /\ openers[o].pc \notin 1 .. 17
  BY ScriptIs DEF Begin, OpeningInv, Closed
<1>2. others = {x \in Openers : openers[x].pc \in 1 .. 17} /\ o \notin others
  BY <1>1, OpeningIs
<1>3. Pending(1, file) \in 1 .. 17 /\ \A j \in 1 .. Pending(1, file) - 1 : Script[j] \in file
  BY PendingIsNext
<1>4. openers' = [x \in Openers |-> IF x = o THEN r ELSE IF x \in others THEN [openers[x] EXCEPT !.crowded = TRUE]
                                    ELSE openers[x]]
  BY DEF Begin
<1>5. some \in BOOLEAN
  OBVIOUS
<1>6. r \in OpenersOf /\ r.pc \in 1 .. 17 /\ Sane(r, file) /\ (others # {} => r.crowded)
  <2> HIDE DEF some
  <2>1. r \in OpenersOf /\ r.pc \in 1 .. 17 /\ Sane(r, file) /\ r.crowded = some
    BY <1>3, <1>5 DEF Sane, OpenersOf
  <2> QED
    BY <2>1 DEF some
<1>7. ASSUME NEW x \in Openers
      PROVE  /\ [openers[x] EXCEPT !.crowded = TRUE] \in OpenersOf
             /\ [openers[x] EXCEPT !.crowded = TRUE].pc = openers[x].pc
             /\ [openers[x] EXCEPT !.crowded = TRUE].crowded
             /\ Sane([openers[x] EXCEPT !.crowded = TRUE], file)
  BY <1>1 DEF OpeningInv, OpenersOf, Sane
<1> HIDE DEF r, others
<1>8. openers'[o] = r /\ \A x \in Openers \ {o} :
         openers'[x] = IF x \in others THEN [openers[x] EXCEPT !.crowded = TRUE] ELSE openers[x]
  BY <1>4
<1>9. openers' \in [Openers -> OpenersOf]
  BY <1>1, <1>4, <1>6, <1>7
<1>10. ASSUME NEW x \in Openers PROVE Sane(openers'[x], file)
  BY <1>6, <1>7, <1>8 DEF OpeningInv
<1>11. ASSUME NEW x \in Openers, NEW y \in Openers, x # y, openers'[x].pc \in 1 .. 17, openers'[y].pc \in 1 .. 17
       PROVE  openers'[x].crowded
  <2>1. CASE x = o
    <3>1. openers[y].pc \in 1 .. 17
      BY <1>7, <1>8, <1>11, <2>1
    <3>2. others # {}
      BY <1>2, <3>1
    <3> QED
      BY <1>6, <1>8, <2>1, <3>2
  <2>2. CASE x # o
    <3>1. openers[x].pc \in 1 .. 17
      BY <1>7, <1>8, <1>11, <2>2
    <3> QED
      BY <1>2, <1>7, <1>8, <2>2, <3>1
  <2> QED
    BY <2>1, <2>2
<1> QED
  BY <1>1, <1>9, <1>10, <1>11 DEF OpeningInv

\* The statements themselves.
LEMMA RunsKeepOpenings ==
    ASSUME OpeningInv, UpgradesAssumption, NEW o \in Openers,
           RunScript(o) \/ LookFor(o) \/ Add(o) \/ NumberRows(o) \/ Probe(o) \/ Breaks(o)
    PROVE  OpeningInv'
<1> DEFINE i == openers[o].pc
           s == Script[i]
           w == openers[o].crowded
<1>1. openers \in [Openers -> OpenersOf] /\ openers[o] \in OpenersOf /\ file \subseteq Steps
      /\ failures \in 0 .. MaxFailures /\ Sane(openers[o], file)
  BY DEF OpeningInv
<1>2. i \in 1 .. 17 /\ s \in Steps /\ s = StepOf(o)
  BY OpeningIs, ScriptIs DEF RunScript, LookFor, Add, NumberRows, Probe, Breaks, StandsAt, StepOf
<1>3. Needs[s] \subseteq file
  BY <1>1, <1>2, NeedsComeFirst DEF Sane
<1>4. s # "fts" => i \in 1 .. 16
  BY <1>2, ScriptIs
<1>5. "fts" \notin Added /\ "rowids" \in Steps
  BY DEF Added, Steps, ToSet, Script
<1>12. 0 \in 0 .. 19 /\ 18 \in 0 .. 19 /\ 19 \in 0 .. 19 /\ openers[o].pc \in 1 .. 17
  BY <1>2
<1> HIDE DEF i, s
<1>6. CASE RunScript(o)
  <2>1. s # "fts" /\ file' = file \cup {s} /\ Goes(o) /\ UNCHANGED failures
    BY <1>2, <1>3, <1>6 DEF RunScript, StandsAt, StepOf
  <2> QED
    BY <1>1, <1>2, <1>4, <2>1, GoesKeepsOpenings DEF i, s
<1>7. CASE LookFor(o)
  <2>1. s \in Added /\ UNCHANGED <<file, failures>>
    BY <1>2, <1>7 DEF LookFor, StandsAt, StepOf
  <2>2. CASE s \notin file /\ Go(o, i, TRUE)
    <3>1. Sane([pc |-> i, adding |-> TRUE, crowded |-> w], file')
      BY <1>1, <1>2, <2>1, <2>2 DEF Sane, i, s
    <3>2. i \in 0 .. 19
      BY <1>2
    <3> QED
      BY <1>1, <1>2, <2>1, <2>2, <3>1, <3>2, StepsKeepOpenings DEF i
  <2>3. CASE s \in file /\ Goes(o)
    BY <1>1, <1>4, <1>5, <2>1, <2>3, GoesKeepsOpenings DEF i, s
  <2> QED
    BY <1>2, <1>7, <2>2, <2>3 DEF LookFor, IsMissing, i
<1>8. CASE Add(o)
  <2>1. s \in Added /\ UNCHANGED failures /\ openers[o].adding
    BY <1>2, <1>8 DEF Add, StandsAt, StepOf
  <2>2. CASE s \notin file
    <3>1. file' = file \cup {s} /\ Goes(o)
      BY <1>2, <1>3, <1>8, <2>2 DEF Add
    <3> QED
      BY <1>1, <1>2, <1>4, <1>5, <2>1, <3>1, GoesKeepsOpenings DEF i, s
  <2>3. CASE s \in file
    <3>1. UNCHANGED file /\ Go(o, 19, FALSE)
      BY <1>2, <1>8, <2>3, ScriptIs DEF Add, Fails
    <3>2. w
      BY <1>1, <1>2, <2>1, <2>3 DEF Sane, i, s
    <3>3. Sane([pc |-> 19, adding |-> FALSE, crowded |-> w], file')
      BY <3>2 DEF Sane
    <3> QED
      BY <1>1, <1>12, <2>1, <3>1, <3>3, StepsKeepOpenings
  <2> QED
    BY <2>2, <2>3
<1>9. CASE NumberRows(o)
  <2>1. s = "rowids" /\ UNCHANGED failures /\ Goes(o) /\ file' \in {file, file \cup {"rowids"}} /\ "rowids" \in file'
    BY <1>2, <1>3, <1>9 DEF NumberRows, StandsAt, StepOf, Numbered
  <2> QED
    BY <1>1, <1>4, <1>5, <2>1, GoesKeepsOpenings DEF i, s
<1>10. CASE Probe(o)
  <2>1. s = "fts" /\ UNCHANGED failures /\ file' \in {file, file \cup {"fts"}} /\ Go(o, 18, FALSE)
    BY <1>2, <1>10, ScriptIs DEF Probe, StandsAt, StepOf
  <2>2. i = 17
    BY <1>2, <2>1, ScriptIs DEF s
  <2>3. Steps \ {"fts"} \subseteq file
    BY <1>1, <2>2, ScriptIs DEF Sane, i
  <2>5. Sane([pc |-> 18, adding |-> FALSE, crowded |-> w], file')
    BY <2>1, <2>3 DEF Sane
  <2>6. file' \subseteq Steps /\ file \subseteq file'
    BY <1>1, <1>2, <2>1
  <2> QED
    BY <1>1, <1>12, <2>1, <2>5, <2>6, StepsKeepOpenings
<1>11. CASE Breaks(o)
  <2>1. failures < MaxFailures /\ failures' = failures + 1 /\ UNCHANGED file /\ Go(o, 0, FALSE)
    BY <1>11 DEF Breaks, Closed
  <2>2. failures' \in 0 .. MaxFailures
    BY <1>1, <2>1 DEF UpgradesAssumption
  <2>3. Sane([pc |-> 0, adding |-> FALSE, crowded |-> w], file')
    BY DEF Sane
  <2> QED
    BY <1>1, <1>12, <2>1, <2>2, <2>3, StepsKeepOpenings
<1> QED
  BY <1>6, <1>7, <1>8, <1>9, <1>10, <1>11

\* No two rows have one position; once there are numbers, the counter is past every row and every scan.
NumbersInv ==
    /\ rows \in [Sources -> Nat] /\ inserts \in 0 .. MaxInserts /\ counter \in Nat /\ cursor \in Nat
    /\ passed = {}
    /\ \E b \in Nat : \A k \in Sources : rows[k] <= b
    /\ \A k, l \in Sources : rows[k] # 0 /\ rows[k] = rows[l] => k = l
    /\ Numbered => cursor <= counter /\ \A k \in Sources : rows[k] <= counter

LEMMA FurthestIsPast ==
    ASSUME NumbersInv
    PROVE  Furthest \in Nat /\ \A k \in Sources : rows[k] <= Furthest
<1> DEFINE S == {0} \cup {rows[k] : k \in Stored}
<1>1. PICK b \in Nat : \A k \in Sources : rows[k] <= b
  BY DEF NumbersInv
<1>2. rows \in [Sources -> Nat]
  BY DEF NumbersInv
<1>3. S \subseteq Nat /\ S # {} /\ \A n \in S : n <= b
  BY <1>1, <1>2 DEF Stored
<1>4. Max(S) \in S /\ \A n \in S : n <= Max(S)
  <2> HIDE DEF S
  <2> QED
    BY <1>3, MaxIsGreatest
<1>5. \A k \in Sources : rows[k] \in S
  BY <1>2 DEF Stored
<1>6. Furthest = Max(S)
  BY DEF Furthest
<1> HIDE DEF S
<1> QED
  BY <1>3, <1>4, <1>5, <1>6

LEMMA MaxOfTwo ==
    ASSUME NEW m \in Nat, NEW n \in Nat
    PROVE  Max({m, n}) \in Nat /\ m <= Max({m, n}) /\ n <= Max({m, n}) /\ Max({m, n}) \in {m, n}
<1>1. {m, n} \subseteq Nat /\ {m, n} # {} /\ (\A x \in {m, n} : x <= m + n) /\ m + n \in Nat
  OBVIOUS
<1>2. Max({m, n}) \in {m, n} /\ \A x \in {m, n} : x <= Max({m, n})
  BY <1>1, MaxIsGreatest
<1> QED
  BY <1>2

\* What is no row and no scan leaves the numbers alone, but for the numbering.
LEMMA OpenersKeepNumbers ==
    ASSUME NumbersInv, UpgradesAssumption, NEW o \in Openers,
           Begin(o) \/ RunScript(o) \/ LookFor(o) \/ Add(o) \/ NumberRows(o) \/ Probe(o) \/ Breaks(o)
    PROVE  NumbersInv'
<1>1. CASE NumberRows(o) /\ ~Numbered /\ Needs["rowids"] \subseteq file
  <2>1. counter' = Seeded /\ UNCHANGED <<rows, cursor, inserts, passed>>
    BY <1>1 DEF NumberRows
  <2>2. cursor \in Nat /\ Furthest \in Nat /\ \A k \in Sources : rows[k] \in Nat /\ rows[k] <= Furthest
    BY FurthestIsPast DEF NumbersInv
  <2>3. counter' \in Nat /\ cursor <= counter' /\ Furthest <= counter'
    BY <2>1, <2>2, MaxOfTwo DEF Seeded
  <2>4. \A k \in Sources : rows[k] <= counter'
    BY <2>2, <2>3
  <2> QED
    BY <2>1, <2>3, <2>4 DEF NumbersInv
<1>2. CASE UNCHANGED <<rows, counter, cursor, inserts, passed>> /\ Numbered' = Numbered
  BY <1>2 DEF NumbersInv
<1>3. CASE Begin(o) \/ Breaks(o)
  BY <1>2, <1>3 DEF Begin, Breaks, SourcesStay, Numbered
<1>4. CASE RunScript(o) \/ LookFor(o) \/ Add(o) \/ Probe(o)
  <2>1. UNCHANGED <<rows, counter, cursor, inserts, passed>>
    BY <1>4 DEF RunScript, LookFor, Add, Probe, SourcesStay
  <2>2. "rowids" \notin Added
    BY DEF Added
  <2>3. Numbered' = Numbered
    <3>1. CASE RunScript(o)
      <4> DEFINE s == Script[openers[o].pc]
      <4>1. s \in Steps \ (Added \cup {"rowids", "fts"}) /\ file' \in {file, file \cup {s}}
        BY <3>1 DEF RunScript, StandsAt, StepOf
      <4> HIDE DEF s
      <4> QED
        BY <4>1 DEF Numbered
    <3>2. CASE LookFor(o) \/ Probe(o)
      <4>1. file' \in {file, file \cup {"fts"}}
        BY <3>2 DEF LookFor, Probe
      <4> QED
        BY <4>1 DEF Numbered
    <3>3. CASE Add(o)
      <4> DEFINE s == Script[openers[o].pc]
      <4>1. s \in Added /\ file' \in {file, file \cup {s}}
        BY <3>3 DEF Add, StandsAt, StepOf
      <4> HIDE DEF s
      <4> QED
        BY <2>2, <4>1 DEF Numbered
    <3> QED
      BY <1>4, <3>1, <3>2, <3>3
  <2> QED
    BY <1>2, <2>1, <2>3
<1>5. CASE NumberRows(o) /\ (Numbered \/ ~(Needs["rowids"] \subseteq file))
  BY <1>2, <1>5 DEF NumberRows, Numbered
<1> QED
  BY <1>1, <1>3, <1>4, <1>5

LEMMA RowsKeepNumbers ==
    ASSUME NumbersInv, UpgradesAssumption, NEW k \in Sources, Insert(k) \/ Delete(k)
    PROVE  NumbersInv'
<1>1. /\ rows \in [Sources -> Nat] /\ inserts \in 0 .. MaxInserts /\ counter \in Nat /\ cursor \in Nat /\ passed = {}
      /\ (\A x, y \in Sources : rows[x] # 0 /\ rows[x] = rows[y] => x = y)
      /\ (Numbered => cursor <= counter /\ \A x \in Sources : rows[x] <= counter)
  BY DEF NumbersInv
<1>2. PICK b \in Nat : \A x \in Sources : rows[x] <= b
  BY DEF NumbersInv
<1>3. Furthest \in Nat /\ \A x \in Sources : rows[x] <= Furthest
  BY FurthestIsPast
<1>4. CASE Insert(k)
  <2> DEFINE at == IF Numbered THEN counter + 1 ELSE Furthest + 1
  <2>1. /\ rows' = [rows EXCEPT ![k] = at] /\ inserts' = inserts + 1 /\ inserts < MaxInserts
        /\ UNCHANGED <<file, cursor>> /\ counter' = (IF Numbered THEN at ELSE counter)
        /\ passed' = (IF Numbered /\ at <= cursor THEN passed \cup {k} ELSE passed)
    BY <1>4 DEF Insert
  <2>2. at \in Nat /\ at # 0 /\ (Numbered => at = counter + 1 /\ ~(at <= cursor))
    BY <1>1, <1>3
  <2>3. \A x \in Sources : rows[x] \in Nat /\ rows[x] # at
    BY <1>1, <1>3
  <2> HIDE DEF at
  <2>4. passed' = {} /\ counter' \in Nat /\ inserts' \in 0 .. MaxInserts /\ rows' \in [Sources -> Nat] /\ cursor' \in Nat
    BY <1>1, <2>1, <2>2 DEF UpgradesAssumption
  <2>5. rows'[k] = at /\ \A x \in Sources \ {k} : rows'[x] = rows[x]
    BY <1>1, <2>1
  <2>6. \A x, y \in Sources : rows'[x] # 0 /\ rows'[x] = rows'[y] => x = y
    BY <1>1, <2>3, <2>5
  <2>7. Numbered' => cursor' <= counter' /\ \A x \in Sources : rows'[x] <= counter'
    <3> SUFFICES ASSUME Numbered PROVE cursor' <= counter' /\ \A x \in Sources : rows'[x] <= counter'
      BY <2>1 DEF Numbered
    <3>1. counter' = counter + 1 /\ rows'[k] = counter + 1
      BY <2>1, <2>2, <2>5
    <3> QED
      BY <1>1, <2>1, <2>3, <2>5, <3>1
  <2>8. b + at \in Nat /\ \A x \in Sources : rows'[x] <= b + at
    BY <1>2, <2>2, <2>3, <2>5
  <2> QED
    BY <2>4, <2>6, <2>7, <2>8 DEF NumbersInv
<1>5. CASE Delete(k)
  <2>1. rows' = [rows EXCEPT ![k] = 0] /\ passed' = {} /\ UNCHANGED <<file, counter, cursor, inserts>>
    BY <1>1, <1>5 DEF Delete
  <2>2. rows' \in [Sources -> Nat] /\ rows'[k] = 0 /\ \A x \in Sources \ {k} : rows'[x] = rows[x]
    BY <1>1, <2>1
  <2>3. \A x \in Sources : rows'[x] <= b
    BY <1>2, <2>2
  <2>4. \A x, y \in Sources : rows'[x] # 0 /\ rows'[x] = rows'[y] => x = y
    BY <1>1, <2>2
  <2>5. Numbered' => cursor' <= counter' /\ \A x \in Sources : rows'[x] <= counter'
    BY <1>1, <2>1, <2>2 DEF Numbered
  <2> QED
    BY <1>1, <2>1, <2>2, <2>3, <2>4, <2>5 DEF NumbersInv
<1> QED
  BY <1>4, <1>5

LEMMA ScansKeepNumbers ==
    ASSUME NumbersInv, Scan
    PROVE  NumbersInv'
<1>1. cursor \in Nat /\ counter \in Nat /\ Furthest \in Nat /\ rows \in [Sources -> Nat]
      /\ (Numbered => cursor <= counter /\ \A x \in Sources : rows[x] <= counter)
  BY FurthestIsPast DEF NumbersInv
<1>2. cursor' = Max({cursor, Furthest}) /\ UNCHANGED <<file, rows, counter, inserts, passed>>
  BY DEF Scan
<1>3. cursor' \in Nat /\ cursor' \in {cursor, Furthest}
  BY <1>1, <1>2, MaxOfTwo
<1>4. Numbered => Furthest <= counter
  <2> DEFINE S == {0} \cup {rows[k] : k \in Stored}
  <2> SUFFICES ASSUME Numbered PROVE Furthest <= counter
    OBVIOUS
  <2>1. S \subseteq Nat /\ S # {} /\ \A n \in S : n <= counter
    BY <1>1 DEF Stored
  <2>2. Furthest = Max(S)
    BY DEF Furthest
  <2> HIDE DEF S
  <2> QED
    BY <1>1, <2>1, <2>2, MaxIsGreatest
<1> QED
  BY <1>1, <1>2, <1>3, <1>4 DEF NumbersInv, Numbered

LEMMA UpgradesInitInv == UpgradesInit => OpeningInv /\ NumbersInv
<1> SUFFICES ASSUME UpgradesInit PROVE OpeningInv /\ NumbersInv
  OBVIOUS
<1>1. /\ file \subseteq Steps /\ rows = [k \in Sources |-> 0] /\ counter = 0 /\ cursor = 0 /\ inserts = 0
      /\ passed = {} /\ openers = [o \in Openers |-> [pc |-> 0, adding |-> FALSE, crowded |-> FALSE]] /\ failures = 0
  BY DEF UpgradesInit
<1>2. OpeningInv
  BY <1>1, UpgradesAssumption DEF OpeningInv, Sane, OpenersOf, UpgradesAssumption
<1>3. NumbersInv
  BY <1>1, UpgradesAssumption DEF NumbersInv, UpgradesAssumption
<1> QED
  BY <1>2, <1>3

LEMMA UpgradesNextInv ==
    ASSUME OpeningInv, NumbersInv, [UpgradesNext]_upgradeVars
    PROVE  OpeningInv' /\ NumbersInv'
<1>1. ASSUME UNCHANGED <<file, openers, failures>> PROVE OpeningInv'
  BY <1>1 DEF OpeningInv
<1>2. CASE UNCHANGED upgradeVars
  BY <1>1, <1>2 DEF upgradeVars, NumbersInv, Numbered
<1>3. CASE \E o \in Openers : Begin(o)
  BY <1>3, BeginKeepsOpenings, OpenersKeepNumbers, UpgradesAssumption
<1>4. CASE \E o \in Openers : RunScript(o) \/ LookFor(o) \/ Add(o) \/ NumberRows(o) \/ Probe(o) \/ Breaks(o)
  BY <1>4, RunsKeepOpenings, OpenersKeepNumbers, UpgradesAssumption
<1>5. CASE \E k \in Sources : Insert(k) \/ Delete(k)
  BY <1>1, <1>5, RowsKeepNumbers, UpgradesAssumption DEF Insert, Delete
<1>6. CASE Scan
  BY <1>1, <1>6, ScansKeepNumbers DEF Scan
<1> QED
  BY <1>2, <1>3, <1>4, <1>5, <1>6 DEF UpgradesNext

\* However old a store is, however many open it at once and wherever they are cut off (Store::open and
\* migrate in src/src/store.rs): an open store lacks nothing, an opening that met nobody does not fail,
\* and no row is numbered where a scan has already been.
THEOREM OpeningsAreWhole == UpgradesSpec => [](UpgradesAreWhole /\ UpgradesTypeOK)
<1>1. OpeningInv /\ NumbersInv => UpgradesAreWhole
  <2> SUFFICES ASSUME OpeningInv, NumbersInv PROVE UpgradesAreWhole
    OBVIOUS
  <2>1. OpenIsComplete
    BY ScriptIs DEF OpenIsComplete, OpeningInv, Sane
  <2>2. AloneOpens
    BY ScriptIs DEF AloneOpens, OpeningInv, Sane
  <2>3. NumbersAreFresh
    BY DEF NumbersAreFresh, NumbersInv, Stored
  <2> QED
    BY <2>1, <2>2, <2>3 DEF UpgradesAreWhole
<1>2. OpeningInv /\ NumbersInv => UpgradesTypeOK
  BY ScriptIs DEF OpeningInv, NumbersInv, UpgradesTypeOK, OpenersOf
<1> QED
  BY <1>1, <1>2, UpgradesInitInv, UpgradesNextInv, PTL DEF UpgradesSpec
----------------------------------------------------------------------------
(* Together *)

\* A behaviour of the host is one of each part.
LEMMA HostIsEachPart == HostSpec => Spec /\ ContainersSpec /\ BackupSpec /\ UpgradesSpec
<1>1. HostInit => Init /\ ContainersInit /\ BackupInit /\ UpgradesInit
  BY DEF HostInit
<1>2. [HostNext]_<<part, vars, boxVars, backupVars, upgradeVars>> =>
         [Next]_vars /\ [ContainersNext]_boxVars /\ [BackupNext]_backupVars /\ [UpgradesNext]_upgradeVars
  BY DEF HostNext, Still
<1> QED
  BY <1>1, <1>2, PTL DEF HostSpec, Spec, ContainersSpec, BackupSpec, UpgradesSpec

\* Every file, call, process and row of the part that runs keeps its type.
THEOREM HostIsTyped == HostSpec => []HostTypeOK
<1> DEFINE P == part \in {"daemon", "container", "backup", "upgrade"}
<1>1. HostSpec => []P
  <2>1. HostInit => P
    BY DEF HostInit
  <2>2. P /\ [HostNext]_<<part, vars, boxVars, backupVars, upgradeVars>> => P'
    BY DEF HostNext
  <2> QED
    BY <2>1, <2>2, PTL DEF HostSpec
<1>2. P /\ TypeOK /\ BoxInv /\ BackupInv /\ UpgradesTypeOK => HostTypeOK
  BY DEF HostTypeOK, BoxInv, BackupInv
<1> HIDE DEF P
<1> QED
  BY <1>1, <1>2, HostIsEachPart, TypeCorrect, AlwaysBox, AlwaysBackup, OpeningsAreWhole, PTL

\* `up` says it is up of what it was asked for: of the container that runs the database and
\* the scope of the call (up_container in src/src/native_runtime.rs), and of the daemon that
\* is in the files (up_native), whoever else runs commands.
THEOREM UpIsTrue == HostSpec => UpTellsTheTruth
<1>1. BoxInv /\ [ContainersNext]_boxVars => [OnlyTheAskedIsStarted /\ UpIsUpForTheAsked]_boxVars
  BY StartsWhatIsAsked, UpIsWhatWasAsked, ContainersAssumption
<1>2. ContainersSpec => [][OnlyTheAskedIsStarted /\ UpIsUpForTheAsked]_boxVars
  BY <1>1, AlwaysBox, PTL DEF ContainersSpec
<1> QED
  BY <1>2, HostIsEachPart, UpWaitsForItsOwn, PTL DEF UpTellsTheTruth
=============================================================================
