------------------------------ MODULE Containers ------------------------------
(***************************************************************************)
(* The managed container (src/src/native_runtime.rs): `up`, `down`,        *)
(* `restart` and `upgrade` over the commands of Docker or Podman, each of  *)
(* them a process of its own, with no lock around them.  The database is a *)
(* file on the host, mounted by its directory, so that the server inside   *)
(* only knows its name; a container keeps what it was created with.        *)
(*                                                                         *)
(* One container name and one address.  Left out: which paths can be       *)
(* mounted at all, the user, the image (an upgrade pulls one, and starts   *)
(* the container there is), and the text of the reports.                   *)
(* A definition marked "Slip" is the next one with a mistake in it.        *)
(***************************************************************************)
EXTENDS Integers, FiniteSets

CONSTANTS
    Callers,            \* managers, that may run at the same time
    Places, Names,      \* directories and file names of databases
    LinkOf,             \* where a configured path really is
    Scopes,             \* profiles and workspaces
    Settings,           \* what commands are given: a configured path and a scope
    NoServer,           \* nobody at the address, no container, no call
    MaxSwaps            \* bound on what happens to a container meanwhile

Stores == [place: Places, name: Names]
ASSUME ContainersAssumption ==
    /\ LinkOf \in [Stores -> Stores] /\ \A d \in Stores : LinkOf[LinkOf[d]] = LinkOf[d]
    /\ Settings \subseteq [db: Stores, scope: Scopes]
    /\ MaxSwaps \in Nat
    /\ NoServer \notin [db: Stores, scope: Scopes, on: BOOLEAN]

VARIABLES
    box,        \* the container of the name
    other,      \* another server at the address, over a store of its own
    stored,     \* the scopes written into each store
    calls,      \* the commands that run
    swaps       \* how often the container was removed or died, or the address was taken

boxVars == <<box, other, stored, calls, swaps>>

NoCall == [pc |-> "idle", last |-> "none", set |-> NoServer, blind |-> FALSE]

ContainersInit ==
    /\ box = NoServer /\ other = NoServer /\ swaps = 0
    /\ \E set \in Settings :
          stored \in {[d \in Stores |-> {}],
                      [d \in Stores |-> IF d = LinkOf[set.db] THEN {set.scope} ELSE {}]}
    /\ calls = [c \in Callers |-> NoCall]

Exists == box # NoServer
BoxRuns == Exists /\ box.on
AddressIsTaken == BoxRuns \/ other # NoServer

To(c, pc) ==
    calls' = [calls EXCEPT ![c] = CASE pc = "ok" -> [NoCall EXCEPT !.pc = "ok"]
                                    [] pc = "failed" -> NoCall
                                    [] OTHER -> [@ EXCEPT !.pc = pc]]
RestStays == UNCHANGED <<other, stored, swaps>>
----------------------------------------------------------------------------
(* up *)

\* up, down, restart, upgrade: all but the second end with an up.
Call(c, cmd, set) ==
    /\ calls[c].pc \in {"idle", "ok"}
    /\ calls' = [calls EXCEPT ![c] =
           [pc |-> CASE cmd = "up" -> "look" [] cmd = "upgrade" -> "pull" [] OTHER -> "stop",
            last |-> IF cmd = "down" THEN "down" ELSE "up", set |-> set, blind |-> FALSE]]
    /\ UNCHANGED box /\ RestStays

\* container_exists
Look(c) ==
    /\ calls[c].pc = "look"
    /\ To(c, IF Exists THEN "verify" ELSE "bindnew")
    /\ UNCHANGED box /\ RestStays

\* Slip: a link is mounted where it is.
MountAsNamed(set) == set.db

\* container_database_mount: the file a link leads to, by its directory.
MountOf(set) == LinkOf[set.db]

\* Slip: only the name of the database is compared.
MountedByName(set) == Exists /\ box.db.name = MountOf(set).name

\* ensure_container_database_mount
Mounted(set) == Exists /\ box.db = MountOf(set)

Verify(c) ==
    /\ calls[c].pc = "verify"
    /\ To(c, IF Mounted(calls[c].set) THEN "running" ELSE "failed")
    /\ UNCHANGED box /\ RestStays

\* container_running
AskRunning(c) ==
    /\ calls[c].pc = "running"
    /\ To(c, IF BoxRuns THEN "start" ELSE "bindold")
    /\ UNCHANGED box /\ RestStays

\* ensure_bind_available
Bind(c) ==
    /\ calls[c].pc \in {"bindold", "bindnew"}
    /\ To(c, IF AddressIsTaken THEN "failed" ELSE IF calls[c].pc = "bindold" THEN "start" ELSE "create")
    /\ UNCHANGED box /\ RestStays

\* Starting a container, new or not: it fails when another server has the address, or may anyway.
Starts(c, b) ==
    \/ /\ b.on \/ other = NoServer
       /\ box' = [b EXCEPT !.on = TRUE] /\ To(c, "wait")
    \/ box' = b /\ To(c, "failed")

\* up_container (start)
Start(c) ==
    /\ calls[c].pc = "start"
    /\ IF Exists THEN Starts(c, box) ELSE To(c, "failed") /\ UNCHANGED box
    /\ RestStays

\* up_container (run): one of the name is in the way, or a new one stays whether or not it starts.
RunNew(c) ==
    /\ calls[c].pc = "create"
    /\ \/ To(c, "failed") /\ UNCHANGED box
       \/ /\ ~Exists
          /\ Starts(c, [db |-> MountOf(calls[c].set), scope |-> calls[c].set.scope,
                        on |-> FALSE])
    /\ RestStays

\* Who answers at the address.
Answering == IF BoxRuns THEN box ELSE other

\* managed_scope_available: nothing is stored yet, or the scope is.
Available(s, set, sane) ==
    LET known == stored[s.db]
    IN  IF known = {} THEN sane ELSE s.scope \in known

\* Slip: the scope it serves is not compared.
BoxReadyForAnyone(s, set, sane) == s.db.name = MountOf(set).name /\ Available(s, set, sane)

\* managed_status_ready: inside, the path is only the name.  sane: nothing is degraded; else the last
\* dream failed, and that is all (degraded_only_by_dreamer).
BoxReady(s, set, sane) ==
    s.db.name = MountOf(set).name /\ s.scope = set.scope /\ Available(s, set, sane)

\* wait_for_ready: no answer for too long, or one that says how things are.
Wait(c) ==
    /\ calls[c].pc = "wait"
    /\ \/ To(c, "failed")
       \/ /\ Answering # NoServer
          /\ \E sane \in BOOLEAN :
                To(c, IF BoxReady(Answering, calls[c].set, sane) THEN "ok" ELSE "failed")
    /\ UNCHANGED box /\ RestStays
----------------------------------------------------------------------------
(* down, restart, upgrade *)

\* down_container: whether the container really stopped is not asked.
StopBox(c) ==
    /\ calls[c].pc = "stop"
    /\ To(c, IF calls[c].last = "down" THEN "ok" ELSE "look")
    /\ \/ Exists /\ box' = [box EXCEPT !.on = FALSE]
       \/ UNCHANGED box
    /\ RestStays

\* upgrade: pull, then restart.
Pull(c) ==
    /\ calls[c].pc = "pull"
    /\ \E pulled \in BOOLEAN : To(c, IF pulled THEN "stop" ELSE "failed")
    /\ UNCHANGED box /\ RestStays
----------------------------------------------------------------------------
(* Everything else *)

\* Calls on their way no longer know what they have looked at.
Blinded == calls' = [c \in Callers |-> [calls[c] EXCEPT !.blind = calls[c].last # "none"]]

\* docker rm -f, by an operator.
Removed ==
    /\ Exists /\ swaps < MaxSwaps /\ swaps' = swaps + 1
    /\ box' = NoServer /\ Blinded
    /\ UNCHANGED <<other, stored>>

Dies ==
    /\ BoxRuns /\ swaps < MaxSwaps /\ swaps' = swaps + 1
    /\ box' = [box EXCEPT !.on = FALSE]
    /\ UNCHANGED <<other, stored, calls>>

\* Another server takes the address, or gives it back.
OtherComes ==
    /\ ~AddressIsTaken /\ swaps < MaxSwaps /\ swaps' = swaps + 1
    /\ \E set \in Settings : other' = [db |-> MountOf(set), scope |-> set.scope]
    /\ Blinded /\ UNCHANGED <<box, stored>>

OtherGoes ==
    /\ other # NoServer /\ other' = NoServer
    /\ UNCHANGED <<box, stored, calls, swaps>>

\* A client writes through the server it finds (ensure_workspace).
ClientWrites ==
    /\ Answering # NoServer /\ stored' = [stored EXCEPT ![Answering.db] = @ \cup {Answering.scope}]
    /\ UNCHANGED <<box, other, calls, swaps>>

ContainersNext ==
    \/ \E c \in Callers :
          \/ \E cmd \in {"up", "down", "restart", "upgrade"}, set \in Settings : Call(c, cmd, set)
          \/ Look(c) \/ Verify(c) \/ AskRunning(c) \/ Bind(c) \/ Start(c) \/ RunNew(c) \/ Wait(c)
          \/ StopBox(c) \/ Pull(c)
    \/ Removed \/ Dies \/ OtherComes \/ OtherGoes
    \/ ClientWrites

ContainersSpec == ContainersInit /\ [][ContainersNext]_boxVars
----------------------------------------------------------------------------
(* What the managed container promises (docs/getting-started.md). *)

\* The state stays within its types, and a store behind a link is never mounted twice.
ContainersTypeOK ==
    /\ box \in [db: {LinkOf[d] : d \in Stores}, scope: Scopes, on: BOOLEAN] \cup {NoServer}
    /\ other \in [db: Stores, scope: Scopes] \cup {NoServer}
    /\ stored \in [Stores -> SUBSET Scopes]
    /\ swaps \in 0 .. MaxSwaps
    /\ calls \in [Callers ->
           [pc: {"idle", "look", "verify", "running", "bindold", "bindnew", "start", "create", "wait",
                 "stop", "pull", "ok"},
            last: {"none", "up", "down"}, set: Settings \cup {NoServer}, blind: BOOLEAN]]

\* Whose command has just come to an end, or has just started the container.
Ends(c, pc) == calls[c].pc # pc /\ calls'[c].pc = pc
Starting(c) == calls[c].pc \in {"start", "create"} /\ calls'[c].pc = "wait"

\* "Managed container startup mounts that database's parent directory": a container is only started
\* over the database that was asked for, unless it was replaced after it had been looked at.
OnlyTheAskedIsStarted ==
    \A c \in Callers : Starting(c) /\ ~calls[c].blind => box'.db = MountOf(calls[c].set)

\* A command that says it is up has brought up the database and the scope it was asked for, whatever
\* other commands did meanwhile.
UpIsUpForTheAsked ==
    \A c \in Callers :
        Ends(c, "ok") /\ calls[c].last = "up" /\ ~calls[c].blind =>
            /\ BoxRuns /\ box.db = MountOf(calls[c].set) /\ box.scope = calls[c].set.scope
            /\ stored[box.db] # {} => box.scope \in stored[box.db]
=============================================================================
