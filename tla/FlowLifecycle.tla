--------------------------- MODULE FlowLifecycle ---------------------------
(***************************************************************************)
(* The life of one named flow (internal/flowapi/service.go over            *)
(* internal/flow/flow.go): its durable row, the manager's map entry, and   *)
(* the block graphs built for it, each with a container whose exit is      *)
(* watched.  API calls, block-death callbacks and the auto-restart loop    *)
(* run concurrently and hold no lock across their steps.                   *)
(*                                                                         *)
(* A process is an API call, or the death callback of one graph, which     *)
(* goes on as the restart loop it spawns.                                  *)
(***************************************************************************)
EXTENDS Naturals, FiniteSets

CONSTANTS Callers, Graphs, None, NoRow,
          MaxConfig,   \* bound: configs are 0..MaxConfig
          MaxFails     \* bound: builds that fail

VARIABLES row,         \* durable row: auto_restart, status, config
          live,        \* Manager.flows[instance]: the registered graph, or None
          graph,       \* each graph: unbuilt, built, running or stopped; config
          proc,        \* each process
          restarting,  \* Service.restarting[instance]
          fails

vars == <<row, live, graph, proc, restarting, fails>>

Procs == Callers \cup Graphs

Free == [pc |-> "idle", op |-> None, got |-> 0, target |-> None]

Init ==
  /\ \E g \in Graphs, auto \in BOOLEAN :
       /\ row = [auto |-> auto, status |-> "running", config |-> 0]
       /\ live = g
       /\ graph = [h \in Graphs |-> [state |-> IF h = g THEN "running" ELSE "unbuilt", config |-> 0]]
  /\ proc = [p \in Procs |-> Free]
  /\ restarting = FALSE
  /\ fails = 0

Goto(p, pc) == proc' = [proc EXCEPT ![p].pc = pc]

(* An API call returns; a restart loop sleeps and tries again, or ends. *)
Returns(p, ok) ==
  /\ proc' = [proc EXCEPT ![p] = IF @.op = "loop"
                                  THEN [@ EXCEPT !.pc = IF ok THEN "end" ELSE "sleep"]
                                  ELSE [Free EXCEPT !.pc = "over"]]
  /\ UNCHANGED restarting

UpdateFlowRuntime(status) ==
  row' = IF row = NoRow THEN NoRow ELSE [row EXCEPT !.status = status]

-----------------------------------------------------------------------------
(* RestartFlowInstance, step by step: read the row, ... *)
RestartReads(p) ==
  /\ proc[p].pc = "read"
  /\ IF row = NoRow THEN Returns(p, FALSE)
     ELSE /\ proc' = [proc EXCEPT ![p].pc = "find", ![p].got = row.config]
          /\ UNCHANGED restarting
  /\ UNCHANGED <<row, live, graph, fails>>

(* ... StopFlow: look the instance up, then drain it and stop its blocks, *)
StopFinds(p) ==
  /\ proc[p].pc = "find"
  /\ proc' = [proc EXCEPT ![p].pc = IF live = None THEN "unregister" ELSE "stop",
                          ![p].target = live]
  /\ UNCHANGED <<row, live, graph, restarting, fails>>

StopDone(p) ==
  /\ proc[p].pc = "stop"
  /\ graph' = [graph EXCEPT ![proc[p].target].state = "stopped"]
  /\ Goto(p, "unregister")
  /\ UNCHANGED <<row, live, restarting, fails>>

(* ... UnregisterFlow, by instance key, *)
Unregister(p) ==
  /\ proc[p].pc = "unregister"
  /\ live' = None
  /\ Goto(p, CASE proc[p].op = "delete" -> "erase"
               [] proc[p].op = "fatal" -> "claim"
               [] OTHER -> "build")
  /\ UNCHANGED <<row, graph, restarting, fails>>

(* ... resolveAndBuild, which starts the container, or fails, *)
Build(p) ==
  /\ proc[p].pc = "build"
  /\ \E g \in Graphs :
       /\ graph[g].state = "unbuilt"
       /\ graph' = [graph EXCEPT ![g] = [state |-> "built", config |-> proc[p].got]]
       /\ proc' = [proc EXCEPT ![p].pc = "creating", ![p].target = g]
  /\ UNCHANGED <<row, live, restarting, fails>>

BuildFails(p) ==
  /\ proc[p].pc = "build" /\ fails < MaxFails
  /\ fails' = fails + 1
  /\ UpdateFlowRuntime("failed")
  /\ Returns(p, FALSE)
  /\ UNCHANGED <<live, graph>>

Creating(p) ==
  /\ proc[p].pc = "creating"
  /\ UpdateFlowRuntime("creating")
  /\ Goto(p, "start")
  /\ UNCHANGED <<live, graph, restarting, fails>>

(* ... Manager.StartFlow: an occupied key refuses the new graph, whose     *)
(* blocks nobody stops.                                                    *)
StartFlow(p) ==
  LET g == proc[p].target IN
  /\ proc[p].pc = "start"
  /\ IF live # None THEN Returns(p, FALSE) /\ UNCHANGED <<live, graph>>
     ELSE /\ live' = g
          /\ graph' = [graph EXCEPT ![g].state = IF @ = "built" THEN "running" ELSE @]
          /\ Goto(p, "running")
          /\ UNCHANGED restarting
  /\ UNCHANGED <<row, fails>>

Running(p) ==
  /\ proc[p].pc = "running"
  /\ UpdateFlowRuntime("running")
  /\ Returns(p, TRUE)
  /\ UNCHANGED <<live, graph, fails>>

-----------------------------------------------------------------------------
(* API calls. *)
CreateAndStartFlow(p, auto) ==
  /\ proc[p].pc = "idle" /\ row = NoRow
  /\ row' = [auto |-> auto, status |-> "stopped", config |-> 0]
  /\ proc' = [proc EXCEPT ![p] = [Free EXCEPT !.pc = "build", !.op = "create"]]
  /\ UNCHANGED <<live, graph, restarting, fails>>

ReloadFlow(p) ==
  /\ proc[p].pc = "idle"
  /\ proc' = [proc EXCEPT ![p] = [Free EXCEPT !.pc = "read", !.op = "reload"]]
  /\ UNCHANGED <<row, live, graph, restarting, fails>>

DeleteFlow(p) ==
  /\ proc[p].pc = "idle"
  /\ proc' = [proc EXCEPT ![p] = [Free EXCEPT !.pc = "find", !.op = "delete"]]
  /\ UNCHANGED <<row, live, graph, restarting, fails>>

DeleteErases(p) ==
  /\ proc[p].pc = "erase"
  /\ row' = NoRow
  /\ Returns(p, row # NoRow)
  /\ UNCHANGED <<live, graph, fails>>

(* UpdateFlowConfig: after the dry run the config is stored; only a flow   *)
(* live at that moment is rebuilt.                                         *)
UpdateFlowConfig(p, c) ==
  /\ proc[p].pc = "idle" /\ row # NoRow
  /\ row' = [row EXCEPT !.config = c]
  /\ proc' = [proc EXCEPT ![p] = [Free EXCEPT !.pc = "live?", !.op = "update"]]
  /\ UNCHANGED <<live, graph, restarting, fails>>

UpdateChecksLive(p) ==
  /\ proc[p].pc = "live?"
  /\ IF live # None THEN Goto(p, "read") /\ UNCHANGED restarting ELSE Returns(p, TRUE)
  /\ UNCHANGED <<row, live, graph, fails>>

-----------------------------------------------------------------------------
(* The container of graph g exits while the graph is not stopped: its      *)
(* watcher calls NotifyFatal, onBlockFatal records the failure.            *)
BlockDies(g) ==
  /\ proc[g].pc = "idle" /\ graph[g].state \in {"built", "running"}
  /\ graph' = [graph EXCEPT ![g].state = IF @ = "running" THEN "dead" ELSE "stillborn"]
  /\ proc' = [proc EXCEPT ![g] = [Free EXCEPT !.pc = "failed", !.op = "fatal"]]
  /\ UNCHANGED <<row, live, restarting, fails>>

FatalRecords(g) ==
  /\ proc[g].pc = "failed"
  /\ UpdateFlowRuntime("failed")
  /\ Goto(g, "find")
  /\ UNCHANGED <<live, graph, restarting, fails>>

(* After the teardown: reread the row, and claim the restart. *)
BeginRestart(g) ==
  /\ proc[g].pc = "claim"
  /\ IF row # NoRow /\ row.auto /\ ~restarting
     THEN /\ restarting' = TRUE
          /\ proc' = [proc EXCEPT ![g] = [Free EXCEPT !.pc = "sleep", !.op = "loop"]]
     ELSE /\ Goto(g, "over")
          /\ UNCHANGED restarting
  /\ UNCHANGED <<row, live, graph, fails>>

(* restartWithBackoff after its delay. *)
LoopWakes(g) ==
  /\ proc[g].pc = "sleep"
  /\ Goto(g, IF row # NoRow /\ row.auto THEN "read" ELSE "end")
  /\ UNCHANGED <<row, live, graph, restarting, fails>>

EndRestart(g) ==
  /\ proc[g].pc = "end"
  /\ restarting' = FALSE
  /\ Goto(g, "over")
  /\ UNCHANGED <<row, live, graph, fails>>

-----------------------------------------------------------------------------
Proceed(p) ==
  \/ RestartReads(p) \/ StopFinds(p) \/ StopDone(p) \/ Unregister(p)
  \/ Build(p) \/ BuildFails(p) \/ Creating(p) \/ StartFlow(p) \/ Running(p)
  \/ DeleteErases(p) \/ UpdateChecksLive(p)
  \/ p \in Graphs /\ (FatalRecords(p) \/ BeginRestart(p) \/ LoopWakes(p) \/ EndRestart(p))

Call(p) ==
  \/ ReloadFlow(p) \/ DeleteFlow(p)
  \/ \E auto \in BOOLEAN : CreateAndStartFlow(p, auto)
  \/ \E c \in 0..MaxConfig : UpdateFlowConfig(p, c)

Next ==
  \/ \E p \in Procs : Proceed(p)
  \/ \E p \in Callers : Call(p)
  \/ \E g \in Graphs : BlockDies(g)

(* Goroutines run on, timers fire, builds fail only so often; nobody has   *)
(* to call and no container has to die.                                    *)
Spec == Init /\ [][Next]_vars /\ \A p \in Procs : WF_vars(Proceed(p))

-----------------------------------------------------------------------------
Spare == \E g \in Graphs : graph[g].state = "unbuilt"

(* "Retrying until the flow starts or its durable row is deleted /         *)
(* auto_restart disabled": once a block of an auto_restart flow died, a    *)
(* graph that is not dead is registered again, as long as the row stays    *)
(* and graphs are left to build.                                           *)
DeadFlowRestarts ==
  \A g \in Graphs :
    (proc[g].pc = "claim")
    ~> (\/ row = NoRow \/ ~row.auto \/ ~Spare
        \/ live # None /\ graph[live].state = "running")
=============================================================================
