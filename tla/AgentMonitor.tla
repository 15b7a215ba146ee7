---------------------------- MODULE AgentMonitor ----------------------------
(***************************************************************************)
(* Whether an agent is alive and healthy, and the alerts about it: the     *)
(* server's handlers of health reports, heartbeats and reconnections, and  *)
(* the monitor that marks silent agents as offline.                        *)
(*                                                                         *)
(* Every one of them reads the agent's row, changes a copy and writes the  *)
(* whole row back; alerts are looked up and created in calls of their own. *)
(***************************************************************************)
EXTENDS Naturals, FiniteSets

CONSTANTS
  Agents,             \* identities of agents
  MaxRequests,        \* bound: how many requests of an agent are served at once
  Faults              \* a subset of {"update_error", "alert_error", "crash"}

ASSUME AgentMonitorAssumption ==
  /\ MaxRequests \in Nat
  /\ Faults \subseteq {"update_error", "alert_error", "crash"}

VARIABLES
  row,       \* the agents table
  alerts,    \* how many alerts of each type are not resolved; two stands for more
  requests,  \* requests being served
  monitor,   \* where the monitor's heartbeat check is
  listed,    \* the copies of rows it has still to check
  overlapped, \* history: agents of which two requests were served at once, or one
              \* while the monitor was marking the agent as offline
  missed     \* history: agents of which the alert that goes with a written row
             \* could not be looked up, created or resolved

vars == <<row, alerts, requests, monitor, listed, overlapped, missed>>
history == <<overlapped, missed>>

Health == {"", "unknown", "healthy", "warning", "critical"}

\* seen: how long ago last_seen is, against AgentOfflineThreshold.
Row == [status : {"pending", "active", "offline"}, seen : {"never", "recent", "stale"},
        health : Health]

Types == {"offline", "warning", "critical"}

Unhealthy == {"warning", "critical"}

\* health: what the request will write; changed: whether it is a report whose
\* health differs from that of the row it read.
Request == [agent : Agents, health : Health, changed : BOOLEAN,
            stage : {"update", "alert"}]

RequestsOf(a) == {q \in requests : q.agent = a}

\* The monitor is about to look for, or to create, the offline alert of an agent.
Monitor == [stage : {"idle"}] \cup [stage : {"checking"}]
           \cup [stage : {"lookup", "create"}, agent : Agents]

Marking(a) == monitor.stage \in {"lookup", "create"} /\ monitor.agent = a

Init ==
  /\ row = [a \in Agents |-> [status |-> "pending", seen |-> "never", health |-> "unknown"]]
  /\ alerts = [a \in Agents |-> [t \in Types |-> 0]]
  /\ requests = {}
  /\ monitor = [stage |-> "idle"]
  /\ listed = {}
  /\ overlapped = {}
  /\ missed = {}

Missed(S) == missed' = missed \cup S /\ UNCHANGED overlapped

-----------------------------------------------------------------------------
(* The store.                                                              *)

CreateAlert(a, t) == alerts' = [alerts EXCEPT ![a][t] = IF @ < 2 THEN @ + 1 ELSE @]

ResolveAlertsByResource(a) == alerts' = [alerts EXCEPT ![a] = [t \in Types |-> 0]]

Older(r) == [r EXCEPT !.seen = IF @ = "recent" THEN "stale" ELSE @]

\* Time passes AgentOfflineThreshold since the row, or an older copy the monitor
\* holds, was seen.  A handler is done with its request long before.
Age(a) ==
  /\ \E r \in {row[a], Older(row[a])} : row' = [row EXCEPT ![a] = r]
  /\ listed' = {IF l.agent = a THEN [l EXCEPT !.copy = Older(@)] ELSE l : l \in listed}
  /\ UNCHANGED <<alerts, requests, monitor, history>>

-----------------------------------------------------------------------------
(* The handlers.                                                           *)

\* The middleware, or GetAgentByID, has read the row.
Begin(a, health, changed) ==
  /\ Cardinality(RequestsOf(a)) < MaxRequests
  /\ requests' = requests \cup {[agent |-> a, health |-> health, changed |-> changed,
                                 stage |-> "update"]}
  /\ overlapped' = IF RequestsOf(a) = {} /\ ~ Marking(a) THEN overlapped ELSE overlapped \cup {a}
  /\ UNCHANGED <<row, alerts, monitor, listed, missed>>

HealthChanged(previous, h) == previous # h

ReportHealth(a) ==
  \E h \in {"healthy"} \cup Unhealthy : Begin(a, h, HealthChanged(row[a].health, h))

\* AgentsHandler.Heartbeat and NotifyReconnection; the informational alert the
\* latter adds is left out, as nothing ever looks for it.
Heartbeat(a) == Begin(a, row[a].health, FALSE)

Done(q) == requests' = requests \ {q}

GoesToAlert(q) == requests' = (requests \ {q}) \cup {[q EXCEPT !.stage = "alert"]}

\* Mutant: a status of its own for agents that answer.
Seen_Online(q) == [status |-> "online", seen |-> "recent", health |-> q.health]

\* MarkSeen, and the health.
Seen(q) == [status |-> "active", seen |-> "recent", health |-> q.health]

UpdateAgent(q) ==
  /\ q.stage = "update"
  /\ row' = [row EXCEPT ![q.agent] = Seen(q)]
  /\ IF q.changed THEN GoesToAlert(q) ELSE Done(q)
  /\ UNCHANGED <<alerts, monitor, listed, history>>

UpdateAgentFails(q) ==
  /\ "update_error" \in Faults
  /\ q.stage = "update"
  /\ Done(q)
  /\ UNCHANGED <<row, alerts, monitor, listed, history>>

\* handleHealthStatusChange, when the agent is healthy again.
ResolveHealthAlerts(q) ==
  /\ q.stage = "alert" /\ q.health = "healthy"
  /\ ResolveAlertsByResource(q.agent)
  /\ Done(q)
  /\ UNCHANGED <<row, monitor, listed, history>>

\* It fails and is only logged.
ResolveHealthAlertsFails(q) ==
  /\ "alert_error" \in Faults
  /\ q.stage = "alert" /\ q.health = "healthy"
  /\ Done(q)
  /\ Missed({q.agent})
  /\ UNCHANGED <<row, alerts, monitor, listed>>

\* Otherwise it looks for an alert of the type.  Finding one ends it, and so does
\* finding none: the store wraps the pgx.ErrNoRows that it compares the error with.
\* The creation of the alert is never reached.
LookUpHealthAlert(q) ==
  /\ q.stage = "alert" /\ q.health \in Unhealthy
  /\ Done(q)
  /\ UNCHANGED <<row, alerts, monitor, listed, history>>

-----------------------------------------------------------------------------
(* Monitor.checkAgentHeartbeats.                                           *)

GetAllAgents ==
  /\ monitor.stage = "idle"
  /\ monitor' = [stage |-> "checking"]
  /\ listed' = {[agent |-> a, copy |-> row[a]] : a \in Agents}
  /\ UNCHANGED <<row, alerts, requests, history>>

GoneOffline(copy) == copy.seen # "recent" /\ copy.status = "active"

CameBack(copy) == copy.seen = "recent" /\ copy.status = "offline"

\* Mutant: the health is kept.
Rewritten_KeepsHealth(copy, status) ==
  [status |-> status, seen |-> copy.seen, health |-> copy.health]

\* UpdateAgent with a copy of GetAllAgents, which does not load the health.
Rewritten(copy, status) == [status |-> status, seen |-> copy.seen, health |-> ""]

MarkOffline(a, copy) ==
  /\ row' = [row EXCEPT ![a] = Rewritten(copy, "offline")]
  /\ monitor' = [stage |-> "lookup", agent |-> a]
  /\ overlapped' = IF RequestsOf(a) = {} THEN overlapped ELSE overlapped \cup {a}
  /\ UNCHANGED <<alerts, missed>>

\* The row is written, then the alerts are resolved unless that fails.  One step: no
\* copy is ever of a row that says offline and was seen recently.
MarkOnline(a, copy) ==
  /\ row' = [row EXCEPT ![a] = Rewritten(copy, "active")]
  /\ \/ ResolveAlertsByResource(a) /\ UNCHANGED history
     \/ "alert_error" \in Faults /\ Missed({a}) /\ UNCHANGED alerts
  /\ UNCHANGED monitor

CheckAgent(l) ==
  /\ monitor.stage = "checking"
  /\ listed' = listed \ {l}
  /\ IF GoneOffline(l.copy)   THEN MarkOffline(l.agent, l.copy)
     ELSE IF CameBack(l.copy) THEN MarkOnline(l.agent, l.copy)
     ELSE UNCHANGED <<row, alerts, monitor, history>>
  /\ UNCHANGED requests

CheckAgentFails(l) ==
  /\ "update_error" \in Faults
  /\ monitor.stage = "checking"
  /\ GoneOffline(l.copy) \/ CameBack(l.copy)
  /\ listed' = listed \ {l}
  /\ UNCHANGED <<row, alerts, requests, monitor, history>>

\* Mutants: whatever the lookup finds, an alert is created; the result is inverted.
LookUpOfflineAlert_Ignored ==
  /\ monitor.stage = "lookup"
  /\ monitor' = [monitor EXCEPT !.stage = "create"]
  /\ UNCHANGED <<row, alerts, requests, listed, history>>

LookUpOfflineAlert_Inverted ==
  /\ monitor.stage = "lookup"
  /\ monitor' = IF alerts[monitor.agent].offline = 0
                THEN [stage |-> "checking"] ELSE [monitor EXCEPT !.stage = "create"]
  /\ UNCHANGED <<row, alerts, requests, listed, history>>

\* HasActiveAlert; the wrapped error of a lookup that finds none counts as none too.
LookUpOfflineAlert ==
  /\ monitor.stage = "lookup"
  /\ monitor' = IF alerts[monitor.agent].offline = 0
                THEN [monitor EXCEPT !.stage = "create"] ELSE [stage |-> "checking"]
  /\ UNCHANGED <<row, alerts, requests, listed, history>>

\* A failed lookup counts as no alert.
LookUpOfflineAlertFails ==
  /\ "alert_error" \in Faults
  /\ monitor.stage = "lookup"
  /\ monitor' = [monitor EXCEPT !.stage = "create"]
  /\ Missed({monitor.agent})
  /\ UNCHANGED <<row, alerts, requests, listed>>

CreateOfflineAlert ==
  /\ monitor.stage = "create"
  /\ CreateAlert(monitor.agent, "offline")
  /\ monitor' = [stage |-> "checking"]
  /\ UNCHANGED <<row, requests, listed, history>>

CreateOfflineAlertFails ==
  /\ "alert_error" \in Faults
  /\ monitor.stage = "create"
  /\ monitor' = [stage |-> "checking"]
  /\ Missed({monitor.agent})
  /\ UNCHANGED <<row, alerts, requests, listed>>

EndCheck ==
  /\ monitor.stage = "checking" /\ listed = {}
  /\ monitor' = [stage |-> "idle"]
  /\ UNCHANGED <<row, alerts, requests, listed, history>>

\* The server dies and starts again; rows written before their alert stay.
Crash ==
  /\ "crash" \in Faults
  /\ requests' = {}
  /\ monitor' = [stage |-> "idle"]
  /\ listed' = {}
  /\ Missed({q.agent : q \in {r \in requests : r.stage = "alert"}}
             \cup IF monitor.stage \in {"lookup", "create"} THEN {monitor.agent} ELSE {})
  /\ UNCHANGED <<row, alerts>>

Handle(q) == UpdateAgent(q) \/ ResolveHealthAlerts(q) \/ LookUpHealthAlert(q)

Next ==
  \/ \E a \in Agents : Age(a) \/ ReportHealth(a) \/ Heartbeat(a)
  \/ \E q \in requests : Handle(q) \/ UpdateAgentFails(q) \/ ResolveHealthAlertsFails(q)
  \/ \E l \in listed : CheckAgent(l) \/ CheckAgentFails(l)
  \/ GetAllAgents \/ EndCheck
  \/ LookUpOfflineAlert \/ LookUpOfflineAlertFails
  \/ CreateOfflineAlert \/ CreateOfflineAlertFails
  \/ Crash

Spec == Init /\ [][Next]_vars

\* The monitor's ticker fires and its calls return, handlers end, and the
\* database does not refuse the monitor's write of an agent for ever, nor does
\* the server die again and again.
Fairness ==
  /\ SF_vars(GetAllAgents)
  /\ \A a \in Agents : SF_vars(\E l \in listed : l.agent = a /\ CheckAgent(l))
  /\ SF_vars(LookUpOfflineAlert) /\ SF_vars(CreateOfflineAlert)
  /\ WF_vars(EndCheck)
  /\ WF_vars(\E q \in requests : Handle(q))

FairSpec == Spec /\ Fairness

-----------------------------------------------------------------------------
(* Properties.                                                             *)

\* Type invariant.
TypeOK ==
  /\ row \in [Agents -> Row]
  /\ alerts \in [Agents -> [Types -> 0 .. 2]]
  /\ requests \subseteq Request
  /\ monitor \in Monitor
  /\ listed \subseteq [agent : Agents, copy : Row]
  /\ overlapped \subseteq Agents
  /\ missed \subseteq Agents

\* However often an agent goes silent and comes back, and whatever reports race
\* the monitor's check, at most one offline alert about it is open
\* (checkAgentHeartbeat: "Check if alert already exists").
OneOfflineAlert == \A a \in Agents \ missed : alerts[a].offline <= 1

\* An agent whose last report says healthy has no open offline alert, although a
\* report resolves alerts only if the health changes: the monitor, marking the agent as
\* offline, has overwritten the health that the next report compares with
\* (handleHealthStatusChange, GetAllAgents).
RecoveredIsNotOffline ==
  \A a \in Agents \ (overlapped \cup missed) :
    row[a].health = "healthy" /\ (\A q \in RequestsOf(a) : q.stage = "update")
      => alerts[a].offline = 0

\* An unhealthy agent has an open alert of that severity, unless a report is between
\* its row and its alert (handleHealthStatusChange: "creates or resolves alerts").
UnhealthyIsAlerted ==
  \A a \in Agents \ (overlapped \cup missed) :
    row[a].health \in Unhealthy /\ (\A q \in RequestsOf(a) : q.stage = "update")
      => alerts[a][row[a].health] > 0

\* An agent that went silent has an offline alert sooner or later, unless it
\* sends something or the alert was missed.
OverdueIsAlerted ==
  \A a \in Agents :
    row[a].status = "active" /\ row[a].seen = "stale"
      ~> alerts[a].offline > 0 \/ RequestsOf(a) # {} \/ a \in missed
=============================================================================
