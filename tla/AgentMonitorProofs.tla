------------------------- MODULE AgentMonitorProofs -------------------------
(***************************************************************************)
(* Theorems about AgentMonitor, for any agents and combination of faults.  *)
(***************************************************************************)
EXTENDS AgentMonitor, TLAPS

Reported == {"healthy"} \cup Unhealthy

\* A request that looks at alerts comes from a report.
RequestOK(q) == q.changed \/ q.stage # "update" => q.health \in Reported

RequestsInv == \A q \in requests : RequestOK(q)

\* A copy that says offline was not seen recently.
Silent(r) == r.status = "offline" => r.seen # "recent"

SilentInv ==
  /\ \A a \in Agents : Silent(row[a])
  /\ \A l \in listed : Silent(l.copy)

\* The monitor creates an alert when there is none.
OfflineInv ==
  \A a \in Agents \ missed :
    /\ alerts[a].offline <= 1
    /\ monitor.stage = "create" /\ monitor.agent = a => alerts[a].offline = 0

\* A request that changes nothing agrees with the row it read, and the row with the
\* request that wrote it; while the monitor marks the agent as offline its health is
\* unset and no request is served.
RecoveredOK(a) ==
  /\ \A p, q \in requests : p.agent = a /\ q.agent = a => p = q
  /\ \A q \in requests : q.agent = a =>
       /\ q.stage = "update" /\ ~ q.changed => row[a].health = q.health
       /\ q.stage = "alert" => row[a].health = q.health
  /\ Marking(a) => row[a].health = "" /\ \A q \in requests : q.agent # a
  /\ row[a].health = "healthy" /\ (\A q \in requests : q.agent = a => q.stage = "update")
       => alerts[a].offline = 0

RecoveredInv == \A a \in Agents \ (overlapped \cup missed) : RecoveredOK(a)

-----------------------------------------------------------------------------
(* What the operations do.                                                 *)

LEMMA CreateFields ==
  ASSUME alerts \in [Agents -> [Types -> 0 .. 2]], NEW a \in Agents, NEW t \in Types,
         CreateAlert(a, t)
  PROVE  /\ alerts' \in [Agents -> [Types -> 0 .. 2]]
         /\ alerts[a][t] = 0 => alerts'[a][t] = 1
         /\ \A u \in Types \ {t} : alerts'[a][u] = alerts[a][u]
         /\ \A b \in Agents \ {a} : alerts'[b] = alerts[b]
<1> DEFINE n == IF alerts[a][t] < 2 THEN alerts[a][t] + 1 ELSE alerts[a][t]
           new == [alerts[a] EXCEPT ![t] = n]
<1>1. n \in 0 .. 2 /\ (alerts[a][t] = 0 => n = 1)
  OBVIOUS
<1>2. alerts' = [alerts EXCEPT ![a] = new]
  BY DEF CreateAlert
<1> HIDE DEF n
<1>3. new \in [Types -> 0 .. 2] /\ new[t] = n /\ \A u \in Types \ {t} : new[u] = alerts[a][u]
  BY <1>1
<1> HIDE DEF new
<1> QED
  BY <1>1, <1>2, <1>3

LEMMA ResolveFields ==
  ASSUME alerts \in [Agents -> [Types -> 0 .. 2]], NEW a \in Agents,
         ResolveAlertsByResource(a)
  PROVE  /\ alerts' \in [Agents -> [Types -> 0 .. 2]]
         /\ \A t \in Types : alerts'[a][t] = 0
         /\ \A b \in Agents \ {a} : alerts'[b] = alerts[b]
BY DEF ResolveAlertsByResource

LEMMA OlderFields ==
  ASSUME NEW r \in Row
  PROVE  /\ Older(r) \in Row
         /\ Older(r).status = r.status /\ Older(r).health = r.health
         /\ Older(r).seen # "recent"
BY DEF Older, Row

\* What a request leaves behind when it goes on.
LEMMA GoesToFields ==
  ASSUME requests \subseteq Request, NEW q \in requests, GoesToAlert(q)
  PROVE  \E new \in Request :
           /\ new.agent = q.agent /\ new.health = q.health /\ new.stage = "alert"
           /\ requests' = (requests \ {q}) \cup {new}
<1> DEFINE new == [q EXCEPT !.stage = "alert"]
<1>1. new \in Request /\ new.agent = q.agent /\ new.health = q.health /\ new.stage = "alert"
  BY DEF Request
<1>2. requests' = (requests \ {q}) \cup {new}
  BY DEF GoesToAlert
<1> HIDE DEF new
<1> QED
  BY <1>1, <1>2

LEMMA MonitorAgent ==
  ASSUME monitor \in Monitor, monitor.stage \in {"lookup", "create"}
  PROVE  /\ monitor.agent \in Agents
         /\ [monitor EXCEPT !.stage = "create"] =
              [stage |-> "create", agent |-> monitor.agent]
BY DEF Monitor

-----------------------------------------------------------------------------
(* Type correctness.                                                       *)

Inv == TypeOK /\ RequestsInv

LEMMA InitInv == Init => Inv
BY DEF Init, Inv, TypeOK, RequestsInv, Row, Health, Monitor, Types

LEMMA NextInv == Inv /\ [Next]_vars => Inv'
<1> SUFFICES ASSUME Inv, [Next]_vars PROVE Inv'
  OBVIOUS
<1>t. /\ row \in [Agents -> Row] /\ alerts \in [Agents -> [Types -> 0 .. 2]]
      /\ requests \subseteq Request /\ monitor \in Monitor
      /\ listed \subseteq [agent : Agents, copy : Row]
      /\ overlapped \subseteq Agents /\ missed \subseteq Agents
      /\ RequestsInv
      /\ \A q \in requests : q \in Request /\ q.agent \in Agents /\ q.health \in Health
      /\ \A l \in listed : l.agent \in Agents /\ l.copy \in Row
  BY DEF Inv, TypeOK, Request
<1>h. Unhealthy \subseteq Types
  BY DEF Unhealthy, Types
<1>d. ASSUME NEW q \in requests, Done(q)
      PROVE  requests' \subseteq Request /\ RequestsInv'
  BY <1>t, <1>d DEF Done, RequestsInv, RequestOK
<1>g. ASSUME NEW q \in requests, GoesToAlert(q), q.health \in Reported
      PROVE  requests' \subseteq Request /\ RequestsInv'
  <2>1. PICK new \in Request :
          /\ new.agent = q.agent /\ new.health = q.health /\ new.stage = "alert"
          /\ requests' = (requests \ {q}) \cup {new}
    BY <1>t, <1>g, GoesToFields
  <2> QED
    BY <2>1, <1>t, <1>g DEF RequestsInv, RequestOK
<1>1. ASSUME NEW a \in Agents, Age(a) PROVE Inv'
  <2>1. row' \in [Agents -> Row]
    BY <1>1, <1>t, OlderFields DEF Age
  <2>2. ASSUME NEW l \in listed, l.agent = a
        PROVE  [l EXCEPT !.copy = Older(l.copy)] \in [agent : Agents, copy : Row]
    BY <1>t, OlderFields
  <2>3. listed' \subseteq [agent : Agents, copy : Row]
    BY <1>1, <2>2, <1>t DEF Age
  <2> QED
    BY <1>1, <2>1, <2>3, <1>t DEF Age, history, Inv, TypeOK, RequestsInv
<1>b. ASSUME NEW a \in Agents, NEW health \in Health, NEW changed \in BOOLEAN,
             changed => health \in Reported, Begin(a, health, changed)
      PROVE  Inv'
  <2> DEFINE new == [agent |-> a, health |-> health, changed |-> changed, stage |-> "update"]
  <2>1. new \in Request /\ RequestOK(new)
    BY <1>b DEF Request, RequestOK
  <2>2. requests' = requests \cup {new}
    BY <1>b DEF Begin
  <2> HIDE DEF new
  <2>3. requests' \subseteq Request /\ RequestsInv'
    BY <2>1, <2>2, <1>t DEF RequestsInv, RequestOK
  <2>4. overlapped' \subseteq Agents
    BY <1>b, <1>t DEF Begin
  <2> QED
    BY <1>b, <2>3, <2>4, <1>t DEF Begin, Inv, TypeOK
<1>2. ASSUME NEW a \in Agents, ReportHealth(a) PROVE Inv'
  <2>1. PICK h \in Reported : Begin(a, h, HealthChanged(row[a].health, h))
    BY <1>2 DEF ReportHealth, Reported
  <2>2. HealthChanged(row[a].health, h) \in BOOLEAN /\ h \in Health
    BY DEF HealthChanged, Reported, Unhealthy, Health
  <2> QED
    BY <2>1, <2>2, <1>b
<1>3. ASSUME NEW a \in Agents, Heartbeat(a) PROVE Inv'
  <2>1. row[a].health \in Health
    BY <1>t DEF Row
  <2> QED
    BY <2>1, <1>3, <1>b DEF Heartbeat
<1>4. ASSUME NEW q \in requests, UpdateAgent(q) PROVE Inv'
  <2>1. Seen(q) \in Row
    BY <1>t DEF Seen, Row
  <2>2. row' \in [Agents -> Row]
    BY <2>1, <1>4, <1>t DEF UpdateAgent
  <2>3. requests' \subseteq Request /\ RequestsInv'
    <3>1. CASE q.changed
      <4>1. q.health \in Reported
        BY <3>1, <1>t DEF RequestsInv, RequestOK
      <4> QED
        BY <4>1, <3>1, <1>4, <1>g DEF UpdateAgent
    <3>2. CASE ~ q.changed
      BY <3>2, <1>4, <1>d DEF UpdateAgent
    <3> QED
      BY <3>1, <3>2
  <2> QED
    BY <1>4, <2>2, <2>3, <1>t DEF UpdateAgent, history, Inv, TypeOK
<1>5. ASSUME NEW q \in requests, UpdateAgentFails(q) PROVE Inv'
  BY <1>5, <1>d, <1>t DEF UpdateAgentFails, history, Inv, TypeOK
<1>6. ASSUME NEW q \in requests, ResolveHealthAlerts(q) PROVE Inv'
  BY <1>6, <1>d, <1>t, ResolveFields DEF ResolveHealthAlerts, history, Inv, TypeOK
<1>7. ASSUME NEW q \in requests, LookUpHealthAlert(q) PROVE Inv'
  BY <1>7, <1>d, <1>t DEF LookUpHealthAlert, history, Inv, TypeOK
<1>8. ASSUME NEW q \in requests, ResolveHealthAlertsFails(q) PROVE Inv'
  BY <1>8, <1>d, <1>t DEF ResolveHealthAlertsFails, Missed, Inv, TypeOK
<1>10. CASE GetAllAgents
  BY <1>10, <1>t DEF GetAllAgents, Monitor, history, Inv, TypeOK, RequestsInv
<1>r. ASSUME NEW copy \in Row, NEW status \in {"active", "offline"}
      PROVE  Rewritten(copy, status) \in Row
  BY DEF Rewritten, Row, Health
<1>11. ASSUME NEW l \in listed, CheckAgent(l) PROVE Inv'
  <2>1. CASE MarkOffline(l.agent, l.copy)
    <3>1. row' \in [Agents -> Row]
      BY <2>1, <1>t, <1>r DEF MarkOffline
    <3>2. monitor' \in Monitor /\ overlapped' \subseteq Agents
      BY <2>1, <1>t DEF MarkOffline, Monitor
    <3> QED
      BY <1>11, <2>1, <3>1, <3>2, <1>t DEF CheckAgent, MarkOffline, Inv, TypeOK, RequestsInv
  <2>2. CASE MarkOnline(l.agent, l.copy)
    <3>1. row' \in [Agents -> Row]
      BY <2>2, <1>t, <1>r DEF MarkOnline
    <3>2. alerts' \in [Agents -> [Types -> 0 .. 2]]
      BY <2>2, <1>t, ResolveFields DEF MarkOnline
    <3>3. overlapped' \subseteq Agents /\ missed' \subseteq Agents
      BY <2>2, <1>t DEF MarkOnline, Missed, history
    <3> QED
      BY <1>11, <2>2, <3>1, <3>2, <3>3, <1>t DEF CheckAgent, MarkOnline, Inv, TypeOK, RequestsInv
  <2>3. CASE UNCHANGED <<row, alerts, monitor, history>>
    BY <1>11, <2>3, <1>t DEF CheckAgent, history, Inv, TypeOK, RequestsInv
  <2> QED
    BY <1>11, <2>1, <2>2, <2>3 DEF CheckAgent
<1>12. ASSUME NEW l \in listed, CheckAgentFails(l) PROVE Inv'
  BY <1>12, <1>t DEF CheckAgentFails, history, Inv, TypeOK, RequestsInv
<1>13. CASE EndCheck
  BY <1>13, <1>t DEF EndCheck, Monitor, history, Inv, TypeOK, RequestsInv
<1>m. monitor.stage \in {"lookup", "create"}
      => monitor.agent \in Agents /\ [monitor EXCEPT !.stage = "create"] \in Monitor
  BY <1>t, MonitorAgent DEF Monitor
<1>c. [stage |-> "checking"] \in Monitor /\ [stage |-> "idle"] \in Monitor
  BY DEF Monitor
<1>14. CASE LookUpOfflineAlert
  BY <1>14, <1>m, <1>c, <1>t DEF LookUpOfflineAlert, history, Inv, TypeOK, RequestsInv
<1>15. CASE LookUpOfflineAlertFails
  BY <1>15, <1>m, <1>t DEF LookUpOfflineAlertFails, Missed, Inv, TypeOK, RequestsInv
<1>16. CASE CreateOfflineAlert
  <2>1. "offline" \in Types /\ monitor.agent \in Agents
    BY <1>16, <1>m DEF CreateOfflineAlert, Types
  <2>2. alerts' \in [Agents -> [Types -> 0 .. 2]]
    BY <1>16, <2>1, <1>t, CreateFields DEF CreateOfflineAlert
  <2> QED
    BY <1>16, <2>2, <1>c, <1>t DEF CreateOfflineAlert, history, Inv, TypeOK, RequestsInv
<1>17. CASE CreateOfflineAlertFails
  BY <1>17, <1>m, <1>c, <1>t DEF CreateOfflineAlertFails, Missed, Inv, TypeOK, RequestsInv
<1>18. CASE Crash
  <2>1. missed' \subseteq Agents
    BY <1>18, <1>m, <1>t DEF Crash, Missed
  <2> QED
    BY <1>18, <2>1, <1>c, <1>t DEF Crash, Missed, Inv, TypeOK, RequestsInv
<1>19. CASE UNCHANGED vars
  BY <1>19, <1>t DEF vars, Inv, TypeOK, RequestsInv
<1> QED
  BY <1>1, <1>2, <1>3, <1>4, <1>5, <1>6, <1>7, <1>8, <1>10, <1>11, <1>12, <1>13,
     <1>14, <1>15, <1>16, <1>17, <1>18, <1>19 DEF Next, Handle

LEMMA SpecInv == Spec => []Inv
BY InitInv, NextInv, PTL DEF Spec

\* The table, the alerts, the requests and the monitor keep their types.
THEOREM TypeCorrect == Spec => []TypeOK
<1>1. Inv => TypeOK
  BY DEF Inv
<1> QED
  BY <1>1, SpecInv, PTL

-----------------------------------------------------------------------------
(* A row is offline only with an old last_seen.                            *)

LEMMA InitSilent == Init => SilentInv
BY DEF Init, SilentInv, Silent

LEMMA NextSilent == Inv /\ SilentInv /\ [Next]_vars => SilentInv'
<1> SUFFICES ASSUME Inv, SilentInv, [Next]_vars PROVE SilentInv'
  OBVIOUS
<1>t. /\ row \in [Agents -> Row]
      /\ \A q \in requests : q.agent \in Agents
      /\ \A l \in listed : l.agent \in Agents /\ l.copy \in Row
  BY DEF Inv, TypeOK, Request
<1>s. /\ \A a \in Agents : Silent(row[a])
      /\ \A l \in listed : Silent(l.copy)
  BY DEF SilentInv
<1>o. ASSUME NEW r \in Row, Silent(r) PROVE Silent(Older(r))
  BY <1>o, OlderFields DEF Silent
<1>1. ASSUME NEW a \in Agents, Age(a) PROVE SilentInv'
  <2>1. PICK r \in {row[a], Older(row[a])} : row' = [row EXCEPT ![a] = r]
    BY <1>1 DEF Age
  <2>2. Silent(r)
    BY <1>s, <1>t, <1>o
  <2>3. \A b \in Agents : Silent(row'[b])
    BY <2>1, <2>2, <1>s, <1>t
  <2>4. ASSUME NEW l \in listed PROVE Silent([l EXCEPT !.copy = Older(l.copy)].copy)
    <3>1. [l EXCEPT !.copy = Older(l.copy)].copy = Older(l.copy)
      BY DEF Inv, TypeOK
    <3> QED
      BY <3>1, <1>o, <1>s, <1>t
  <2>5. \A l \in listed' : Silent(l.copy)
    BY <1>1, <2>4, <1>s DEF Age
  <2> QED
    BY <2>3, <2>5 DEF SilentInv, Silent
<1>2. ASSUME NEW q \in requests, UpdateAgent(q) PROVE SilentInv'
  <2>1. row' = [row EXCEPT ![q.agent] = Seen(q)] /\ listed' = listed
    BY <1>2 DEF UpdateAgent
  <2>2. Silent(Seen(q))
    BY DEF Silent, Seen
  <2> QED
    BY <2>1, <2>2, <1>s, <1>t DEF SilentInv, Silent
<1>3. CASE GetAllAgents
  BY <1>3, <1>s DEF GetAllAgents, SilentInv, Silent
<1>4. ASSUME NEW l \in listed, CheckAgent(l) PROVE SilentInv'
  <2>1. listed' \subseteq listed
    BY <1>4 DEF CheckAgent
  <2>2. ~ CameBack(l.copy)
    BY <1>s DEF CameBack, Silent
  <2>3. CASE GoneOffline(l.copy)
    <3>1. row' = [row EXCEPT ![l.agent] = Rewritten(l.copy, "offline")]
      BY <1>4, <2>3 DEF CheckAgent, MarkOffline
    <3>2. Silent(Rewritten(l.copy, "offline"))
      BY <2>3 DEF GoneOffline, Silent, Rewritten
    <3> QED
      BY <2>1, <3>1, <3>2, <1>s, <1>t DEF SilentInv, Silent
  <2>4. CASE ~ GoneOffline(l.copy)
    BY <2>1, <2>2, <2>4, <1>4, <1>s DEF CheckAgent, SilentInv, Silent
  <2> QED
    BY <2>3, <2>4
<1>5. ASSUME UNCHANGED row, listed' \subseteq listed PROVE SilentInv'
  BY <1>5, <1>s DEF SilentInv, Silent
<1> QED
  BY <1>1, <1>2, <1>3, <1>4, <1>5
     DEF Next, Handle, ReportHealth, Heartbeat, Begin, UpdateAgentFails, ResolveHealthAlerts,
         LookUpHealthAlert, ResolveHealthAlertsFails, CheckAgentFails, EndCheck,
         LookUpOfflineAlert, LookUpOfflineAlertFails, CreateOfflineAlert,
         CreateOfflineAlertFails, Crash, vars

-----------------------------------------------------------------------------
(* One offline alert.                                                      *)

LEMMA InitOffline == Init => OfflineInv
BY DEF Init, OfflineInv, Types

LEMMA NextOffline == Inv /\ OfflineInv /\ [Next]_vars => OfflineInv'
<1> SUFFICES ASSUME Inv, OfflineInv, [Next]_vars PROVE OfflineInv'
  OBVIOUS
<1>t. /\ alerts \in [Agents -> [Types -> 0 .. 2]] /\ monitor \in Monitor
      /\ \A q \in requests : q.agent \in Agents
      /\ \A l \in listed : l.agent \in Agents
      /\ RequestsInv
  BY DEF Inv, TypeOK, Request
<1>o. "offline" \in Types /\ "offline" \notin Unhealthy /\ Unhealthy \subseteq Types
  BY DEF Types, Unhealthy
\* Nothing new about any agent.
<1>u. ASSUME UNCHANGED alerts, missed \subseteq missed',
             monitor'.stage = "create" => UNCHANGED monitor
      PROVE  OfflineInv'
  BY <1>u DEF OfflineInv
<1>r. ASSUME NEW a \in Agents, ResolveAlertsByResource(a), missed' = missed,
             UNCHANGED monitor
      PROVE  OfflineInv'
  BY <1>r, <1>t, <1>o, ResolveFields DEF OfflineInv
<1>1. ASSUME NEW q \in requests, ResolveHealthAlerts(q) PROVE OfflineInv'
  BY <1>1, <1>r, <1>t DEF ResolveHealthAlerts, history
<1>3. ASSUME NEW l \in listed, CheckAgent(l) PROVE OfflineInv'
  <2>1. CASE MarkOffline(l.agent, l.copy)
    BY <2>1, <1>u DEF MarkOffline
  <2>2. CASE MarkOnline(l.agent, l.copy)
    <3>1. CASE ResolveAlertsByResource(l.agent) /\ UNCHANGED history
      BY <2>2, <3>1, <1>r, <1>t DEF MarkOnline, history
    <3>2. CASE Missed({l.agent}) /\ UNCHANGED alerts
      BY <2>2, <3>2, <1>u DEF MarkOnline, Missed
    <3> QED
      BY <2>2, <3>1, <3>2 DEF MarkOnline
  <2>3. CASE UNCHANGED <<row, alerts, monitor, history>>
    BY <2>3, <1>u DEF history
  <2> QED
    BY <1>3, <2>1, <2>2, <2>3 DEF CheckAgent
<1>4. CASE LookUpOfflineAlert
  <2>1. CASE alerts[monitor.agent].offline = 0
    <3>1. monitor.agent \in Agents
          /\ monitor' = [stage |-> "create", agent |-> monitor.agent]
      BY <2>1, <1>4, <1>t, MonitorAgent DEF LookUpOfflineAlert
    <3> QED
      BY <2>1, <3>1, <1>4 DEF LookUpOfflineAlert, history, OfflineInv
  <2>2. CASE alerts[monitor.agent].offline # 0
    BY <2>2, <1>4, <1>u DEF LookUpOfflineAlert, history
  <2> QED
    BY <2>1, <2>2
<1>5. CASE LookUpOfflineAlertFails
  <2>1. monitor' = [stage |-> "create", agent |-> monitor.agent]
        /\ monitor.agent \in missed' /\ missed \subseteq missed'
    BY <1>5, <1>t, MonitorAgent DEF LookUpOfflineAlertFails, Missed
  <2> QED
    BY <2>1, <1>5 DEF LookUpOfflineAlertFails, OfflineInv
<1>6. CASE CreateOfflineAlert
  <2>1. monitor.agent \in Agents /\ monitor.stage = "create"
    BY <1>6, <1>t, MonitorAgent DEF CreateOfflineAlert
  <2>2. /\ alerts[monitor.agent].offline = 0 => alerts'[monitor.agent].offline = 1
        /\ \A b \in Agents \ {monitor.agent} : alerts'[b] = alerts[b]
    BY <2>1, <1>6, <1>t, <1>o, CreateFields DEF CreateOfflineAlert
  <2>3. missed' = missed /\ monitor'.stage = "checking"
    BY <1>6 DEF CreateOfflineAlert, history
  <2> QED
    BY <2>1, <2>2, <2>3 DEF OfflineInv
<1> QED
  BY <1>1, <1>3, <1>4, <1>5, <1>6, <1>u
     DEF Next, Handle, Age, ReportHealth, Heartbeat, Begin, UpdateAgent, UpdateAgentFails,
         LookUpHealthAlert, ResolveHealthAlertsFails, Missed, GetAllAgents, CheckAgentFails,
         EndCheck, CreateOfflineAlertFails, Crash, history, vars

\* However agents come and go, and whatever races the monitor's check, at most
\* one offline alert about an agent is open (checkAgentHeartbeat).
THEOREM OneOfflineAlertHolds == Spec => []OneOfflineAlert
<1>1. OfflineInv => OneOfflineAlert
  BY DEF OfflineInv, OneOfflineAlert
<1> QED
  BY <1>1, SpecInv, InitOffline, NextOffline, PTL DEF Spec

-----------------------------------------------------------------------------
(* An agent that has recovered.                                            *)

LEMMA InitRecovered == Init => RecoveredInv
BY DEF Init, RecoveredInv, RecoveredOK, Marking

\* An agent keeps what it has while its requests and the health in its row stay, the
\* monitor does not begin to mark it, and a healthy one gets no alert.
LEMMA RecoveredStays ==
  ASSUME NEW a \in Agents, RecoveredOK(a),
         \A q \in requests' : q.agent = a => q \in requests,
         row'[a].health = row[a].health,
         row[a].health = "healthy" => alerts'[a].offline \in {0, alerts[a].offline},
         Marking(a)' => Marking(a),
         \/ \A q \in requests : q.agent = a => q \in requests'
         \/ \A q \in requests : q.agent = a => q.stage = "update"
  PROVE  RecoveredOK(a)'
<1>1. /\ \A p, q \in requests' : p.agent = a /\ q.agent = a => p = q
      /\ \A q \in requests' : q.agent = a =>
           /\ q.stage = "update" /\ ~ q.changed => row'[a].health = q.health
           /\ q.stage = "alert" => row'[a].health = q.health
      /\ Marking(a)' => row'[a].health = "" /\ \A q \in requests' : q.agent # a
  BY DEF RecoveredOK
<1>2. ASSUME row'[a].health = "healthy", \A q \in requests' : q.agent = a => q.stage = "update"
      PROVE  alerts'[a].offline = 0
  BY <1>2 DEF RecoveredOK
<1> QED
  BY <1>1, <1>2 DEF RecoveredOK

\* An agent without requests.
LEMMA RecoveredSettles ==
  ASSUME NEW a \in Agents, \A q \in requests' : q.agent # a,
         Marking(a)' => row'[a].health = "",
         row'[a].health = "healthy" => alerts'[a].offline = 0
  PROVE  RecoveredOK(a)'
BY DEF RecoveredOK

\* An agent with one request, which the monitor does not mark.
LEMMA RecoveredPends ==
  ASSUME NEW a \in Agents, NEW new \in requests', new.agent = a, ~ Marking(a)',
         \A q \in requests' : q.agent = a => q = new,
         new.stage = "update" /\ ~ new.changed => row'[a].health = new.health,
         new.stage = "alert" => row'[a].health = new.health,
         row'[a].health = "healthy" /\ new.stage = "update" => alerts'[a].offline = 0
  PROVE  RecoveredOK(a)'
BY DEF RecoveredOK

LEMMA NextRecovered == Inv /\ SilentInv /\ RecoveredInv /\ [Next]_vars => RecoveredInv'
<1> SUFFICES ASSUME Inv, SilentInv, RecoveredInv, [Next]_vars PROVE RecoveredInv'
  OBVIOUS
<1> DEFINE Quiet == Agents \ (overlapped \cup missed)
<1>t. /\ row \in [Agents -> Row] /\ alerts \in [Agents -> [Types -> 0 .. 2]]
      /\ monitor \in Monitor /\ requests \subseteq Request
      /\ \A q \in requests : q \in Request /\ q.agent \in Agents
      /\ \A l \in listed : l.agent \in Agents /\ l.copy \in Row /\ Silent(l.copy)
      /\ RequestsInv
  BY DEF Inv, TypeOK, Request, SilentInv
<1>o. "offline" \in Types /\ "healthy" \notin Unhealthy
  BY DEF Types, Unhealthy
<1>i. \A a \in Quiet : RecoveredOK(a)
  BY DEF RecoveredInv
<1>j. ASSUME \A a \in Quiet' : RecoveredOK(a)' PROVE RecoveredInv'
  BY <1>j DEF RecoveredInv
\* What changes nothing of any agent but the end of marking one.
<1>k. ASSUME UNCHANGED <<alerts, requests>>, \A a \in Agents : Marking(a)' => Marking(a),
             overlapped \subseteq overlapped', missed \subseteq missed',
             \A a \in Agents : row'[a].health = row[a].health
      PROVE  RecoveredInv'
  BY <1>k, <1>i, <1>j, RecoveredStays
\* What a step of a request does not touch: the other agents.
<1>n. ASSUME NEW q \in requests, UNCHANGED monitor,
             overlapped \subseteq overlapped', missed \subseteq missed',
             \A b \in Agents \ {q.agent} : alerts'[b] = alerts[b] /\ row'[b] = row[b],
             \A r : r.agent # q.agent => (r \in requests <=> r \in requests')
      PROVE  \A b \in Quiet' \ {q.agent} : RecoveredOK(b)'
  <2> SUFFICES ASSUME NEW b \in Quiet', b # q.agent PROVE RecoveredOK(b)'
    OBVIOUS
  <2>1. b \in Quiet /\ RecoveredOK(b)
    BY <1>n, <1>i
  <2>2. \A r \in requests \cup requests' : r.agent = b => r \in requests /\ r \in requests'
    BY <1>n
  <2>3. Marking(b)' => Marking(b)
    BY <1>n DEF Marking
  <2> QED
    BY <2>1, <2>2, <2>3, <1>n, RecoveredStays
<1>1. ASSUME NEW a \in Agents, Age(a) PROVE RecoveredInv'
  <2>1. \A b \in Agents : row'[b].health = row[b].health
    BY <1>1, <1>t, OlderFields DEF Age
  <2>2. UNCHANGED <<alerts, requests, monitor, overlapped, missed>>
    BY <1>1 DEF Age, history
  <2> QED
    BY <2>1, <2>2, <1>k DEF Marking
<1>b. ASSUME NEW a \in Agents, NEW health, NEW changed \in BOOLEAN,
             ~ changed => health = row[a].health, Begin(a, health, changed)
      PROVE  RecoveredInv'
  <2> DEFINE new == [agent |-> a, health |-> health, changed |-> changed, stage |-> "update"]
  <2>1. /\ requests' = requests \cup {new}
        /\ new.agent = a /\ new.health = health /\ new.changed = changed /\ new.stage = "update"
        /\ UNCHANGED <<row, alerts, monitor, missed>>
        /\ overlapped \subseteq overlapped'
        /\ a \notin overlapped' => ~ Marking(a) /\ \A q \in requests : q.agent # a
    BY <1>b DEF Begin, RequestsOf
  <2> HIDE DEF new
  <2>m. \A c \in Agents : Marking(c)' = Marking(c)
    BY <2>1 DEF Marking
  <2>2. ASSUME NEW c \in Quiet', c # a PROVE RecoveredOK(c)'
    <3>1. c \in Quiet /\ RecoveredOK(c)
      BY <2>1, <2>2, <1>i
    <3> QED
      BY <3>1, <2>1, <2>m, <2>2, RecoveredStays
  <2>3. ASSUME a \in Quiet' PROVE RecoveredOK(a)'
    <3>1. RecoveredOK(a) /\ ~ Marking(a) /\ \A q \in requests : q.agent # a
      BY <2>1, <2>3, <1>i
    <3>2. row[a].health = "healthy" => alerts[a].offline = 0
      BY <3>1 DEF RecoveredOK
    <3> QED
      BY <3>1, <3>2, <2>1, <2>m, <1>b, RecoveredPends
  <2> QED
    BY <2>2, <2>3, <1>j
<1>2. ASSUME NEW a \in Agents, ReportHealth(a) PROVE RecoveredInv'
  <2>1. PICK h \in Reported : Begin(a, h, HealthChanged(row[a].health, h))
    BY <1>2 DEF ReportHealth, Reported
  <2> QED
    BY <2>1, <1>b DEF HealthChanged
<1>3. ASSUME NEW a \in Agents, Heartbeat(a) PROVE RecoveredInv'
  BY <1>3, <1>b DEF Heartbeat
\* In a quiet state a request is the only one of its agent.
<1>q. ASSUME NEW q \in requests, q.agent \in Quiet
      PROVE  /\ RecoveredOK(q.agent) /\ ~ Marking(q.agent)
             /\ \A p \in requests : p.agent = q.agent => p = q
             /\ q.stage = "update" /\ ~ q.changed => row[q.agent].health = q.health
             /\ q.stage = "alert" => row[q.agent].health = q.health
  BY <1>q, <1>i, <1>t DEF RecoveredOK
<1>d. ASSUME NEW q \in requests, Done(q), UNCHANGED <<monitor, overlapped, missed>>,
             \A b \in Agents \ {q.agent} : alerts'[b] = alerts[b] /\ row'[b] = row[b],
             q.agent \in Quiet =>
               (row'[q.agent].health = "healthy" => alerts'[q.agent].offline = 0)
      PROVE  RecoveredInv'
  <2>1. requests' = requests \ {q}
    BY <1>d DEF Done
  <2>2. \A b \in Quiet' \ {q.agent} : RecoveredOK(b)'
    BY <2>1, <1>d, <1>n
  <2>3. ASSUME q.agent \in Quiet' PROVE RecoveredOK(q.agent)'
    <3>1. ~ Marking(q.agent)'
      BY <2>3, <1>d, <1>q DEF Marking
    <3> QED
      BY <2>1, <2>3, <3>1, <1>d, <1>q, <1>t, RecoveredSettles
  <2> QED
    BY <2>2, <2>3, <1>j
<1>4. ASSUME NEW q \in requests, UpdateAgent(q) PROVE RecoveredInv'
  <2>1. /\ row' = [row EXCEPT ![q.agent] = Seen(q)] /\ q.stage = "update"
        /\ UNCHANGED <<alerts, monitor, overlapped, missed>>
    BY <1>4 DEF UpdateAgent, history
  <2>2. row'[q.agent].health = q.health /\ \A b \in Agents \ {q.agent} : row'[b] = row[b]
    BY <2>1, <1>t DEF Seen
  <2>3. CASE q.changed
    <3>1. PICK new \in Request :
            /\ new.agent = q.agent /\ new.health = q.health /\ new.stage = "alert"
            /\ requests' = (requests \ {q}) \cup {new}
      BY <2>3, <1>4, <1>t, GoesToFields DEF UpdateAgent
    <3>2. \A b \in Quiet' \ {q.agent} : RecoveredOK(b)'
      BY <3>1, <2>1, <2>2, <1>n
    <3>3. ASSUME q.agent \in Quiet' PROVE RecoveredOK(q.agent)'
      <4>1. ~ Marking(q.agent)' /\ \A p \in requests : p.agent = q.agent => p = q
        BY <3>3, <2>1, <1>q DEF Marking
      <4>2. new \in requests' /\ \A p \in requests' : p.agent = q.agent => p = new
        BY <3>1, <4>1
      <4> QED
        BY <3>1, <4>1, <4>2, <2>2, <1>t, RecoveredPends
    <3> QED
      BY <3>2, <3>3, <1>j
  <2>4. CASE ~ q.changed
    <3>1. q.agent \in Quiet => (q.health = "healthy" => alerts[q.agent].offline = 0)
      BY <2>1, <2>4, <1>q DEF RecoveredOK
    <3> QED
      BY <3>1, <2>1, <2>2, <2>4, <1>4, <1>d DEF UpdateAgent
  <2> QED
    BY <2>3, <2>4
<1>5. ASSUME NEW q \in requests, UpdateAgentFails(q) PROVE RecoveredInv'
  <2>1. q.agent \in Quiet => (row[q.agent].health = "healthy" => alerts[q.agent].offline = 0)
    BY <1>5, <1>q DEF UpdateAgentFails, RecoveredOK
  <2> QED
    BY <2>1, <1>5, <1>d DEF UpdateAgentFails, history
<1>6. ASSUME NEW q \in requests, ResolveHealthAlerts(q) PROVE RecoveredInv'
  <2>1. /\ alerts'[q.agent].offline = 0
        /\ \A b \in Agents \ {q.agent} : alerts'[b] = alerts[b]
    BY <1>6, <1>o, <1>t, ResolveFields DEF ResolveHealthAlerts
  <2>2. Done(q) /\ UNCHANGED <<row, monitor, overlapped, missed>>
    BY <1>6 DEF ResolveHealthAlerts, history
  <2> QED
    BY <2>1, <2>2, <1>d
<1>7. ASSUME NEW q \in requests, LookUpHealthAlert(q) PROVE RecoveredInv'
  <2>1. /\ q.health \in Unhealthy /\ q.stage = "alert" /\ Done(q)
        /\ UNCHANGED <<row, alerts, monitor, overlapped, missed>>
    BY <1>7 DEF LookUpHealthAlert, history
  <2>2. q.agent \in Quiet => row[q.agent].health # "healthy"
    BY <2>1, <1>o, <1>q
  <2> QED
    BY <2>1, <2>2, <1>d
<1>8. ASSUME NEW q \in requests, ResolveHealthAlertsFails(q) PROVE RecoveredInv'
  <2>1. /\ requests' = requests \ {q} /\ q.agent \in missed' /\ missed \subseteq missed'
        /\ UNCHANGED <<row, alerts, monitor, overlapped>>
    BY <1>8 DEF ResolveHealthAlertsFails, Done, Missed
  <2>2. \A b \in Quiet' \ {q.agent} : RecoveredOK(b)'
    BY <2>1, <1>n
  <2> QED
    BY <2>1, <2>2, <1>j
<1>9. ASSUME NEW l \in listed, CheckAgent(l) PROVE RecoveredInv'
  <2>1. ~ CameBack(l.copy)
    BY <1>t DEF CameBack, Silent
  <2>2. CASE MarkOffline(l.agent, l.copy)
    <3>1. /\ row' = [row EXCEPT ![l.agent] = Rewritten(l.copy, "offline")]
          /\ monitor' = [stage |-> "lookup", agent |-> l.agent]
          /\ overlapped \subseteq overlapped'
          /\ l.agent \notin overlapped' => \A q \in requests : q.agent # l.agent
          /\ UNCHANGED <<alerts, requests, missed>>
      BY <1>9, <2>2 DEF CheckAgent, MarkOffline, RequestsOf
    <3>2. row'[l.agent].health = "" /\ \A b \in Agents \ {l.agent} : row'[b] = row[b]
      BY <3>1, <1>t DEF Rewritten
    <3>3. ASSUME NEW b \in Quiet', b # l.agent PROVE RecoveredOK(b)'
      <4>1. RecoveredOK(b) /\ ~ Marking(b)'
        BY <3>1, <3>3, <1>i DEF Marking
      <4> QED
        BY <3>1, <3>2, <3>3, <4>1, RecoveredStays
    <3>4. ASSUME l.agent \in Quiet' PROVE RecoveredOK(l.agent)'
      BY <3>1, <3>2, <3>4, <1>t, RecoveredSettles
    <3> QED
      BY <3>3, <3>4, <1>j
  <2>3. CASE UNCHANGED <<row, alerts, monitor, history>>
    BY <1>9, <2>3, <1>k DEF CheckAgent, history, Marking
  <2> QED
    BY <1>9, <2>1, <2>2, <2>3 DEF CheckAgent
<1>10. CASE CreateOfflineAlert
  <2>1. monitor.agent \in Agents /\ Marking(monitor.agent)
    BY <1>10, <1>t, MonitorAgent DEF CreateOfflineAlert, Marking
  <2>2. \A b \in Agents \ {monitor.agent} : alerts'[b] = alerts[b]
    BY <1>10, <2>1, <1>t, <1>o, CreateFields DEF CreateOfflineAlert
  <2>3. /\ UNCHANGED <<row, requests, overlapped, missed>>
        /\ \A b \in Agents : ~ Marking(b)'
    BY <1>10 DEF CreateOfflineAlert, history, Marking
  <2>4. ASSUME NEW b \in Quiet' PROVE RecoveredOK(b)'
    <3>1. RecoveredOK(b)
      BY <2>3, <2>4, <1>i
    <3>2. row[b].health = "healthy" => b # monitor.agent
      BY <3>1, <2>1 DEF RecoveredOK
    <3> QED
      BY <3>1, <3>2, <2>2, <2>3, RecoveredStays
  <2> QED
    BY <2>4, <1>j
<1>11. CASE LookUpOfflineAlert \/ LookUpOfflineAlertFails
  <2>1. \A b \in Agents : Marking(b)' => Marking(b)
    <3>1. monitor' \in {[stage |-> "create", agent |-> monitor.agent], [stage |-> "checking"]}
      BY <1>11, <1>t, MonitorAgent DEF LookUpOfflineAlert, LookUpOfflineAlertFails
    <3>2. monitor.stage = "lookup"
      BY <1>11 DEF LookUpOfflineAlert, LookUpOfflineAlertFails
    <3> QED
      BY <3>1, <3>2 DEF Marking
  <2> QED
    BY <1>11, <2>1, <1>k DEF LookUpOfflineAlert, LookUpOfflineAlertFails, Missed, history
<1>12. CASE Crash
  <2>1. /\ requests' = {} /\ missed \subseteq missed' /\ UNCHANGED <<row, alerts, overlapped>>
        /\ \A q \in requests : q.stage = "alert" => q.agent \in missed'
        /\ \A b \in Agents : ~ Marking(b)'
    BY <1>12 DEF Crash, Missed, Marking
  <2>2. ASSUME NEW a \in Quiet' PROVE RecoveredOK(a)'
    <3>1. RecoveredOK(a) /\ \A q \in requests : q.agent = a => q.stage # "alert"
      BY <2>1, <1>i
    <3>2. \A q \in requests : q.agent = a => q.stage = "update"
      BY <3>1, <1>t DEF Request
    <3> QED
      BY <3>1, <3>2, <2>1, RecoveredStays
  <2> QED
    BY <2>2, <1>j
<1>13. CASE GetAllAgents \/ EndCheck \/ CreateOfflineAlertFails
  <2>1. \A b \in Agents : ~ Marking(b)'
    BY <1>13 DEF GetAllAgents, EndCheck, CreateOfflineAlertFails, Marking
  <2> QED
    BY <1>13, <2>1, <1>k DEF GetAllAgents, EndCheck, CreateOfflineAlertFails, Missed, history
<1>14. ASSUME NEW l \in listed, CheckAgentFails(l) PROVE RecoveredInv'
  BY <1>14, <1>k DEF CheckAgentFails, history, Marking
<1>15. CASE UNCHANGED vars
  BY <1>15, <1>k DEF vars, Marking
<1> QED
  BY <1>1, <1>2, <1>3, <1>4, <1>5, <1>6, <1>7, <1>8, <1>9, <1>10, <1>11, <1>12, <1>13, <1>14,
     <1>15 DEF Next, Handle

\* Whatever the monitor overwrites, an agent whose last report says healthy has no open
\* offline alert (RecoveredIsNotOffline; handleHealthStatusChange, GetAllAgents).
THEOREM RecoveredIsNotOfflineHolds == Spec => []RecoveredIsNotOffline
<1>1. RecoveredInv => RecoveredIsNotOffline
  BY DEF RecoveredInv, RecoveredOK, RecoveredIsNotOffline, RequestsOf
<1>2. Init => Inv /\ SilentInv /\ RecoveredInv
  BY InitInv, InitSilent, InitRecovered
<1>3. Inv /\ SilentInv /\ RecoveredInv /\ [Next]_vars => (Inv /\ SilentInv /\ RecoveredInv)'
  BY NextInv, NextSilent, NextRecovered
<1> QED
  BY <1>1, <1>2, <1>3, PTL DEF Spec
=============================================================================
