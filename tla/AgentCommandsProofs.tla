------------------------- MODULE AgentCommandsProofs -------------------------
(***************************************************************************)
(* Theorems about AgentCommands, for any set of commands and all faults.   *)
(***************************************************************************)
EXTENDS AgentCommands, TLAPS

\* Nobody acknowledged the command yet.
Unclaimed(c) == status[c] \in {"unborn", "pending"}

\* The one request the agent waits for belongs to its place in executeCommand.
LiveRequests ==
  /\ \A r, q \in requests : r.live /\ q.live => r = q
  /\ \A r \in requests : r.live =>
       /\ r.cmd = cur
       /\ \/ pc = "acking" /\ r.kind = "ack"
          \/ pc = "starting" /\ r.kind = "running"
          \/ pc = "reporting" /\ r.kind \in {"completed", "failed"}

\* A granted acknowledgement and everything after it leave the command claimed.
Claimed ==
  /\ \A r \in requests : r.live /\ r.kind = "ack" /\ r.phase = "ok" => ~Unclaimed(r.cmd)
  /\ pc \in {"starting", "executing", "reporting"} => ~Unclaimed(cur)
  /\ \A r \in requests : r.kind # "ack" => ~Unclaimed(r.cmd)
  /\ \A c \in Commands : runs[c] > 0 => ~Unclaimed(c)

\* What is still to be executed was not executed, and is not in two places.
NotYetRun ==
  /\ cur \notin todo
  /\ \A c \in todo : runs[c] = 0
  /\ pc \in {"acking", "starting"} => runs[cur] = 0
  /\ pc = "reporting" /\ cur \in Restarting => runs[cur] = 0

\* Only what was executed is reported, in a request or in the table.
Reported ==
  /\ pc = "executing" => cur \notin Restarting
  /\ pc = "executing" => runs[cur] = 1
  /\ \A r \in requests :
       r.kind \in {"completed", "failed"} /\ r.cmd \notin Restarting => runs[r.cmd] = 1
  /\ CompletedWasExecuted

IInv == TypeOK /\ LiveRequests /\ Claimed /\ NotYetRun /\ Reported /\ ExecutedAtMostOnce
Phase == {"sent", "read", "ok", "error"}

At(r, p) == [r EXCEPT !.phase = p]

Abandoned(r) == [r EXCEPT !.live = FALSE]

\* What moving a request to a phase, or abandoning it, leaves as it was.
LEMMA RequestFields ==
  ASSUME NEW r \in Request, NEW p \in Phase
  PROVE  /\ At(r, p) \in Request
         /\ At(r, p).cmd = r.cmd /\ At(r, p).kind = r.kind
         /\ At(r, p).live = r.live /\ At(r, p).phase = p
         /\ Abandoned(r) \in Request
         /\ Abandoned(r).cmd = r.cmd /\ Abandoned(r).kind = r.kind
         /\ Abandoned(r).live = FALSE
BY DEF Request, At, Abandoned, Phase

\* A new request is live, sent and of its command and kind.
LEMMA SendFields ==
  ASSUME NEW kind \in Kinds, NEW c \in Commands
  PROVE  /\ Send(kind, c) \in Request
         /\ Send(kind, c).cmd = c /\ Send(kind, c).kind = kind
         /\ Send(kind, c).live = TRUE /\ Send(kind, c).phase = "sent"
BY DEF Send, Request, Kinds

\* A step of a handler serving r: it may move r to another phase, never makes
\* a command unclaimed again and answers ok only for a claimed one.
LEMMA HandlerStep ==
  ASSUME IInv, NEW r \in requests, NEW p \in Phase,
         requests' \subseteq (requests \ {r}) \cup {At(r, p)},
         UNCHANGED <<expired, agent, runs>>,
         status' \in [Commands -> Status],
         \A c \in Commands : Unclaimed(c)' => Unclaimed(c),
         p = "ok" => ~Unclaimed(r.cmd)',
         CompletedWasExecuted'
  PROVE  IInv'
<1>0. /\ requests \subseteq Request /\ r \in Request
      /\ \A q \in requests : q.cmd \in Commands
  BY DEF IInv, TypeOK, Request
<1>a. /\ At(r, p) \in Request /\ At(r, p).cmd = r.cmd /\ At(r, p).kind = r.kind
      /\ At(r, p).live = r.live /\ At(r, p).phase = p
  BY <1>0, RequestFields
<1>b. \A q \in requests' : q \in requests \ {r} \/ q = At(r, p)
  OBVIOUS
<1> DEFINE moved == At(r, p)
<1> HIDE DEF moved
<1>1. TypeOK'
  BY <1>0, <1>a DEF IInv, TypeOK, agent
<1>2. LiveRequests'
  <2>1. \A q, s \in requests' : q.live /\ s.live => q = s
    BY <1>0, <1>a, <1>b DEF IInv, LiveRequests
  <2> QED
    BY <2>1, <1>a, <1>b DEF IInv, LiveRequests, agent
<1>3. Claimed'
  BY <1>0, <1>a, <1>b DEF IInv, TypeOK, Claimed, agent
<1>4. NotYetRun'
  BY DEF IInv, NotYetRun, agent
<1>5. Reported'
  BY <1>0, <1>a, <1>b DEF IInv, Reported, agent
<1>6. ExecutedAtMostOnce'
  BY DEF IInv, ExecutedAtMostOnce
<1> QED
  BY <1>1, <1>2, <1>3, <1>4, <1>5, <1>6 DEF IInv
\* A step that touches the table or the clock only.
LEMMA TableStep ==
  ASSUME IInv,
         expired' \subseteq Commands,
         UNCHANGED <<requests, agent, runs>>,
         status' \in [Commands -> Status],
         \A c \in Commands : Unclaimed(c)' => Unclaimed(c),
         \A c \in Commands : status'[c] = status[c] \/ status'[c] \notin {"completed", "failed"}
  PROVE  IInv'
<1>0. \A q \in requests : q.cmd \in Commands
  BY DEF IInv, TypeOK, Request
<1>1. TypeOK' /\ LiveRequests' /\ NotYetRun' /\ ExecutedAtMostOnce'
  BY DEF IInv, TypeOK, LiveRequests, NotYetRun, ExecutedAtMostOnce, agent
<1>2. Claimed'
  BY <1>0 DEF IInv, TypeOK, Claimed, agent
<1>3. Reported'
  BY <1>0 DEF IInv, Reported, CompletedWasExecuted, agent
<1> QED
  BY <1>1, <1>2, <1>3 DEF IInv

\* The agent has its answer, or gave up, and takes the next step.
LEMMA ProceedStep ==
  ASSUME IInv, NEW r \in requests, NEW ok \in BOOLEAN, r.live,
         ok => r.phase = "ok",
         Proceed(ok, Without(r))
  PROVE  IInv'
<1> DEFINE rest == Without(r)
<1>0. /\ requests \subseteq Request /\ r \in Request
      /\ cur \in Commands /\ r.cmd = cur
      /\ runs \in [Commands -> 0 .. 2]
      /\ UNCHANGED <<status, expired>>
  BY DEF IInv, TypeOK, LiveRequests, Proceed, Request
<1>a. /\ rest \subseteq Request
      /\ \A q \in rest : ~q.live
      /\ \A q \in rest : \E s \in requests : q.cmd = s.cmd /\ q.kind = s.kind
  <2>1. /\ Abandoned(r) \in Request
        /\ Abandoned(r).cmd = r.cmd /\ Abandoned(r).kind = r.kind
        /\ Abandoned(r).live = FALSE
    BY <1>0, RequestFields DEF Phase
  <2>2. \A q \in rest : q \in requests \ {r} \/ q = Abandoned(r)
    BY DEF Without, Abandoned
  <2>3. \A q \in requests \ {r} : ~q.live
    BY DEF IInv, LiveRequests
  <2> HIDE DEF rest
  <2> QED
    BY <1>0, <2>1, <2>2, <2>3
<1> HIDE DEF rest
<1>b. \A kind \in Kinds :
        /\ Send(kind, cur) \in Request
        /\ Send(kind, cur).cmd = cur /\ Send(kind, cur).kind = kind
        /\ Send(kind, cur).live = TRUE /\ Send(kind, cur).phase = "sent"
  BY <1>0, SendFields
<1>c. NoCommand \notin Commands /\ todo \subseteq Commands
  BY AgentCommandsAssumption DEF IInv, TypeOK
<1>1. ASSUME pc = "acking", AfterAck(ok, rest)
      PROVE  IInv'
  <2>1. CASE ok /\ pc' = "starting" /\ cur' = cur /\ requests' = rest \cup {Send("running", cur)}
    <3>0. UNCHANGED <<todo, runs>> /\ ~Unclaimed(cur)
      BY <1>0, <1>1, <2>1 DEF AfterAck, IInv, Claimed, LiveRequests
    <3> DEFINE new == Send("running", cur)
    <3>a. /\ new \in Request /\ new.cmd = cur /\ new.kind = "running"
          /\ new.live = TRUE /\ new.phase = "sent"
      BY <1>b DEF Kinds
    <3>b. requests' = rest \cup {new} /\ pc' = "starting" /\ cur' = cur
      BY <2>1
    <3> HIDE DEF new
    <3>1. TypeOK'
      BY <1>0, <1>a, <1>c, <3>0, <3>a, <3>b DEF IInv, TypeOK
    <3>2. LiveRequests'
      BY <1>a, <3>a, <3>b DEF LiveRequests
    <3>3. Claimed'
      BY <1>0, <1>a, <3>0, <3>a, <3>b DEF IInv, Claimed, Unclaimed
    <3>4. NotYetRun'
      BY <1>1, <3>0, <3>b DEF IInv, NotYetRun
    <3>5. Reported'
      BY <1>0, <1>a, <3>0, <3>a, <3>b DEF IInv, Reported, CompletedWasExecuted
    <3>6. ExecutedAtMostOnce'
      BY <3>0 DEF IInv, ExecutedAtMostOnce
    <3> QED
      BY <3>1, <3>2, <3>3, <3>4, <3>5, <3>6 DEF IInv
  <2>2. CASE ~ok /\ NextCommand /\ requests' = rest
    <3>0. UNCHANGED <<todo, runs>> /\ pc' = "idle" /\ cur' = NoCommand /\ requests' = rest
      BY <1>1, <2>2 DEF AfterAck, NextCommand
    <3>1. TypeOK'
      BY <1>0, <1>a, <1>c, <3>0 DEF IInv, TypeOK
    <3>2. LiveRequests'
      BY <1>a, <3>0 DEF LiveRequests
    <3>3. Claimed'
      BY <1>0, <1>a, <3>0 DEF IInv, Claimed, Unclaimed
    <3>4. NotYetRun'
      BY <1>c, <3>0 DEF IInv, NotYetRun
    <3>5. Reported'
      BY <1>0, <1>a, <3>0 DEF IInv, Reported, CompletedWasExecuted
    <3>6. ExecutedAtMostOnce'
      BY <3>0 DEF IInv, ExecutedAtMostOnce
    <3> QED
      BY <3>1, <3>2, <3>3, <3>4, <3>5, <3>6 DEF IInv
  <2> QED
    BY <1>1, <2>1, <2>2 DEF AfterAck
<1>2. ASSUME pc = "starting", AfterRunning(rest)
      PROVE  IInv'
  <2>0. /\ UNCHANGED <<cur, todo>> /\ ~Unclaimed(cur) /\ runs[cur] = 0 /\ cur \notin todo
    BY <1>2 DEF AfterRunning, IInv, Claimed, NotYetRun
  <2>1. CASE cur \in Restarting
    <3> DEFINE new == Send("completed", cur)
    <3>a. /\ new \in Request /\ new.cmd = cur /\ new.kind = "completed"
          /\ new.live = TRUE /\ new.phase = "sent"
      BY <1>b DEF Kinds
    <3>b. requests' = rest \cup {new} /\ pc' = "reporting" /\ UNCHANGED runs
      BY <1>2, <2>1 DEF AfterRunning
    <3> HIDE DEF new
    <3>1. TypeOK'
      BY <1>0, <1>a, <1>c, <2>0, <3>a, <3>b DEF IInv, TypeOK
    <3>2. LiveRequests'
      BY <1>a, <2>0, <3>a, <3>b DEF LiveRequests
    <3>3. Claimed'
      BY <1>0, <1>a, <2>0, <3>a, <3>b DEF IInv, Claimed, Unclaimed
    <3>4. NotYetRun'
      BY <2>0, <3>b DEF IInv, NotYetRun
    <3>5. Reported'
      BY <1>0, <1>a, <2>0, <2>1, <3>a, <3>b DEF IInv, Reported, CompletedWasExecuted
    <3>6. ExecutedAtMostOnce'
      BY <3>b DEF IInv, ExecutedAtMostOnce
    <3> QED
      BY <3>1, <3>2, <3>3, <3>4, <3>5, <3>6 DEF IInv
  <2>2. CASE cur \notin Restarting
    <3>b. requests' = rest /\ pc' = "executing" /\ runs' = [runs EXCEPT ![cur] = 1]
      BY <1>0, <1>2, <2>0, <2>2 DEF AfterRunning, Count
    <3>c. /\ runs'[cur] = 1
          /\ \A c \in Commands : c # cur => runs'[c] = runs[c]
          /\ runs' \in [Commands -> 0 .. 2]
      BY <1>0, <3>b
    <3>1. TypeOK'
      BY <1>0, <1>a, <1>c, <2>0, <3>b, <3>c DEF IInv, TypeOK
    <3>2. LiveRequests'
      BY <1>a, <3>b DEF LiveRequests
    <3>3. Claimed'
      BY <1>0, <1>a, <2>0, <3>b, <3>c DEF IInv, Claimed, Unclaimed
    <3>4. NotYetRun'
      BY <1>c, <2>0, <3>b, <3>c DEF IInv, NotYetRun
    <3>5. Reported'
      <4>1. \A q \in requests' : q.cmd \in Commands
        BY <1>a, <3>b DEF Request
      <4> QED
        BY <1>0, <1>a, <2>0, <2>2, <3>b, <3>c, <4>1 DEF IInv, Reported, CompletedWasExecuted
    <3>6. ExecutedAtMostOnce'
      BY <3>c DEF IInv, ExecutedAtMostOnce
    <3> QED
      BY <3>1, <3>2, <3>3, <3>4, <3>5, <3>6 DEF IInv
  <2> QED
    BY <2>1, <2>2
<1>3. ASSUME pc = "reporting", AfterReport(rest)
      PROVE  IInv'
  <2>0. /\ pc' = "idle" /\ cur' = NoCommand /\ requests' = rest
        /\ todo' \subseteq todo
        /\ cur \notin todo /\ ~Unclaimed(cur)
    BY <1>3 DEF AfterReport, NextCommand, IInv, NotYetRun, Claimed
  <2>1. /\ runs' \in [Commands -> 0 .. 2]
        /\ \A c \in Commands : c # cur => runs'[c] = runs[c]
        /\ IF cur \in Restarting THEN runs'[cur] = 1 ELSE runs'[cur] = runs[cur]
    <3>1. CASE cur \in Restarting
      <4>1. runs[cur] = 0
        BY <1>3, <3>1 DEF IInv, NotYetRun
      <4>2. runs' = [runs EXCEPT ![cur] = 1]
        BY <1>0, <1>3, <3>1, <4>1 DEF AfterReport, Count
      <4> QED
        BY <1>0, <3>1, <4>2
    <3>2. CASE cur \notin Restarting
      BY <1>0, <1>3, <3>2 DEF AfterReport
    <3> QED
      BY <3>1, <3>2
  <2>2. TypeOK'
    BY <1>0, <1>a, <1>c, <2>0, <2>1 DEF IInv, TypeOK
  <2>3. LiveRequests'
    BY <1>a, <2>0 DEF LiveRequests
  <2>4. Claimed'
    BY <1>0, <1>a, <2>0, <2>1 DEF IInv, Claimed, Unclaimed
  <2>5. NotYetRun'
    BY <1>c, <2>0, <2>1 DEF IInv, NotYetRun
  <2>6. Reported'
    <3>1. \A q \in requests' : q.cmd \in Commands
      BY <1>a, <2>0 DEF Request
    <3> QED
      BY <1>0, <1>a, <2>0, <2>1, <3>1 DEF IInv, Reported, CompletedWasExecuted
  <2>7. ExecutedAtMostOnce'
    BY <2>1 DEF IInv, ExecutedAtMostOnce
  <2> QED
    BY <2>2, <2>3, <2>4, <2>5, <2>6, <2>7 DEF IInv
<1> QED
  BY <1>1, <1>2, <1>3 DEF Proceed, rest
-----------------------------------------------------------------------------
(* The invariant is inductive.                                              *)

LEMMA InitIInv == Init => IInv
<1> SUFFICES ASSUME Init PROVE IInv
  OBVIOUS
<1> USE DEF Init
<1>1. TypeOK
  BY AgentCommandsAssumption DEF TypeOK, Status
<1>2. LiveRequests /\ Claimed /\ NotYetRun /\ ExecutedAtMostOnce
  BY DEF LiveRequests, Claimed, NotYetRun, ExecutedAtMostOnce
<1>3. Reported
  BY DEF Reported, CompletedWasExecuted
<1> QED
  BY <1>1, <1>2, <1>3 DEF IInv

LEMMA NextIInv == IInv /\ [Next]_vars => IInv'
<1> SUFFICES ASSUME IInv, [Next]_vars PROVE IInv'
  OBVIOUS
<1>t. /\ status \in [Commands -> Status] /\ expired \subseteq Commands
      /\ requests \subseteq Request /\ todo \subseteq Commands
      /\ cur \in Commands \cup {NoCommand}
      /\ runs \in [Commands -> 0 .. 2]
      /\ NoCommand \notin Commands
  BY AgentCommandsAssumption DEF IInv, TypeOK
<1>1. ASSUME NEW c \in Commands, CreateCommand(c)
      PROVE  IInv'
  BY <1>t, <1>1, TableStep DEF CreateCommand, Status, Open, Unclaimed
<1>2. ASSUME NEW c \in Commands, CancelCommand(c)
      PROVE  IInv'
  BY <1>t, <1>2, TableStep DEF CancelCommand, Status, Open, Terminal, Unclaimed
<1>3. ASSUME NEW c \in Commands, TimeoutPasses(c)
      PROVE  IInv'
  BY <1>t, <1>3, TableStep DEF TimeoutPasses, Unclaimed
<1>4. ASSUME MarkTimedOutCommands
      PROVE  IInv'
  <2> DEFINE late == {c \in expired : status[c] \in Open}
  <2>1. /\ status' = [c \in Commands |-> IF c \in late THEN "timed_out" ELSE status[c]]
        /\ UNCHANGED <<expired, requests, agent, runs>>
    BY <1>4 DEF MarkTimedOutCommands
  <2> HIDE DEF late
  <2>2. /\ status' \in [Commands -> Status]
        /\ \A c \in Commands : status'[c] = "timed_out" \/ status'[c] = status[c]
    BY <1>t, <2>1 DEF Status, Terminal
  <2> QED
    BY <1>t, <2>1, <2>2, TableStep DEF Unclaimed
<1>5. ASSUME NEW r \in requests, ReadRow(r)
      PROVE  IInv'
  <2>0. /\ UNCHANGED <<status, expired, agent, runs>>
        /\ CompletedWasExecuted' /\ \A c \in Commands : Unclaimed(c)' => Unclaimed(c)
    BY <1>5 DEF ReadRow, IInv, Reported, CompletedWasExecuted, Unclaimed
  <2>1. \E p \in {"read", "error"} : requests' \subseteq (requests \ {r}) \cup {At(r, p)}
    BY <1>5 DEF ReadRow, Answer, At
  <2> QED
    BY <1>t, <2>0, <2>1, HandlerStep DEF Phase
<1>6. ASSUME NEW r \in requests, WriteRow(r)
      PROVE  IInv'
  <2>0. /\ UNCHANGED <<expired, agent, runs>>
        /\ requests' \subseteq (requests \ {r}) \cup {At(r, "ok")}
        /\ status' = [status EXCEPT ![r.cmd] = NewStatus(r)]
        /\ r \in Request /\ r.cmd \in Commands /\ r.kind \in Kinds
    BY <1>t, <1>6 DEF WriteRow, Answer, At, Request
  <2>1. /\ NewStatus(r) \in Status
        /\ NewStatus(r) \notin {"unborn", "pending"}
        /\ NewStatus(r) \in {"completed", "failed"} => r.kind \in {"completed", "failed"}
    BY <2>0 DEF NewStatus, Kinds, Status, Open, Terminal
  <2>2. /\ status' \in [Commands -> Status]
        /\ status'[r.cmd] = NewStatus(r)
        /\ \A c \in Commands : c # r.cmd => status'[c] = status[c]
    BY <1>t, <2>0, <2>1
  <2>3. ~Unclaimed(r.cmd)' /\ \A c \in Commands : Unclaimed(c)' => Unclaimed(c)
    BY <2>0, <2>1, <2>2 DEF Unclaimed
  <2>4. CompletedWasExecuted'
    BY <2>0, <2>1, <2>2 DEF IInv, Reported, CompletedWasExecuted
  <2> QED
    BY <2>0, <2>2, <2>3, <2>4, HandlerStep DEF Phase
<1>7. ASSUME NEW r \in requests, WriteRowFails(r)
      PROVE  IInv'
  <2>0. /\ UNCHANGED <<status, expired, agent, runs>>
        /\ CompletedWasExecuted' /\ \A c \in Commands : Unclaimed(c)' => Unclaimed(c)
    BY <1>7 DEF WriteRowFails, IInv, Reported, CompletedWasExecuted, Unclaimed
  <2>1. requests' \subseteq (requests \ {r}) \cup {At(r, "error")}
    BY <1>7 DEF WriteRowFails, Answer, At
  <2> QED
    BY <1>t, <2>0, <2>1, HandlerStep DEF Phase
<1>8. ASSUME NEW r \in requests, GetAnswer(r) \/ GiveUp(r)
      PROVE  IInv'
  <2>1. \E ok \in BOOLEAN : r.live /\ (ok => r.phase = "ok") /\ Proceed(ok, Without(r))
    BY <1>8 DEF GetAnswer, GiveUp
  <2> QED
    BY <2>1, ProceedStep
<1>9. ASSUME GetCommands
      PROVE  IInv'
  <2>0. /\ pc = "idle" /\ cur = NoCommand
        /\ todo' = {c \in Commands : status[c] = "pending"}
        /\ UNCHANGED <<status, expired, requests, pc, cur, runs>>
    BY <1>9 DEF GetCommands, IInv, TypeOK
  <2>1. TypeOK' /\ LiveRequests' /\ ExecutedAtMostOnce'
    BY <2>0 DEF IInv, TypeOK, LiveRequests, ExecutedAtMostOnce
  <2>2. Claimed' /\ Reported'
    BY <2>0 DEF IInv, Claimed, Unclaimed, Reported, CompletedWasExecuted
  <2>3. NotYetRun'
    BY <1>t, <2>0 DEF IInv, NotYetRun, Claimed, Unclaimed
  <2> QED
    BY <2>1, <2>2, <2>3 DEF IInv
<1>10. ASSUME NEW c \in Commands, StartCommand(c)
       PROVE  IInv'
  <2> DEFINE new == Send("ack", c)
  <2>a. /\ new \in Request /\ new.cmd = c /\ new.kind = "ack"
        /\ new.live = TRUE /\ new.phase = "sent"
    BY SendFields DEF Kinds
  <2>b. /\ pc = "idle" /\ c \in todo /\ pc' = "acking" /\ cur' = c
        /\ todo' = todo \ {c} /\ requests' = requests \cup {new}
        /\ UNCHANGED <<status, expired, runs>>
    BY <1>10 DEF StartCommand
  <2> HIDE DEF new
  <2>c. \A q \in requests : ~q.live
    BY <2>b DEF IInv, LiveRequests
  <2>1. TypeOK' /\ ExecutedAtMostOnce'
    BY <1>t, <2>a, <2>b DEF IInv, TypeOK, ExecutedAtMostOnce
  <2>2. LiveRequests'
    BY <2>a, <2>b, <2>c DEF LiveRequests
  <2>3. Claimed'
    BY <2>a, <2>b DEF IInv, Claimed, Unclaimed
  <2>4. NotYetRun'
    BY <2>b DEF IInv, NotYetRun
  <2>5. Reported'
    BY <2>a, <2>b DEF IInv, Reported, CompletedWasExecuted
  <2> QED
    BY <2>1, <2>2, <2>3, <2>4, <2>5 DEF IInv
<1>11. ASSUME Execute
       PROVE  IInv'
  <2>1. PICK kind \in {"completed", "failed"} : requests' = requests \cup {Send(kind, cur)}
    BY <1>11 DEF Execute, ReportResult
  <2>0. /\ pc = "executing" /\ pc' = "reporting" /\ cur \in Commands
        /\ UNCHANGED <<status, expired, cur, todo, runs>>
    BY <1>11 DEF Execute, ReportResult, IInv, TypeOK
  <2> DEFINE new == Send(kind, cur)
  <2>a. /\ new \in Request /\ new.cmd = cur /\ new.kind = kind
        /\ new.live = TRUE /\ new.phase = "sent"
    <3>1. kind \in Kinds
      BY DEF Kinds
    <3> QED
      BY <2>0, <3>1, SendFields
  <2>b. requests' = requests \cup {new}
    BY <2>1
  <2> HIDE DEF new
  <2>c. \A q \in requests : ~q.live
    BY <2>0 DEF IInv, LiveRequests
  <2>2. TypeOK' /\ ExecutedAtMostOnce'
    BY <1>t, <2>0, <2>a, <2>b DEF IInv, TypeOK, ExecutedAtMostOnce
  <2>3. LiveRequests'
    BY <2>0, <2>a, <2>b, <2>c DEF LiveRequests
  <2>4. Claimed'
    BY <2>0, <2>a, <2>b DEF IInv, Claimed, Unclaimed
  <2>5. NotYetRun'
    BY <2>0 DEF IInv, NotYetRun, Reported
  <2>6. Reported'
    BY <2>0, <2>a, <2>b DEF IInv, Reported, CompletedWasExecuted
  <2> QED
    BY <2>2, <2>3, <2>4, <2>5, <2>6 DEF IInv
<1>12. ASSUME AgentCrash
       PROVE  IInv'
  <2>0. /\ pc' = "idle" /\ cur' = NoCommand /\ todo' = {}
        /\ requests' = {Abandoned(r) : r \in {q \in requests : ~Answered(q)}}
        /\ UNCHANGED <<status, expired, runs>>
    BY <1>12 DEF AgentCrash, NextCommand, Abandoned
  <2>a. \A q \in requests' :
          /\ q \in Request /\ ~q.live
          /\ \E r \in requests : q.cmd = r.cmd /\ q.kind = r.kind
    <3>1. \A r \in requests : /\ Abandoned(r) \in Request /\ Abandoned(r).live = FALSE
                              /\ Abandoned(r).cmd = r.cmd /\ Abandoned(r).kind = r.kind
      BY <1>t, RequestFields DEF Phase
    <3> QED
      BY <2>0, <3>1
  <2>1. TypeOK' /\ LiveRequests' /\ NotYetRun' /\ ExecutedAtMostOnce'
    BY <1>t, <2>0, <2>a DEF IInv, TypeOK, LiveRequests, NotYetRun, ExecutedAtMostOnce
  <2>2. Claimed'
    BY <2>0, <2>a DEF IInv, Claimed, Unclaimed
  <2>3. Reported'
    BY <2>0, <2>a DEF IInv, Reported, CompletedWasExecuted
  <2> QED
    BY <2>1, <2>2, <2>3 DEF IInv
<1>13. CASE UNCHANGED vars
  BY <1>13, <1>t, TableStep DEF vars, agent, Unclaimed
<1> QED
  BY <1>1, <1>2, <1>3, <1>4, <1>5, <1>6, <1>7, <1>8, <1>9, <1>10, <1>11, <1>12, <1>13 DEF Next

LEMMA Inductive == Spec => []IInv
BY InitIInv, NextIInv, PTL DEF Spec

-----------------------------------------------------------------------------
(* Results.                                                                 *)

\* The table, the requests and the agent keep their types, and the agent is on
\* a command exactly while it is not idle (executeCommand).
THEOREM TypeCorrect == Spec => []TypeOK
<1>1. IInv => TypeOK
  BY DEF IInv
<1> QED
  BY <1>1, Inductive, PTL

\* No agent executes a command twice: polls that repeat, lost answers,
\* abandoned requests, failed writes and crashes included (AcknowledgeCommand,
\* executeCommand).
THEOREM ExecutedAtMostOnceHolds == Spec => []ExecutedAtMostOnce
<1>1. IInv => ExecutedAtMostOnce
  BY DEF IInv
<1> QED
  BY <1>1, Inductive, PTL

\* ReportCommandResult never meets a command that nobody acknowledged.
THEOREM ResultsFollowAckHolds == Spec => []ResultsFollowAck
<1>1. IInv => ResultsFollowAck
  BY DEF IInv, Claimed, Unclaimed, ResultsFollowAck
<1> QED
  BY <1>1, Inductive, PTL

\* A command recorded as completed or failed was executed exactly once, unless
\* it is one of those reported before they act.
THEOREM CompletedWasExecutedHolds == Spec => []CompletedWasExecuted
<1>1. IInv => CompletedWasExecuted
  BY DEF IInv, Reported
<1> QED
  BY <1>1, Inductive, PTL
=============================================================================
