------------------------ MODULE LicenseValidatorProofs ------------------------
(***************************************************************************)
(* Theorems about LicenseValidator, for any number of loops, any intervals *)
(* and any faults, and any number of administrators where a theorem does   *)
(* not say otherwise.                                                      *)
(***************************************************************************)
EXTENDS LicenseValidator, TLAPS

Calls == {"activate", "validate", "heartbeat", "retry", "report"}

\* The parts of the type invariant.
FlagsOK ==
  /\ key \in BOOLEAN /\ verifies \in BOOLEAN /\ entitlement \in BOOLEAN
  /\ unremoved \in BOOLEAN /\ inherited \in BOOLEAN

DataOK ==
  /\ license \in {"free", "paid"}
  /\ token \in Never .. TokenValidity
  /\ grace \in Never .. GracePeriod /\ overdue \in Never .. GracePeriod
  /\ saw \in [Actors -> Findings]
  /\ missed \in 0 .. MaxMissed

InTime(a) ==
  /\ at[a] \in Remote => timer[a] <= MaxLatency
  /\ at[a] = "select" => timer[a] <= Interval(a)
  /\ at[a] \in {"off", "idle", "returning", "clear"} => timer[a] = 0

PlacesOK ==
  /\ validationRunning \in BOOLEAN /\ closed \in BOOLEAN
  /\ doomed \subseteq Tickers
  /\ at \in [Actors -> Stages]
  /\ timer \in [Actors -> Nat]
  /\ \A a \in Actors : InTime(a)
  /\ starter \subseteq Admins

\* Who can be where: only a loop that waits is doomed, only the answer to a
\* validation is applied in several steps, and nothing else runs before Start is over.
Placed ==
  /\ \A a \in Actors : saw[a] # "nothing" => at[a] \in {"activate", "validate"}
  /\ \A a \in doomed : at[a] = "select"
  /\ \A a \in Admins : at[a] \in {"idle", "activate", "heartbeat", "retry", "report",
                                  "stop", "clear"}
  /\ at[Heart] \in {"off", "select", "heartbeat"}
  /\ \A l \in Loops : at[l] \in {"off", "select", "validate", "returning"}
  /\ at[Boot] \in {"idle", "activate", "heartbeat"}
  /\ at[Boot] # "idle" => /\ \A a \in Tickers : at[a] = "off"
                          /\ \A a \in Admins : at[a] = "idle"

IInv == FlagsOK /\ DataOK /\ PlacesOK /\ Placed

\* With one administrator: the flag tells the truth while the channel is open, and
\* there is none without a key; whoever closed the channel, saw no loop or removes the
\* key is still at it.
ValidatedInv ==
  /\ validationRunning => key
  /\ validationRunning /\ ~closed => Live
  /\ closed => \E a \in Admins : at[a] = "stop"
  /\ \A a \in starter : at[a] \in {"activate", "heartbeat", "retry"}
  /\ \A a \in Admins : at[a] \in {"activate", "heartbeat", "retry"} => key
  /\ \A a \in Admins : at[a] = "clear" => ~validationRunning
  /\ key /\ at[Boot] = "idle" /\ ~unremoved =>
       Live \/ starter # {} \/ \E a \in Admins : at[a] \in {"stop", "clear"}

\* A token is as old as the ticks since its heartbeat make it.
FreshInv ==
  /\ at[Boot] # "idle" => token = Never
  /\ token # Never =>
       /\ at[Heart] = "select" => token <= missed * HeartbeatInterval + timer[Heart]
       /\ at[Heart] = "heartbeat" => token <= (missed + 1) * HeartbeatInterval + timer[Heart]

\* A grace period longer than the key has been expired began with another key.
Misdated == grace # Never /\ (overdue = Never \/ grace > overdue)

GraceInv == Misdated => inherited

-----------------------------------------------------------------------------
(* The end of a call.                                                      *)

LEMMA Roles ==
  /\ Boot # Heart /\ Boot \notin Admins \cup Loops /\ Heart \notin Admins \cup Loops
  /\ Admins \cap Loops = {} /\ Loops # {}
  /\ Actors = Admins \cup {Boot, Heart} \cup Loops /\ Tickers = {Heart} \cup Loops
BY LicenseValidatorAssumption DEF Actors, Tickers

\* The six ways a call can end.
LEMMA ProceedShape ==
  ASSUME Placed, NEW a \in Actors, at[a] \in Calls, Proceed(a)
  PROVE  \/ a \in Tickers /\ Wait(a)
         \/ a \in Admins \cup {Boot} /\ at[a] = "activate" /\ Go(a, "heartbeat")
         \/ a \in Admins /\ at[a] = "heartbeat" /\ Go(a, "retry")
         \/ a \in Admins /\ (at[a] = "report" \/ a \notin starter) /\ Go(a, "idle")
         \/ a \in Admins /\ at[a] \in {"heartbeat", "retry"} /\ a \in starter /\ Finish(a)
         \/ a = Boot /\ at[a] = "heartbeat" /\ Started
<1>1. CASE Wait(a)
  BY <1>1 DEF Wait
<1>2. CASE at[a] = "activate" /\ Go(a, "heartbeat")
  BY <1>2, Roles DEF Placed
<1>3. CASE a \in Admins /\ at[a] = "heartbeat" /\ (Finish(a) \/ Go(a, "retry"))
  BY <1>3 DEF Finish
<1>4. CASE a \in Admins /\ at[a] = "retry" /\ Finish(a)
  BY <1>4 DEF Finish
<1>5. CASE a \in Admins /\ at[a] = "report" /\ Go(a, "idle")
  BY <1>5
<1>6. CASE a = Boot /\ at[a] = "heartbeat" /\ Started
  BY <1>6
<1> QED
  BY <1>1, <1>2, <1>3, <1>4, <1>5, <1>6 DEF Proceed

\* The loop l starts as the call of a ends.
StartedBy(a, l) ==
  /\ at[l] = "off"
  /\ \A x \in Actors : /\ at'[x] = IF x = a THEN "idle" ELSE IF x = l THEN "select" ELSE at[x]
                       /\ timer'[x] = IF x \in {a, l} THEN 0 ELSE timer[x]
  /\ at' \in [Actors -> Stages]
  /\ timer' \in [Actors -> Nat]
  /\ doomed' = (IF closed THEN doomed \cup {l} ELSE doomed)
  /\ validationRunning' = TRUE /\ UNCHANGED closed
  /\ starter' = starter \ {a}

\* What Finish does when it starts a loop.
LEMMA StartsLoop ==
  ASSUME IInv, NEW a \in Admins, a \in starter, Finish(a)
  PROVE  \E l \in Loops : StartedBy(a, l)
<1>1. PICK l \in Loops :
        /\ at[l] = "off"
        /\ at' = [at EXCEPT ![a] = "idle", ![l] = "select"]
        /\ timer' = [timer EXCEPT ![a] = 0, ![l] = 0]
        /\ doomed' = (IF closed THEN doomed \cup {l} ELSE doomed)
  BY DEF Finish
<1>2. validationRunning' = TRUE /\ UNCHANGED closed /\ starter' = starter \ {a}
  BY DEF Finish
<1>3. a \in Actors /\ l \in Actors /\ a # l
  BY Roles
<1>4. \A x \in Actors : /\ at'[x] = IF x = a THEN "idle" ELSE IF x = l THEN "select" ELSE at[x]
                        /\ timer'[x] = IF x \in {a, l} THEN 0 ELSE timer[x]
  BY <1>1, <1>3 DEF IInv, PlacesOK
<1>5. at' \in [Actors -> Stages]
  BY <1>1, <1>3 DEF IInv, PlacesOK, Stages
<1>6. timer' \in [Actors -> Nat]
  BY <1>1, <1>3 DEF IInv, PlacesOK
<1> QED
  BY <1>1, <1>2, <1>4, <1>5, <1>6 DEF StartedBy

\* What Start does when it is over.
LEMMA StartsLoops ==
  ASSUME IInv, at[Boot] = "heartbeat", Started
  PROVE  \E l \in Loops :
           /\ \A x \in Actors :
                /\ at'[x] = IF x = Boot THEN "idle" ELSE IF x = Heart THEN "select"
                            ELSE IF x = l /\ key THEN "select" ELSE at[x]
                /\ timer'[x] = 0
           /\ at' \in [Actors -> Stages]
           /\ timer' \in [Actors -> Nat]
           /\ validationRunning' = key
           /\ UNCHANGED <<closed, doomed, starter>>
<1>1. PICK l \in Loops :
        at' = [at EXCEPT ![Boot] = "idle", ![Heart] = "select",
                         ![l] = IF key THEN "select" ELSE @]
  BY DEF Started
<1>2. /\ timer' = [x \in Actors |-> 0] /\ validationRunning' = key
      /\ UNCHANGED <<closed, doomed, starter>>
  BY DEF Started
<1>3. {Boot, Heart, l} \subseteq Actors /\ Boot # Heart /\ Boot # l /\ Heart # l
  BY Roles
<1>4. at \in [Actors -> Stages]
  BY DEF IInv, PlacesOK
<1>5. CASE key
  <2>1. at' = [at EXCEPT ![Boot] = "idle", ![Heart] = "select", ![l] = "select"]
    BY <1>1, <1>5
  <2> QED
    BY <2>1, <1>2, <1>3, <1>4, <1>5 DEF Stages
<1>6. CASE ~key
  <2>1. at' = [at EXCEPT ![Boot] = "idle", ![Heart] = "select", ![l] = at[l]]
    BY <1>1, <1>3, <1>4, <1>6
  <2> QED
    BY <2>1, <1>2, <1>3, <1>4, <1>6 DEF Stages
<1> QED
  BY <1>5, <1>6

LEMMA GoFields ==
  ASSUME IInv, NEW a \in Actors, NEW where \in Remote \cup {"idle"}, Go(a, where)
  PROVE  /\ \A x \in Actors : /\ at'[x] = IF x = a THEN where ELSE at[x]
                              /\ timer'[x] = IF x = a THEN 0 ELSE timer[x]
         /\ at' \in [Actors -> Stages]
         /\ timer' \in [Actors -> Nat]
         /\ UNCHANGED <<loops, starter>>
BY DEF IInv, PlacesOK, Go, Stages

LEMMA WaitFields ==
  ASSUME IInv, NEW a \in Actors, Wait(a)
  PROVE  /\ \A x \in Actors : at'[x] = IF x = a THEN "select" ELSE at[x]
         /\ at' \in [Actors -> Stages]
         /\ doomed' = (IF closed THEN doomed \cup {a} ELSE doomed)
         /\ UNCHANGED <<timer, validationRunning, closed, starter>>
BY DEF IInv, PlacesOK, Wait, Stages

-----------------------------------------------------------------------------
(* Types.                                                                  *)

LEMMA Limits ==
  /\ MaxLatency \in Nat
  /\ \A a \in Actors : Interval(a) \in Nat /\ MaxLatency < Interval(a)
BY LicenseValidatorAssumption DEF Interval

LEMMA ProceedTyped ==
  ASSUME IInv, NEW a \in Actors, at[a] \in Calls, Proceed(a)
  PROVE  PlacesOK'
<1>t. /\ \A x \in Actors : InTime(x) /\ timer[x] \in Nat
      /\ validationRunning \in BOOLEAN /\ closed \in BOOLEAN /\ doomed \subseteq Tickers
      /\ starter \subseteq Admins /\ key \in BOOLEAN
  BY DEF IInv, FlagsOK, PlacesOK
<1>i. \A x \in Actors : InTime(x)' <=> /\ at'[x] \in Remote => timer'[x] <= MaxLatency
                                       /\ at'[x] = "select" => timer'[x] <= Interval(x)
                                       /\ at'[x] \in {"off", "idle", "returning", "clear"} => timer'[x] = 0
  BY DEF InTime, Interval
<1>0. 0 <= MaxLatency /\ \A x \in Actors : 0 <= Interval(x)
  BY LicenseValidatorAssumption DEF Interval
<1>1. CASE a \in Tickers /\ Wait(a)
  <2>1. timer[a] <= Interval(a)
    BY <1>t, Limits DEF InTime, Calls, Remote
  <2>2. \A x \in Actors : InTime(x)'
    BY <1>1, <1>t, <1>i, <2>1, WaitFields DEF InTime, Remote
  <2> QED
    BY <1>1, <1>t, <2>2, WaitFields DEF PlacesOK, IInv
<1>2. ASSUME NEW w \in {"idle", "heartbeat", "retry"}, Go(a, w)
      PROVE  PlacesOK'
  <2>1. w \in Remote \cup {"idle"}
    BY DEF Remote
  <2>2. \A x \in Actors : InTime(x)'
    BY <1>2, <1>t, <1>i, <1>0, <2>1, GoFields DEF InTime
  <2> QED
    BY <1>2, <1>t, <2>1, <2>2, GoFields DEF PlacesOK, loops
<1>3. CASE a \in Admins /\ a \in starter /\ Finish(a)
  <2>0. PICK l \in Loops : StartedBy(a, l)
    BY <1>3, StartsLoop
  <2>1. /\ \A x \in Actors : /\ at'[x] = IF x = a THEN "idle" ELSE IF x = l THEN "select" ELSE at[x]
                             /\ timer'[x] = IF x \in {a, l} THEN 0 ELSE timer[x]
        /\ at' \in [Actors -> Stages]
        /\ timer' \in [Actors -> Nat]
        /\ doomed' = (IF closed THEN doomed \cup {l} ELSE doomed)
        /\ validationRunning' = TRUE /\ UNCHANGED closed
        /\ starter' = starter \ {a}
    BY <2>0 DEF StartedBy
  <2>2. \A x \in Actors : InTime(x)'
    BY <1>t, <1>i, <1>0, <2>1 DEF InTime, Remote
  <2> QED
    BY <1>t, <2>1, <2>2, Roles DEF PlacesOK
<1>4. CASE a = Boot /\ at[a] = "heartbeat" /\ Started
  <2>1. /\ at' \in [Actors -> Stages]
        /\ timer' \in [Actors -> Nat] /\ \A x \in Actors : timer'[x] = 0
        /\ validationRunning' = key
        /\ UNCHANGED <<closed, doomed, starter>>
    BY <1>4, StartsLoops
  <2>2. \A x \in Actors : InTime(x)'
    BY <1>i, <1>0, <2>1
  <2> QED
    BY <1>t, <2>1, <2>2 DEF PlacesOK
<1>5. Placed
  BY DEF IInv
<1> QED
  BY <1>1, <1>2, <1>3, <1>4, <1>5, ProceedShape

\* Placed after a step, from where each actor then is.
LEMMA PlacedAfter ==
  ASSUME \A x \in Actors : saw'[x] # "nothing" => at'[x] \in {"activate", "validate"},
         \A x \in doomed' : at'[x] = "select",
         \A x \in Admins : at'[x] \in {"idle", "activate", "heartbeat", "retry", "report",
                                       "stop", "clear"},
         at'[Heart] \in {"off", "select", "heartbeat"},
         \A x \in Loops : at'[x] \in {"off", "select", "validate", "returning"},
         at'[Boot] \in {"idle", "activate", "heartbeat"},
         at'[Boot] # "idle" => /\ \A x \in Tickers : at'[x] = "off"
                               /\ \A x \in Admins : at'[x] = "idle"
  PROVE  Placed'
BY DEF Placed

LEMMA ProceedPlaced ==
  ASSUME IInv, NEW a \in Actors, at[a] \in Calls, Proceed(a),
         saw' \in [Actors -> Findings], saw'[a] = "nothing",
         \A x \in Actors \ {a} : saw'[x] = saw[x]
  PROVE  Placed'
<1>p. Placed /\ doomed \subseteq Tickers
  BY DEF IInv, PlacesOK
<1>s. \A x \in Actors \ {a} : saw'[x] # "nothing" => at[x] \in {"activate", "validate"}
  BY <1>p DEF Placed
<1>d. a \notin doomed
  BY <1>p DEF Placed, Calls
<1>r. \A x \in Actors :
        /\ x \in Admins => at[x] \in {"idle", "activate", "heartbeat", "retry", "report",
                                      "stop", "clear"}
        /\ x = Heart => at[x] \in {"off", "select", "heartbeat"}
        /\ x \in Loops => at[x] \in {"off", "select", "validate", "returning"}
        /\ x = Boot => at[x] \in {"idle", "activate", "heartbeat"}
        /\ x \in doomed => at[x] = "select"
  BY <1>p DEF Placed
<1>b. at[Boot] # "idle" => /\ \A x \in Tickers : at[x] = "off"
                           /\ \A x \in Admins : at[x] = "idle"
  BY <1>p DEF Placed
<1>1. CASE a \in Tickers /\ Wait(a)
  <2>1. /\ \A x \in Actors : at'[x] = IF x = a THEN "select" ELSE at[x]
        /\ doomed' \subseteq doomed \cup {a}
    BY <1>1, WaitFields
  <2>2. at[a] # "off"
    BY DEF Calls
  <2> QED
    BY <1>1, <1>p, <1>s, <1>r, <1>b, <2>1, <2>2, Roles, PlacedAfter
<1>2. CASE a \in Admins \cup {Boot} /\ at[a] = "activate" /\ Go(a, "heartbeat")
  <2>1. /\ \A x \in Actors : at'[x] = IF x = a THEN "heartbeat" ELSE at[x]
        /\ doomed' = doomed
    BY <1>2, GoFields DEF Remote, loops
  <2> QED
    BY <1>2, <1>p, <1>s, <1>d, <1>r, <1>b, <2>1, Roles, PlacedAfter
<1>3. ASSUME NEW w \in {"idle", "retry"}, a \in Admins, Go(a, w)
      PROVE  Placed'
  <2>1. /\ \A x \in Actors : at'[x] = IF x = a THEN w ELSE at[x]
        /\ doomed' = doomed
    BY <1>3, GoFields DEF Remote, loops
  <2>2. at[Boot] = "idle"
    BY <1>3, <1>b DEF Calls
  <2> QED
    BY <1>3, <1>p, <1>s, <1>d, <1>r, <2>1, <2>2, Roles, PlacedAfter
<1>4. CASE a \in Admins /\ at[a] \in {"heartbeat", "retry"} /\ a \in starter /\ Finish(a)
  <2>0. PICK l \in Loops : StartedBy(a, l)
    BY <1>4, StartsLoop
  <2>1. /\ at[l] = "off"
        /\ \A x \in Actors : /\ at'[x] = IF x = a THEN "idle" ELSE IF x = l THEN "select" ELSE at[x]
                             /\ timer'[x] = IF x \in {a, l} THEN 0 ELSE timer[x]
        /\ doomed' = (IF closed THEN doomed \cup {l} ELSE doomed)
    BY <2>0 DEF StartedBy
  <2>2. at[Boot] = "idle"
    BY <1>4, <1>b
  <2>3. doomed' \subseteq doomed \cup {l} /\ l \in Actors /\ l # a
    BY <1>4, <2>1, Roles
  <2>4. \A x \in doomed' : at'[x] = "select"
    BY <1>p, <1>d, <1>r, <2>1, <2>3, Roles
  <2>5. \A x \in Actors : saw'[x] # "nothing" => at'[x] \in {"activate", "validate"}
    BY <1>s, <2>1, <2>3
  <2> QED
    BY <1>4, <1>r, <2>1, <2>2, <2>3, <2>4, <2>5, Roles, PlacedAfter
<1>5. CASE a = Boot /\ at[a] = "heartbeat" /\ Started
  <2>1. PICK l \in Loops :
           /\ \A x \in Actors :
                at'[x] = IF x = Boot THEN "idle" ELSE IF x = Heart THEN "select"
                         ELSE IF x = l /\ key THEN "select" ELSE at[x]
           /\ UNCHANGED doomed
    BY <1>5, StartsLoops
  <2>2. \A x \in Actors \ {a} : saw'[x] = "nothing"
    BY <1>5, <1>s, <1>b, Roles
  <2>3. doomed' = {}
    BY <1>5, <1>p, <1>r, <1>b, <2>1, Roles
  <2> QED
    BY <1>5, <1>r, <1>b, <2>1, <2>2, <2>3, Roles, PlacedAfter
<1> QED
  BY <1>1, <1>2, <1>3, <1>4, <1>5, <1>p, ProceedShape

\* The flags, for every step.
LEMMA FlagsTyped ==
  ASSUME IInv, [Next]_vars
  PROVE  FlagsOK'
<1> DEFINE Goal == FlagsOK'
<1>d. FlagsOK
  BY DEF IInv
<1>1. ASSUME NEW a \in Actors, Answer(a)
      PROVE  Goal
  <2>1. CASE Unreachable(a) \/ RejectKey(a) \/ EndGrace(a) \/ KeepLicence(a)
    BY <1>d, <2>1 DEF Unreachable, RejectKey, EndGrace, KeepLicence, licence, stored, history,
       FlagsOK
  <2>2. CASE ContinueGrace(a)
    BY <1>d, <2>2 DEF ContinueGrace, stored, FlagsOK
  <2>3. CASE Granted(a) \/ Apply(a) \/ Refused(a) \/ ClearEntitlement(a)
    BY <1>d, <2>3 DEF Granted, Apply, Refused, ClearEntitlement, licence, stored, history,
       FlagsOK
  <2>4. CASE Undecided(a) \/ HeartbeatFails(a)
    BY <1>d, <2>4 DEF Undecided, HeartbeatFails, licence, stored, history, FlagsOK
  <2>5. CASE HeartbeatAnswered(a)
    BY <1>d, <2>5 DEF HeartbeatAnswered, Beat, stored, history, FlagsOK
  <2>6. CASE HeartbeatDowngrades(a)
    BY <1>d, <2>6 DEF HeartbeatDowngrades, Beat, stored, history, FlagsOK
  <2> QED
    BY <1>1, <2>1, <2>2, <2>3, <2>4, <2>5, <2>6 DEF Answer, VerifyKeyLocally
<1>2. ASSUME NEW a \in Actors, Fire(a) \/ Leave(a) \/ Return(a)
      PROVE  Goal
  BY <1>d, <1>2 DEF Fire, Leave, Return, licence, stored, history, FlagsOK
<1>3. ASSUME NEW a \in Admins, SetLicenseKey(a)
      PROVE  Goal
  BY <1>d, <1>3 DEF SetLicenseKey, Verified, Unverified, FlagsOK
<1>4. ASSUME NEW a \in Admins, Stop(a) \/ Restart(a) \/ SendHeartbeat(a)
      PROVE  Goal
  BY <1>d, <1>4 DEF Stop, Restart, SendHeartbeat, licence, stored, history, FlagsOK
<1>5. ASSUME NEW a \in Admins, ClearLicenseKey(a)
      PROVE  Goal
  BY <1>d, <1>5 DEF ClearLicenseKey, licence, stored, FlagsOK
<1>6. CASE Tick \/ Expire \/ UNCHANGED vars
  BY <1>d, <1>6 DEF Tick, Expire, vars, licence, stored, history, FlagsOK
<1>7. CASE Crash
  BY <1>d, <1>7 DEF Crash, Verified, Unverified, FlagsOK
<1> QED
  BY <1>1, <1>2, <1>3, <1>4, <1>5, <1>6, <1>7 DEF Next, Step, Request

\* The data of the type invariant, for every step.
LEMMA DataTyped ==
  ASSUME IInv, [Next]_vars
  PROVE  DataOK'
<1> DEFINE Goal == DataOK'
<1>d. DataOK
  BY DEF IInv
<1>n. /\ GracePeriod \in Nat \ {0} /\ TokenValidity \in Nat \ {0} /\ MaxMissed \in Nat
  BY LicenseValidatorAssumption
<1>1. ASSUME NEW a \in Actors, Answer(a)
      PROVE  Goal
  <2>1. CASE Unreachable(a)
    <3>1. Verdict \in Findings
      BY DEF Verdict, Findings
    <3> QED
      BY <1>d, <2>1, <3>1 DEF Unreachable, licence, clocks, DataOK
  <2>a. CASE RejectKey(a)
    BY <1>d, <2>a DEF RejectKey, clocks, DataOK, Findings
  <2>b. CASE EndGrace(a)
    BY <1>d, <1>n, <2>b DEF EndGrace, licence, DataOK, Never, Findings
  <2>c. CASE KeepLicence(a)
    BY <1>d, <2>c DEF KeepLicence, clocks, DataOK, Findings
  <2>d. CASE ContinueGrace(a)
    <3>1. grace' \in Never .. GracePeriod
      BY <1>d, <1>n, <2>d DEF ContinueGrace, DataOK, Never
    <3>2. license' \in {"free", "paid"}
      BY <1>d, <2>d DEF ContinueGrace, DataOK
    <3> QED
      BY <1>d, <2>d, <3>1, <3>2 DEF ContinueGrace, DataOK, Findings
  <2>2. CASE Granted(a)
    BY <1>d, <1>n, <2>2 DEF Granted, licence, DataOK, Never, Findings
  <2>3. CASE Apply(a)
    BY <1>d, <2>3 DEF Apply, Written, clocks, DataOK, Findings
  <2>4. CASE Refused(a)
    BY <1>d, <2>4 DEF Refused, clocks, DataOK, Findings
  <2>5. CASE ClearEntitlement(a)
    BY <1>d, <2>5 DEF ClearEntitlement, clocks, DataOK, Findings
  <2>6. CASE Undecided(a)
    BY <1>d, <2>6 DEF Undecided, clocks, licence, DataOK
  <2>7. CASE HeartbeatFails(a)
    BY <1>d, <1>n, <2>7 DEF HeartbeatFails, Miss, clocks, licence, DataOK
  <2>8. CASE HeartbeatAnswered(a)
    BY <1>d, <1>n, <2>8 DEF HeartbeatAnswered, Beat, Miss, Refreshed, DataOK, Never
  <2>9. CASE HeartbeatDowngrades(a)
    BY <1>d, <1>n, <2>9 DEF HeartbeatDowngrades, Beat, Miss, Refreshed, DataOK, Never
  <2> QED
    BY <1>1, <2>1, <2>2, <2>3, <2>4, <2>5, <2>6, <2>7, <2>8, <2>9, <2>a, <2>b, <2>c, <2>d
    DEF Answer, VerifyKeyLocally
<1>2. ASSUME NEW a \in Actors, Fire(a) \/ Leave(a) \/ Return(a)
      PROVE  Goal
  BY <1>d, <1>2 DEF Fire, Leave, Return, licence, clocks, DataOK
<1>3. ASSUME NEW a \in Admins, SetLicenseKey(a)
      PROVE  Goal
  BY <1>d, <1>n, <1>3 DEF SetLicenseKey, Verified, Unverified, DataOK, Never
<1>4. ASSUME NEW a \in Admins, Stop(a) \/ Restart(a) \/ SendHeartbeat(a)
      PROVE  Goal
  BY <1>d, <1>4 DEF Stop, Restart, SendHeartbeat, licence, clocks, DataOK
<1>5. ASSUME NEW a \in Admins, ClearLicenseKey(a)
      PROVE  Goal
  BY <1>d, <1>n, <1>5 DEF ClearLicenseKey, licence, DataOK, Never
<1>6. CASE Tick
  BY <1>d, <1>n, <1>6 DEF Tick, Older, licence, DataOK, Never
<1>7. CASE Expire
  BY <1>d, <1>n, <1>7 DEF Expire, licence, DataOK, Never
<1>8. CASE Crash
  BY <1>d, <1>n, <1>8 DEF Crash, Verified, Unverified, DataOK, Never, Findings
<1>9. CASE UNCHANGED vars
  BY <1>d, <1>9 DEF vars, licence, clocks, DataOK
<1> QED
  BY <1>1, <1>2, <1>3, <1>4, <1>5, <1>6, <1>7, <1>8, <1>9 DEF Next, Step, Request

\* An answer, or the key, that is applied in more steps.
Finds(a) ==
  \/ Unreachable(a) /\ key
  \/ RejectKey(a) \/ EndGrace(a) \/ Granted(a) \/ Refused(a)

LEMMA FindsFields ==
  ASSUME Placed, NEW a \in Actors, Finds(a)
  PROVE  /\ UNCHANGED <<key, token, overdue, loops, at, timer, starter, missed, unremoved>>
         /\ at[a] \in {"activate", "validate"}
         /\ \E found : saw' = [saw EXCEPT ![a] = found]
<1>1. CASE Unreachable(a) /\ key
  <2>1. at[a] \in {"activate", "validate"} /\ at[a] # "heartbeat" /\ at[a] # "select"
    BY <1>1 DEF Unreachable, Asking
  <2> QED
    BY <1>1, <2>1 DEF Unreachable, stored, clocks, history
<1>2. CASE RejectKey(a) \/ EndGrace(a)
  <2>1. saw[a] # "nothing"
    BY <1>2 DEF RejectKey, EndGrace
  <2> QED
    BY <1>2, <2>1 DEF RejectKey, EndGrace, stored, clocks, history, Placed
<1>3. CASE Granted(a) \/ Refused(a)
  BY <1>3 DEF Granted, Refused, Asking, stored, clocks, history
<1> QED
  BY <1>1, <1>2, <1>3 DEF Finds

LEMMA AnswerEnds ==
  ASSUME Placed, NEW a \in Actors, Answer(a)
  PROVE  Finds(a) \/ (at[a] \in Calls /\ Proceed(a))
<1>1. CASE Unreachable(a) \/ Undecided(a)
  BY <1>1 DEF Unreachable, Undecided, Asking, Calls, Finds
<1>2. CASE KeepLicence(a) \/ ContinueGrace(a) \/ Apply(a) \/ ClearEntitlement(a)
  BY <1>2 DEF KeepLicence, ContinueGrace, Apply, ClearEntitlement, Calls, Placed
<1>3. CASE HeartbeatFails(a) \/ HeartbeatAnswered(a) \/ HeartbeatDowngrades(a)
  BY <1>3 DEF HeartbeatFails, HeartbeatAnswered, HeartbeatDowngrades, Beat, Beating, Calls
<1> QED
  BY <1>1, <1>2, <1>3 DEF Answer, VerifyKeyLocally, Finds

\* Where everyone is, for every step.
LEMMA PlacesTyped ==
  ASSUME IInv, [Next]_vars
  PROVE  PlacesOK'
<1> DEFINE Goal == PlacesOK'
<1>t. PlacesOK /\ Placed /\ key \in BOOLEAN
  BY DEF IInv, FlagsOK
<1>n. MaxLatency \in Nat /\ \A x \in Actors : Interval(x) \in Nat /\ MaxLatency < Interval(x)
  BY Limits
<1>i. \A x \in Actors : InTime(x)' <=> /\ at'[x] \in Remote => timer'[x] <= MaxLatency
                                       /\ at'[x] = "select" => timer'[x] <= Interval(x)
                                       /\ at'[x] \in {"off", "idle", "returning", "clear"} => timer'[x] = 0
  BY DEF InTime, Interval
<1>1. ASSUME NEW a \in Actors, Answer(a)
      PROVE  Goal
  <2>1. CASE Finds(a)
    BY <1>t, <1>i, <2>1, FindsFields DEF loops, PlacesOK, InTime
  <2>2. CASE at[a] \in Calls /\ Proceed(a)
    BY <2>2, ProceedTyped
  <2> QED
    BY <1>1, <1>t, <2>1, <2>2, AnswerEnds
<1>2. ASSUME NEW a \in Actors, Fire(a)
      PROVE  Goal
  <2>1. Ticked(a) \in Stages \ {"select"}
    BY DEF Ticked, Stages, Remote
  <2> QED
    BY <1>t, <1>n, <1>i, <1>2, <2>1 DEF Fire, PlacesOK, InTime
<1>3. ASSUME NEW a \in Actors, Leave(a)
      PROVE  Goal
  BY <1>t, <1>n, <1>i, <1>3 DEF Leave, PlacesOK, InTime, Stages, Remote
<1>r. ASSUME NEW a \in Actors, Return(a)
      PROVE  Goal
  BY <1>t, <1>n, <1>i, <1>r DEF Return, PlacesOK, InTime, Stages, Remote
<1>4. ASSUME NEW a \in Admins, SetLicenseKey(a)
      PROVE  Goal
  BY <1>t, <1>n, <1>i, <1>4 DEF SetLicenseKey, CanRequest, loops, PlacesOK, InTime, Stages, Remote, Actors
<1>5. ASSUME NEW a \in Admins, Stop(a)
      PROVE  Goal
  BY <1>t, <1>n, <1>i, <1>5 DEF Stop, CanRequest, PlacesOK, InTime, Stages, Remote, Actors
<1>6. ASSUME NEW a \in Admins, Restart(a)
      PROVE  Goal
  BY <1>t, <1>n, <1>i, <1>6 DEF Restart, PlacesOK, InTime, Stages, Remote, Actors
<1>7. ASSUME NEW a \in Admins, ClearLicenseKey(a)
      PROVE  Goal
  <2>1. /\ at[a] \in {"clear", "idle"} /\ at' = [at EXCEPT ![a] = "idle"]
        /\ UNCHANGED <<loops, timer, starter>>
    BY <1>7 DEF ClearLicenseKey, CanRequest
  <2> QED
    BY <1>t, <1>n, <1>i, <2>1 DEF loops, PlacesOK, InTime, Stages, Remote, Actors
<1>8. ASSUME NEW a \in Admins, SendHeartbeat(a)
      PROVE  Goal
  BY <1>t, <1>n, <1>i, <1>8 DEF SendHeartbeat, Go, loops, PlacesOK, InTime, Stages, Remote,
     Actors
<1>9. CASE Tick
  BY <1>t, <1>n, <1>i, <1>9 DEF Tick, loops, PlacesOK, InTime, Remote
<1>10. CASE Crash
  <2>1. /\ timer' = [x \in Actors |-> 0] /\ doomed' = {} /\ starter' = {}
        /\ validationRunning' = FALSE /\ closed' = FALSE
    BY <1>10 DEF Crash
  <2>2. at' \in [Actors -> Stages]
    BY <1>10 DEF Crash, Stages, Remote
  <2>3. \A x \in Actors : InTime(x)'
    BY <1>n, <1>i, <2>1
  <2> QED
    BY <2>1, <2>2, <2>3 DEF PlacesOK
<1>11. CASE Expire \/ UNCHANGED vars
  BY <1>t, <1>i, <1>11 DEF Expire, vars, loops, PlacesOK, InTime
<1> QED
  BY <1>1, <1>2, <1>3, <1>r, <1>4, <1>5, <1>6, <1>7, <1>8, <1>9, <1>10, <1>11
  DEF Next, Step, Request

\* A call that ends has nothing left to apply.
LEMMA ProceedSaw ==
  ASSUME IInv, NEW a \in Actors, Answer(a), ~Finds(a)
  PROVE  /\ at[a] \in Calls /\ Proceed(a)
         /\ saw'[a] = "nothing" /\ \A x \in Actors \ {a} : saw'[x] = saw[x]
<1>p. Placed /\ saw \in [Actors -> Findings]
  BY DEF IInv, DataOK
<1>1. at[a] \in Calls /\ Proceed(a)
  BY <1>p, AnswerEnds
<1>2. CASE KeepLicence(a) \/ ContinueGrace(a) \/ Apply(a) \/ ClearEntitlement(a)
  BY <1>p, <1>1, <1>2 DEF KeepLicence, ContinueGrace, Apply, ClearEntitlement
<1>3. CASE Unreachable(a) \/ Undecided(a)
  BY <1>1, <1>3 DEF Unreachable, Undecided, Asking, Finds
<1>4. CASE HeartbeatFails(a) \/ HeartbeatAnswered(a) \/ HeartbeatDowngrades(a)
  <2>1. at[a] \in {"heartbeat", "retry", "report"} /\ UNCHANGED saw
    BY <1>4 DEF HeartbeatFails, HeartbeatAnswered, HeartbeatDowngrades, Beat, Beating
  <2> QED
    BY <1>p, <1>1, <2>1 DEF Placed
<1> QED
  BY <1>1, <1>2, <1>3, <1>4 DEF Answer, VerifyKeyLocally, Finds

LEMMA NextPlaced ==
  ASSUME IInv, [Next]_vars
  PROVE  Placed'
<1> DEFINE Goal == Placed'
<1>t. /\ Placed /\ at \in [Actors -> Stages]
      /\ saw \in [Actors -> Findings] /\ key \in BOOLEAN
      /\ doomed \subseteq Tickers
  BY DEF IInv, FlagsOK, DataOK, PlacesOK
<1>1. ASSUME NEW a \in Actors, Answer(a)
      PROVE  Goal
  <2>1. CASE Finds(a)
    BY <1>t, <2>1, FindsFields DEF loops, Placed
  <2>2. CASE ~Finds(a)
    <3>1. saw' \in [Actors -> Findings]
      BY <1>1, DataTyped DEF DataOK, Next, Step
    <3> QED
      BY <1>1, <2>2, <3>1, ProceedSaw, ProceedPlaced
  <2> QED
    BY <2>1, <2>2
<1>2. ASSUME NEW a \in Actors, Fire(a)
      PROVE  Goal
  BY <1>t, <1>2, Roles DEF Fire, Ticked, Placed
<1>3. ASSUME NEW a \in Actors, Leave(a) \/ Return(a)
      PROVE  Goal
  BY <1>t, <1>3, Roles DEF Leave, Return, Placed
<1>4. ASSUME NEW a \in Admins, SetLicenseKey(a)
      PROVE  Goal
  BY <1>t, <1>4, Roles DEF SetLicenseKey, CanRequest, loops, Placed
<1>5. ASSUME NEW a \in Admins, Stop(a)
      PROVE  Goal
  BY <1>t, <1>5, Roles DEF Stop, CanRequest, Placed
<1>6. ASSUME NEW a \in Admins, Restart(a)
      PROVE  Goal
  BY <1>t, <1>6, Roles DEF Restart, Placed
<1>7. ASSUME NEW a \in Admins, ClearLicenseKey(a)
      PROVE  Goal
  <2>1. /\ at[a] \in {"clear", "idle"} /\ at' = [at EXCEPT ![a] = "idle"]
        /\ UNCHANGED <<doomed, saw>>
    BY <1>7 DEF ClearLicenseKey, CanRequest, loops
  <2> QED
    BY <1>t, <2>1, Roles DEF Placed
<1>8. ASSUME NEW a \in Admins, SendHeartbeat(a)
      PROVE  Goal
  BY <1>t, <1>8, Roles DEF SendHeartbeat, CanRequest, Go, loops, Placed
<1>9. CASE Tick \/ Expire \/ UNCHANGED vars
  BY <1>t, <1>9 DEF Tick, Expire, vars, loops, Placed
<1>10. CASE Crash
  BY <1>t, <1>10, Roles DEF Crash, Placed
<1> QED
  BY <1>1, <1>2, <1>3, <1>4, <1>5, <1>6, <1>7, <1>8, <1>9, <1>10 DEF Next, Step, Request

LEMMA InitTyped == Init => IInv
<1> SUFFICES ASSUME Init
             PROVE  IInv
  OBVIOUS
<1>f. FlagsOK
  BY DEF Init, FlagsOK
<1>1. DataOK
  BY LicenseValidatorAssumption DEF Init, DataOK, Never, Findings
<1>2. at \in [Actors -> Stages]
  BY DEF Init, Stages, Remote
<1>3. \A x \in Actors : InTime(x)
  BY Limits DEF Init, InTime, Remote
<1>4. PlacesOK
  BY <1>2, <1>3 DEF Init, PlacesOK
<1>5. Placed
  BY Roles DEF Init, Placed
<1> QED
  BY <1>f, <1>1, <1>4, <1>5 DEF IInv

LEMMA Inductive == Spec => []IInv
<1>1. Init => IInv
  BY InitTyped
<1>2. IInv /\ [Next]_vars => IInv'
  BY FlagsTyped, DataTyped, PlacesTyped, NextPlaced DEF IInv
<1> QED
  BY <1>1, <1>2, PTL DEF Spec

-----------------------------------------------------------------------------
(* Someone validates.                                                      *)

\* There is one administrator at a time.
Alone == \A a, b \in Admins : a = b

\* What the end of a call, which leaves the key alone, has to show.
LEMMA ProceedValidated ==
  ASSUME Alone, IInv, ValidatedInv, NEW a \in Actors, at[a] \in Calls, Proceed(a),
         UNCHANGED <<key, unremoved>>
  PROVE  ValidatedInv'
<1>p. Placed /\ key \in BOOLEAN /\ doomed \subseteq Tickers /\ starter \subseteq Admins
  BY DEF IInv, FlagsOK, PlacesOK
<1>1. CASE a \in Tickers /\ Wait(a)
  <2>1. /\ \A x \in Actors : at'[x] = IF x = a THEN "select" ELSE at[x]
        /\ doomed' = (IF closed THEN doomed \cup {a} ELSE doomed)
        /\ UNCHANGED <<validationRunning, closed, starter>>
    BY <1>1, WaitFields
  <2>2. \A x \in Admins \cup {Boot} : at'[x] = at[x]
    BY <1>1, <2>1, Roles
  <2>3. ~closed /\ Live => Live'
    BY <2>1, Roles DEF Live
  <2> QED
    BY <1>p, <2>1, <2>2, <2>3 DEF ValidatedInv
<1>2. ASSUME NEW w \in {"idle", "heartbeat", "retry"}, a \in Admins \cup {Boot}, Go(a, w),
             \/ at[a] = "activate" /\ w = "heartbeat"
             \/ a \in Admins /\ at[a] = "heartbeat" /\ w = "retry"
             \/ a \in Admins /\ (at[a] = "report" \/ a \notin starter) /\ w = "idle"
      PROVE  ValidatedInv'
  <2>1. /\ \A x \in Actors : at'[x] = IF x = a THEN w ELSE at[x]
        /\ UNCHANGED <<validationRunning, closed, doomed, starter>>
    BY <1>2, GoFields DEF Remote, loops
  <2>2. Live => Live'
    BY <1>2, <2>1, Roles DEF Live
  <2>3. at'[Boot] = "idle" => at[Boot] = "idle"
    BY <1>2, <2>1, Roles
  <2>4. \A x \in Admins : (at[x] \in {"stop", "clear"} <=> at'[x] \in {"stop", "clear"})
                          /\ (at[x] \in {"stop", "clear"} => at'[x] = at[x])
    BY <1>2, <2>1, Roles DEF Calls
  <2>5. \A x \in starter : at'[x] \in {"activate", "heartbeat", "retry"}
    BY <1>p, <1>2, <2>1, Roles DEF ValidatedInv
  <2>6. ASSUME NEW x \in Admins, at'[x] \in {"activate", "heartbeat", "retry"}
        PROVE  key
    <3>1. at[x] \in {"activate", "heartbeat", "retry"}
      BY <1>2, <2>1, <2>6, Roles
    <3> QED
      BY <3>1 DEF ValidatedInv
  <2>7. ASSUME NEW x \in Admins, at'[x] = "clear"
        PROVE  ~validationRunning
    <3>1. at[x] = "clear"
      BY <2>4, <2>7
    <3> QED
      BY <3>1 DEF ValidatedInv
  <2>8. closed => \E x \in Admins : at'[x] = "stop"
    BY <2>4 DEF ValidatedInv
  <2>9. key /\ at[Boot] = "idle" /\ ~unremoved =>
          Live' \/ starter # {} \/ \E x \in Admins : at'[x] \in {"stop", "clear"}
    BY <2>2, <2>4 DEF ValidatedInv
  <2> QED
    BY <2>1, <2>2, <2>3, <2>5, <2>6, <2>7, <2>8, <2>9 DEF ValidatedInv
<1>3. CASE a \in Admins /\ at[a] \in {"heartbeat", "retry"} /\ a \in starter /\ Finish(a)
  <2>0. PICK l \in Loops : StartedBy(a, l)
    BY <1>3, StartsLoop
  <2>1. /\ at[l] = "off"
        /\ \A x \in Actors : at'[x] = IF x = a THEN "idle" ELSE IF x = l THEN "select" ELSE at[x]
        /\ doomed' = (IF closed THEN doomed \cup {l} ELSE doomed)
        /\ validationRunning' = TRUE /\ UNCHANGED closed
        /\ starter' = starter \ {a}
    BY <2>0 DEF StartedBy
  <2>a. \A x \in Admins : x = a
    BY <1>3 DEF Alone
  <2>2. \A x \in Admins : at[x] # "stop" /\ at'[x] = "idle"
    BY <1>3, <2>1, <2>a, Roles
  <2>3. l \notin doomed
    BY <1>p, <2>1 DEF Placed
  <2>4. ~closed
    BY <1>3, <2>2 DEF ValidatedInv
  <2>5. Live'
    <3>1. at'[l] = "select" /\ l \notin doomed'
      BY <1>3, <2>1, <2>3, <2>4, Roles
    <3> QED
      BY <3>1 DEF Live
  <2>6. starter' = {}
    BY <1>p, <2>1, <2>a
  <2>7. key
    BY <1>3 DEF ValidatedInv
  <2> QED
    BY <2>1, <2>2, <2>4, <2>5, <2>6, <2>7 DEF ValidatedInv
<1>4. CASE a = Boot /\ at[a] = "heartbeat" /\ Started
  <2>1. PICK l \in Loops :
           /\ \A x \in Actors :
                /\ at'[x] = IF x = Boot THEN "idle" ELSE IF x = Heart THEN "select"
                            ELSE IF x = l /\ key THEN "select" ELSE at[x]
                /\ timer'[x] = 0
           /\ validationRunning' = key
           /\ UNCHANGED <<closed, doomed, starter>>
    BY <1>4, StartsLoops
  <2>2. doomed = {} /\ \A x \in Admins : at[x] = "idle"
    BY <1>4, <1>p DEF Placed
  <2>3. key => Live'
    BY <2>1, <2>2, Roles DEF Live
  <2>4. \A x \in Admins : at'[x] = "idle"
    BY <2>1, <2>2, Roles
  <2> QED
    BY <1>p, <2>1, <2>2, <2>3, <2>4 DEF ValidatedInv
<1> QED
  BY <1>1, <1>2, <1>3, <1>4, <1>p, ProceedShape, Roles

LEMMA NextValidated ==
  ASSUME Alone, IInv, ValidatedInv, [Next]_vars
  PROVE  ValidatedInv'
<1> DEFINE Goal == ValidatedInv'
<1>p. Placed /\ key \in BOOLEAN /\ doomed \subseteq Tickers /\ starter \subseteq Admins
      /\ at \in [Actors -> Stages]
  BY DEF IInv, FlagsOK, PlacesOK
<1>1. ASSUME NEW a \in Actors, Answer(a)
      PROVE  Goal
  <2>1. CASE Finds(a)
    BY <1>p, <2>1, FindsFields DEF loops, ValidatedInv, Live
  <2>2. CASE ~Finds(a)
    <3>1. UNCHANGED <<key, unremoved>>
      <4>1. CASE Unreachable(a) \/ VerifyKeyLocally(a)
        BY <4>1 DEF Unreachable, VerifyKeyLocally, RejectKey, EndGrace, KeepLicence,
           ContinueGrace, stored, history
      <4>2. CASE \/ Granted(a) \/ Apply(a) \/ Refused(a) \/ ClearEntitlement(a)
                 \/ Undecided(a)
        BY <4>2 DEF Granted, Apply, Refused, ClearEntitlement, Undecided, stored, history
      <4>3. CASE HeartbeatFails(a) \/ HeartbeatAnswered(a) \/ HeartbeatDowngrades(a)
        BY <4>3 DEF HeartbeatFails, HeartbeatAnswered, HeartbeatDowngrades, Beat, stored,
           history
      <4> QED
        BY <1>1, <4>1, <4>2, <4>3 DEF Answer
    <3> QED
      BY <1>1, <2>2, <3>1, ProceedSaw, ProceedValidated
  <2> QED
    BY <2>1, <2>2
<1>2. ASSUME NEW a \in Actors, Fire(a)
      PROVE  Goal
  <2>1. /\ a \in Tickers /\ at[a] = "select"
        /\ doomed' = doomed \ {a}
        /\ at' = [at EXCEPT ![a] = Ticked(a)]
        /\ UNCHANGED <<key, unremoved, validationRunning, closed, starter>>
    BY <1>2 DEF Fire, stored, history
  <2>2. \A x \in Admins \cup {Boot} : at'[x] = at[x]
    BY <1>p, <2>1, Roles
  <2>3. Live /\ key => Live'
    <3>1. \A x \in Loops \ {a} : at'[x] = at[x]
      BY <1>p, <2>1, Roles
    <3>2. key /\ a \in Loops => at'[a] = "validate"
      BY <1>p, <2>1, Roles DEF Ticked
    <3> QED
      BY <2>1, <3>1, <3>2 DEF Live
  <2> QED
    BY <1>p, <2>1, <2>2, <2>3 DEF ValidatedInv
<1>3. ASSUME NEW a \in Actors, Leave(a) \/ Return(a)
      PROVE  Goal
  <2>1. /\ a \in doomed \/ at[a] = "returning"
        /\ doomed' \subseteq doomed
        /\ \A x \in Actors \ {a} : at'[x] = at[x]
        /\ validationRunning' => validationRunning
        /\ UNCHANGED <<key, unremoved, closed, starter>>
    BY <1>3, <1>p DEF Leave, Return, stored, history
  <2>2. a \in Tickers
    BY <1>p, <2>1, Roles DEF Placed
  <2>3. \A x \in Admins \cup {Boot} : at'[x] = at[x]
    BY <2>1, <2>2, Roles
  <2>4. Live => Live'
    BY <2>1, Roles DEF Live
  <2>5. \A x \in starter : at'[x] \in {"activate", "heartbeat", "retry"}
    BY <1>p, <2>3 DEF ValidatedInv
  <2>6. \A x \in Admins : at'[x] = "clear" => ~validationRunning'
    BY <2>1, <2>3 DEF ValidatedInv
  <2> QED
    BY <1>p, <2>1, <2>3, <2>4, <2>5, <2>6 DEF ValidatedInv
<1>4. ASSUME NEW a \in Admins, SetLicenseKey(a)
      PROVE  Goal
  <2>1. /\ at[a] = "idle" /\ at[Boot] = "idle"
        /\ at' = [at EXCEPT ![a] = "activate"]
        /\ starter' = (IF validationRunning THEN starter \ {a} ELSE starter \cup {a})
        /\ key' = TRUE
        /\ UNCHANGED <<validationRunning, closed, doomed>>
    BY <1>4 DEF SetLicenseKey, CanRequest, loops
  <2>2. a \in Actors /\ \A x \in Actors \ {a} : at'[x] = at[x]
    BY <1>p, <2>1, Roles
  <2>3. \A x \in Admins : x = a /\ at'[x] = "activate"
    BY <1>p, <2>1, <2>2 DEF Alone
  <2>4. ~closed
    BY <2>1, <2>3 DEF ValidatedInv
  <2>5. Live => Live'
    BY <2>1, <2>2, Roles DEF Live
  <2>6. validationRunning \/ starter' # {}
    BY <2>1
  <2> QED
    BY <1>p, <2>1, <2>3, <2>4, <2>5, <2>6 DEF ValidatedInv
<1>5. ASSUME NEW a \in Admins, Stop(a)
      PROVE  Goal
  <2>1. /\ at[a] = "idle" /\ at' = [at EXCEPT ![a] = "stop"] /\ closed' = TRUE
        /\ UNCHANGED <<key, validationRunning, starter>>
    BY <1>5 DEF Stop, CanRequest, stored
  <2>2. \A x \in Admins : x = a /\ at'[x] = "stop"
    BY <1>p, <2>1, Roles DEF Alone
  <2>3. starter = {}
    BY <1>p, <2>1, <2>2 DEF ValidatedInv
  <2> QED
    BY <1>p, <2>1, <2>2, <2>3 DEF ValidatedInv
<1>6. ASSUME NEW a \in Admins, Restart(a)
      PROVE  Goal
  <2>1. /\ at[a] = "stop" /\ at' = [at EXCEPT ![a] = "clear"]
        /\ closed' = FALSE /\ validationRunning' = FALSE
        /\ UNCHANGED starter
    BY <1>6 DEF Restart
  <2>2. \A x \in Admins : x = a /\ at'[x] = "clear"
    BY <1>p, <2>1, Roles DEF Alone
  <2>3. starter = {}
    BY <1>p, <2>1, <2>2 DEF ValidatedInv
  <2> QED
    BY <1>p, <2>1, <2>2, <2>3 DEF ValidatedInv
<1>7. ASSUME NEW a \in Admins, ClearLicenseKey(a)
      PROVE  Goal
  <2>1. /\ at[a] = "clear" \/ (at[a] = "idle" /\ ~key)
        /\ at' = [at EXCEPT ![a] = "idle"]
        /\ UNCHANGED <<validationRunning, closed, starter>>
        /\ \/ key' = FALSE
           \/ key' = key /\ unremoved' = (unremoved \/ at[a] = "clear")
    BY <1>7 DEF ClearLicenseKey, CanRequest, loops, stored
  <2>2. \A x \in Admins : x = a /\ at'[x] = "idle"
    BY <1>p, <2>1, Roles DEF Alone
  <2>3. starter = {} /\ ~closed
    BY <1>p, <2>1, <2>2 DEF ValidatedInv
  <2>4. ~validationRunning
    BY <1>p, <2>1 DEF ValidatedInv
  <2>5. ~key' \/ unremoved'
    BY <2>1
  <2> QED
    BY <1>p, <2>1, <2>2, <2>3, <2>4, <2>5 DEF ValidatedInv
<1>8. ASSUME NEW a \in Admins, SendHeartbeat(a)
      PROVE  Goal
  <2>1. /\ at[a] = "idle" /\ ~key /\ at' = [at EXCEPT ![a] = "report"]
        /\ UNCHANGED <<key, validationRunning, closed, starter>>
    BY <1>8 DEF SendHeartbeat, CanRequest, Go, loops, stored
  <2>2. \A x \in Admins : x = a /\ at'[x] = "report"
    BY <1>p, <2>1, Roles DEF Alone
  <2>3. starter = {} /\ ~closed /\ ~validationRunning
    BY <1>p, <2>1, <2>2 DEF ValidatedInv
  <2> QED
    BY <1>p, <2>1, <2>2, <2>3 DEF ValidatedInv
<1>9. CASE Tick \/ Expire \/ UNCHANGED vars
  BY <1>9 DEF Tick, Expire, vars, loops, stored, history, ValidatedInv, Live
<1>10. CASE Crash
  <2>1. /\ validationRunning' = FALSE /\ closed' = FALSE /\ starter' = {}
        /\ at'[Boot] # "idle" /\ \A x \in Admins : at'[x] = "idle"
    BY <1>10, Roles DEF Crash
  <2> QED
    BY <2>1 DEF ValidatedInv
<1> QED
  BY <1>1, <1>2, <1>3, <1>4, <1>5, <1>6, <1>7, <1>8, <1>9, <1>10 DEF Next, Step, Request

-----------------------------------------------------------------------------
(* Tokens stay fresh.                                                      *)

\* What the end of a call does to the heartbeat loop.
LEMMA ProceedHeart ==
  ASSUME IInv, NEW a \in Actors, at[a] \in Calls, Proceed(a)
  PROVE  \/ a = Heart /\ at'[Heart] = "select" /\ timer'[Heart] = timer[Heart] /\ at[Boot] = "idle"
            /\ at'[Boot] = "idle"
         \/ a # Heart /\ at'[Heart] = at[Heart] /\ timer'[Heart] = timer[Heart]
            /\ (at'[Boot] # "idle" => at[Boot] # "idle" /\ (a = Boot => at[a] = "activate"))
         \/ a = Boot /\ at[Boot] # "idle" /\ at'[Heart] = "select" /\ timer'[Heart] = 0
            /\ at'[Boot] = "idle"
<1>p. Placed
  BY DEF IInv
<1>1. CASE a \in Tickers /\ Wait(a)
  <2>1. \A x \in Actors : at'[x] = IF x = a THEN "select" ELSE at[x]
    BY <1>1, WaitFields
  <2>2. timer' = timer
    BY <1>1, WaitFields
  <2>3. at[Boot] = "idle"
    BY <1>1, <1>p DEF Placed, Calls
  <2> QED
    BY <1>1, <2>1, <2>2, <2>3, Roles
<1>2. CASE a \in Admins \cup {Boot} /\ at[a] = "activate" /\ Go(a, "heartbeat")
  BY <1>2, GoFields, Roles DEF Remote
<1>3. ASSUME NEW w \in {"idle", "retry"}, a \in Admins, Go(a, w)
      PROVE  a # Heart /\ at'[Heart] = at[Heart] /\ timer'[Heart] = timer[Heart]
             /\ at'[Boot] = at[Boot]
  BY <1>3, GoFields, Roles DEF Remote
<1>4. CASE a \in Admins /\ at[a] \in {"heartbeat", "retry"} /\ a \in starter /\ Finish(a)
  BY <1>4, StartsLoop, Roles DEF StartedBy
<1>5. CASE a = Boot /\ at[a] = "heartbeat" /\ Started
  BY <1>5, StartsLoops, Roles
<1> QED
  BY <1>1, <1>2, <1>3, <1>4, <1>5, <1>p, ProceedShape, Roles

LEMMA Products ==
  ASSUME NEW m \in Nat, NEW h \in Nat
  PROVE  m * h \in Nat /\ (m + 1) * h = m * h + h
OBVIOUS

LEMMA NextFresh ==
  ASSUME IInv, FreshInv, [Next]_vars
  PROVE  FreshInv'
<1> DEFINE Goal == FreshInv'
           H == HeartbeatInterval
<1>t. /\ missed \in Nat /\ H \in Nat /\ token \in Int /\ timer[Heart] \in Nat
      /\ missed * H \in Nat /\ (missed + 1) * H = missed * H + H
  <2>1. /\ missed \in Nat /\ H \in Nat /\ token \in Int /\ timer[Heart] \in Nat
    BY LicenseValidatorAssumption, Roles DEF IInv, DataOK, PlacesOK, Never
  <2> QED
    BY <2>1, Products
<1>p. Placed /\ at \in [Actors -> Stages]
      /\ timer \in [Actors -> Nat]
  BY DEF IInv, PlacesOK
<1>n. missed' \in Nat /\ missed' * H \in Nat /\ (missed' + 1) * H = missed' * H + H
  <2>1. missed' \in Nat
    BY DataTyped, LicenseValidatorAssumption DEF DataOK
  <2>2. \A m \in Nat : m * H \in Nat /\ (m + 1) * H = m * H + H
    BY <1>t, Products
  <2> QED
    BY <2>1, <2>2
<1>m. timer'[Heart] \in Nat
  BY PlacesTyped, Roles DEF PlacesOK
<1>1. ASSUME NEW a \in Actors, Answer(a)
      PROVE  Goal
  <2>1. CASE Finds(a)
    BY <1>p, <2>1, FindsFields DEF FreshInv
  <2>2. CASE ~Finds(a)
    <3>1. at[a] \in Calls /\ Proceed(a)
      BY <1>1, <2>2, ProceedSaw
    <3>2. ASSUME token' = 0, missed' = 0, at[a] # "activate"
          PROVE  Goal
      <4>1. at'[Boot] = "idle" \/ (at[Boot] # "idle" /\ a # Boot)
        BY <3>1, <3>2, ProceedHeart
      <4>2. a \notin Admins \cup Tickers \/ at[Boot] = "idle"
        BY <3>1, <1>p DEF Placed, Calls
      <4>3. at'[Boot] = "idle"
        BY <4>1, <4>2, Roles
      <4> QED
        BY <3>2, <4>3, <1>t, <1>n, <1>m DEF FreshInv, Never
    <3>3. ASSUME token' = token, Miss(a), at[a] \in {"heartbeat", "retry", "report"}
          PROVE  Goal
      <4>1. IF a = Heart THEN missed' = missed + 1 ELSE missed' = missed
        BY <3>3 DEF Miss
      <4>2. CASE a = Heart
        <5>1. at[Heart] = "heartbeat"
          BY <3>3, <4>2, <1>p DEF Placed
        <5> QED
          BY <3>3, <4>1, <4>2, <5>1, <3>1, <1>t, <1>n, <1>m, ProceedHeart, Roles DEF FreshInv
      <4>3. CASE a # Heart
        BY <3>3, <4>1, <4>3, <3>1, <1>t, <1>m, ProceedHeart DEF FreshInv
      <4> QED
        BY <4>2, <4>3
    <3>4. CASE HeartbeatAnswered(a) \/ HeartbeatDowngrades(a)
      <4>1. Beat(a) /\ at[a] \in {"heartbeat", "retry", "report"}
        BY <3>4 DEF HeartbeatAnswered, HeartbeatDowngrades, Beating
      <4> QED
        BY <3>2, <3>3, <4>1 DEF Beat, Refreshed
    <3>5. CASE HeartbeatFails(a)
      BY <3>3, <3>5 DEF HeartbeatFails, Beating, clocks
    <3>6. ASSUME UNCHANGED <<token, missed>>, at[a] \in {"activate", "validate"}
          PROVE  Goal
      <4>1. a # Heart
        BY <3>6, <1>p DEF Placed
      <4> QED
        BY <3>6, <4>1, <3>1, <1>t, <1>m, ProceedHeart DEF FreshInv
    <3>7. CASE Unreachable(a) \/ Undecided(a)
      BY <3>6, <3>7 DEF Unreachable, Undecided, Asking, clocks
    <3>8. CASE KeepLicence(a) \/ ContinueGrace(a) \/ Apply(a) \/ ClearEntitlement(a)
      <4>1. saw[a] # "nothing" /\ UNCHANGED <<token, missed>>
        BY <3>8 DEF KeepLicence, ContinueGrace, Apply, ClearEntitlement, clocks
      <4> QED
        BY <3>6, <4>1, <1>p DEF Placed
    <3> QED
      BY <1>1, <2>2, <3>4, <3>5, <3>7, <3>8 DEF Answer, VerifyKeyLocally, Finds
  <2> QED
    BY <2>1, <2>2
<1>2. ASSUME NEW a \in Actors, Fire(a) \/ Leave(a) \/ Return(a)
      PROVE  Goal
  <2>1. /\ UNCHANGED <<token, missed>>
        /\ \A x \in Actors \ {a} : at'[x] = at[x] /\ timer'[x] = timer[x]
    BY <1>2, <1>p DEF Fire, Leave, Return, clocks
  <2>2. a \in Tickers
    BY <1>2, <1>p, Roles DEF Fire, Leave, Return, IInv, PlacesOK, Placed
  <2>3. at'[Boot] = at[Boot]
    BY <2>1, <2>2, Roles
  <2>4. CASE a # Heart
    <3>1. at'[Heart] = at[Heart] /\ timer'[Heart] = timer[Heart]
      BY <2>1, <2>4, Roles
    <3> QED
      BY <2>1, <2>3, <3>1 DEF FreshInv
  <2>5. CASE a = Heart
    <3>1. \/ /\ at[Heart] = "select" /\ timer[Heart] = H
             /\ at'[Heart] = "heartbeat" /\ timer'[Heart] = 0
          \/ at'[Heart] = "off"
      BY <1>2, <1>p, <2>5, Roles DEF Fire, Leave, Return, Ticked, Interval
    <3> QED
      BY <2>1, <2>3, <3>1, <1>t DEF FreshInv
  <2> QED
    BY <2>4, <2>5
<1>3. ASSUME NEW a \in Admins,
             \/ SetLicenseKey(a) \/ Stop(a) \/ Restart(a) \/ ClearLicenseKey(a)
             \/ SendHeartbeat(a)
      PROVE  Goal
  <2>1. /\ token' = token /\ missed' = missed
        /\ \A x \in Actors \ {a} : at'[x] = at[x] /\ timer'[x] = timer[x]
    BY <1>3, <1>p DEF SetLicenseKey, Stop, Restart, ClearLicenseKey, SendHeartbeat, Go, clocks
  <2> QED
    BY <2>1, Roles DEF FreshInv
<1>4. CASE Tick
  <2>1. /\ UNCHANGED <<at, missed>> /\ token' = Older(token, TokenValidity)
        /\ timer' = [a \in Actors |-> IF at[a] \in Remote \cup {"select"} THEN timer[a] + 1 ELSE 0]
    BY <1>4 DEF Tick
  <2>2. at[Heart] \in {"select", "heartbeat"} => timer'[Heart] = timer[Heart] + 1
    BY <2>1, Roles DEF Remote
  <2>3. /\ token = Never => token' = Never
        /\ token # Never => token' # Never /\ token' <= token + 1
    BY <1>t, <2>1, LicenseValidatorAssumption DEF Older, Never, IInv, DataOK
  <2>4. token' \in Int
    BY DataTyped DEF DataOK, Never
  <2> QED
    BY <1>t, <2>1, <2>2, <2>3, <2>4 DEF FreshInv
<1>5. CASE Expire \/ UNCHANGED vars
  BY <1>5 DEF Expire, vars, clocks, FreshInv
<1>6. CASE Crash
  BY <1>6 DEF Crash, FreshInv
<1> QED
  BY <1>1, <1>2, <1>3, <1>4, <1>5, <1>6 DEF Next, Step, Request

-----------------------------------------------------------------------------
(* The grace period.                                                       *)

LEMMA NextGrace ==
  ASSUME IInv, GraceInv, [Next]_vars
  PROVE  GraceInv'
<1> DEFINE Goal == GraceInv'
<1>t. /\ GracePeriod \in Nat \ {0} /\ grace \in Never .. GracePeriod
      /\ overdue \in Never .. GracePeriod
  BY LicenseValidatorAssumption DEF IInv, DataOK
<1>s. ASSUME UNCHANGED <<grace, overdue, inherited>>
      PROVE  Goal
  BY <1>s DEF GraceInv, Misdated
<1>1. ASSUME NEW a \in Actors, Answer(a)
      PROVE  Goal
  <2>1. CASE EndGrace(a) \/ Granted(a)
    BY <2>1 DEF EndGrace, Granted, GraceInv, Misdated
  <2>2. CASE ContinueGrace(a)
    <3>1. /\ grace' = (IF grace = Never THEN 0 ELSE grace) /\ overdue' = overdue
          /\ (inherited \/ overdue = Never) => inherited'
      BY <2>2 DEF ContinueGrace
    <3>2. overdue # Never /\ Misdated' => Misdated
      BY <1>t, <3>1 DEF Misdated, Never
    <3> QED
      BY <3>1, <3>2 DEF GraceInv
  <2>3. CASE Unreachable(a) \/ RejectKey(a) \/ KeepLicence(a)
    BY <1>s, <2>3 DEF Unreachable, RejectKey, KeepLicence, clocks, history
  <2>4. CASE Apply(a) \/ Refused(a) \/ ClearEntitlement(a) \/ Undecided(a)
    BY <1>s, <2>4 DEF Apply, Refused, ClearEntitlement, Undecided, clocks, history
  <2>5. CASE HeartbeatFails(a) \/ HeartbeatAnswered(a) \/ HeartbeatDowngrades(a)
    BY <1>s, <2>5 DEF HeartbeatFails, HeartbeatAnswered, HeartbeatDowngrades, Beat, clocks,
       history
  <2> QED
    BY <1>1, <2>1, <2>2, <2>3, <2>4, <2>5 DEF Answer, VerifyKeyLocally
<1>2. ASSUME NEW a \in Actors, Fire(a) \/ Leave(a) \/ Return(a)
      PROVE  Goal
  BY <1>s, <1>2 DEF Fire, Leave, Return, clocks, history
<1>3. ASSUME NEW a \in Admins, SetLicenseKey(a)
      PROVE  Goal
  <2>1. /\ grace' = grace
        /\ UNCHANGED <<overdue, inherited>> \/ inherited' = (grace # Never)
    BY <1>3 DEF SetLicenseKey
  <2> QED
    BY <2>1 DEF GraceInv, Misdated
<1>4. ASSUME NEW a \in Admins, Stop(a) \/ Restart(a) \/ SendHeartbeat(a)
      PROVE  Goal
  BY <1>s, <1>4 DEF Stop, Restart, SendHeartbeat, clocks, history
<1>5. ASSUME NEW a \in Admins, ClearLicenseKey(a)
      PROVE  Goal
  <2>1. /\ grace' = grace
        /\ UNCHANGED <<overdue, inherited>> \/ inherited' = (grace # Never)
    BY <1>5 DEF ClearLicenseKey
  <2> QED
    BY <2>1 DEF GraceInv, Misdated
<1>6. CASE Tick
  <2>1. /\ grace' = Older(grace, GracePeriod) /\ overdue' = Older(overdue, GracePeriod)
        /\ inherited' = inherited
    BY <1>6 DEF Tick, history
  <2>2. Misdated' => Misdated
    BY <1>t, <2>1 DEF Older, Misdated, Never
  <2> QED
    BY <2>1, <2>2 DEF GraceInv
<1>7. CASE Expire
  <2>1. UNCHANGED <<grace, inherited>> /\ overdue = Never
    BY <1>7 DEF Expire, history
  <2> QED
    BY <2>1 DEF GraceInv, Misdated
<1>8. CASE Crash
  BY <1>8 DEF Crash, GraceInv, Misdated
<1>9. CASE UNCHANGED vars
  BY <1>s, <1>9 DEF vars, clocks, history
<1> QED
  BY <1>1, <1>2, <1>3, <1>4, <1>5, <1>6, <1>7, <1>8, <1>9 DEF Next, Step, Request

LEMMA DowngradeExcused ==
  ASSUME IInv, GraceInv, [Next]_vars, license = "paid", license' = "free"
  PROVE  \/ \E a \in Actors : Refused(a) \/ HeartbeatDowngrades(a) \/ RejectKey(a)
         \/ \E a \in Admins : ClearLicenseKey(a)
         \/ Crash
         \/ overdue >= GracePeriod
         \/ inherited
<1>t. /\ GracePeriod \in Nat \ {0} /\ grace \in Never .. GracePeriod
      /\ overdue \in Never .. GracePeriod
  BY LicenseValidatorAssumption DEF IInv, DataOK
<1>1. ASSUME NEW a \in Actors, ContinueGrace(a)
      PROVE  overdue >= GracePeriod \/ inherited
  <2>1. grace' = (IF grace = Never THEN 0 ELSE grace) /\ grace' >= GracePeriod
    BY <1>1 DEF ContinueGrace
  <2>2. grace >= GracePeriod /\ grace # Never
    BY <1>t, <2>1
  <2>3. Misdated \/ overdue >= GracePeriod
    BY <1>t, <2>2 DEF Misdated, Never
  <2> QED
    BY <2>3 DEF GraceInv
<1>2. ASSUME NEW a \in Actors,
             \/ Unreachable(a) \/ EndGrace(a) \/ KeepLicence(a)
             \/ Granted(a) \/ Apply(a) \/ ClearEntitlement(a) \/ Undecided(a)
             \/ HeartbeatFails(a) \/ HeartbeatAnswered(a)
             \/ Fire(a) \/ Leave(a) \/ Return(a)
      PROVE  FALSE
  BY <1>2 DEF Unreachable, EndGrace, KeepLicence, Granted, Apply, Written, ClearEntitlement,
     Undecided, HeartbeatFails, HeartbeatAnswered, Fire, Leave, Return, licence
<1>3. ASSUME NEW a \in Admins,
             SetLicenseKey(a) \/ Stop(a) \/ Restart(a) \/ SendHeartbeat(a)
      PROVE  FALSE
  BY <1>3 DEF SetLicenseKey, Stop, Restart, SendHeartbeat, licence
<1>4. CASE Tick \/ Expire \/ UNCHANGED vars
  BY <1>4 DEF Tick, Expire, vars, licence
<1> QED
  BY <1>1, <1>2, <1>3, <1>4 DEF Next, Step, Answer, VerifyKeyLocally, Request

-----------------------------------------------------------------------------
(* Results.                                                                 *)

\* The licence, its clocks and every loop and request keep their types, and no
\* clock passes the limit of what it measures (Validator).
THEOREM TypeCorrect == Spec => []TypeOK
<1>1. IInv => TypeOK
  BY DEF IInv, FlagsOK, DataOK, PlacesOK, InTime, TypeOK
<1> QED
  BY <1>1, Inductive, PTL

\* With one administrator at a time: whatever loops are stopped, restarted or end
\* late, a key in force is validated by a live loop, unless the database refused to
\* remove the key of a server whose loops were stopped (SetLicenseKey, Stop, Restart,
\* ClearLicenseKey, validationLoop).
THEOREM SomeoneValidatesHolds ==
  ASSUME \A a, b \in Admins : a = b
  PROVE  Spec => []SomeoneValidates
<1>1. Init => ValidatedInv
  BY Roles DEF Init, ValidatedInv
<1>2. IInv /\ ValidatedInv /\ [Next]_vars => ValidatedInv'
  BY NextValidated DEF Alone
<1>3. IInv /\ ValidatedInv => SomeoneValidates
  <2> SUFFICES ASSUME IInv, ValidatedInv, key, Quiet, ~unremoved
               PROVE  Live
    BY DEF SomeoneValidates
  <2>1. /\ at[Boot] = "idle" /\ starter \subseteq Admins
        /\ \A a \in Admins : at[a] = "idle"
    BY DEF Quiet, IInv, PlacesOK
  <2>2. starter = {}
    BY <2>1 DEF ValidatedInv
  <2> QED
    BY <2>1, <2>2 DEF ValidatedInv
<1> QED
  BY <1>1, <1>2, <1>3, Inductive, PTL DEF Spec

\* A token that was obtained is fresh for as long as the heartbeats since then that
\* brought none, and the time the next answer takes, fit into its validity, whatever
\* these are (HeartbeatInterval, HasValidRefreshToken).
THEOREM TokenStaysFreshHolds == Spec => []TokenStaysFresh
<1>1. Init => FreshInv
  BY DEF Init, FreshInv
<1>2. IInv /\ FreshInv /\ [Next]_vars => FreshInv'
  BY NextFresh
<1>3. IInv /\ FreshInv => TokenStaysFresh
  <2> DEFINE H == HeartbeatInterval
  <2> SUFFICES ASSUME IInv, FreshInv, at[Heart] # "off", token # Never,
                      (missed + 1) * H + MaxLatency < TokenValidity
               PROVE  token < TokenValidity
    BY DEF TokenStaysFresh, Fresh
  <2>1. /\ missed \in Nat /\ H \in Nat /\ MaxLatency \in Nat
        /\ token \in Int /\ timer[Heart] \in Nat /\ TokenValidity \in Nat
    BY LicenseValidatorAssumption, Roles DEF IInv, DataOK, PlacesOK, Never
  <2>2. missed * H \in Nat /\ (missed + 1) * H = missed * H + H
    BY <2>1, Products
  <2>3. CASE at[Heart] = "select"
    <3>1. token <= missed * H + timer[Heart]
      BY <2>3 DEF FreshInv
    <3>2. timer[Heart] <= H
      BY <2>3, Roles DEF IInv, PlacesOK, InTime, Interval
    <3> QED
      BY <2>1, <2>2, <3>1, <3>2
  <2>4. CASE at[Heart] = "heartbeat"
    <3>1. token <= (missed + 1) * H + timer[Heart]
      BY <2>4 DEF FreshInv
    <3>2. timer[Heart] <= MaxLatency
      BY <2>4, Roles DEF IInv, PlacesOK, InTime, Remote
    <3> QED
      BY <2>1, <2>2, <3>1, <3>2
  <2> QED
    BY <2>3, <2>4 DEF IInv, Placed
<1> QED
  BY <1>1, <1>2, <1>3, Inductive, PTL DEF Spec

\* No licence is lost before the key has been expired for the whole grace period,
\* except to an answer, a key that does not verify, an administrator or a restart, or
\* because the grace period of an earlier key was still running (verifyKeyLocally,
\* activateLicense, SetLicenseKey).
THEOREM NoEarlyDowngradeHolds == Spec => NoEarlyDowngrade
<1>1. Init => GraceInv
  BY DEF Init, GraceInv, Misdated
<1>2. IInv /\ GraceInv /\ [Next]_vars => GraceInv'
  BY NextGrace
<1>3. IInv /\ GraceInv /\ [Next]_vars =>
        [license = "paid" /\ license' = "free" =>
           \/ \E a \in Actors : Refused(a) \/ HeartbeatDowngrades(a) \/ RejectKey(a)
           \/ \E a \in Admins : ClearLicenseKey(a)
           \/ Crash
           \/ overdue >= GracePeriod
           \/ inherited]_vars
  BY DowngradeExcused
<1> QED
  BY <1>1, <1>2, <1>3, Inductive, PTL DEF Spec, NoEarlyDowngrade
=============================================================================
