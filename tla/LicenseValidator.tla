--------------------------- MODULE LicenseValidator ---------------------------
(***************************************************************************)
(* How a server keeps the licence its owner paid for in force              *)
(* (internal/license/validator.go, with the requests of                    *)
(* internal/api/handlers/license_manage.go).                               *)
(*                                                                         *)
(* A heartbeat loop, validation loops and requests of administrators each  *)
(* have a call to the license server under way, and each applies its       *)
(* answer to the same in-memory licence, entitlement and refresh token     *)
(* when it comes.  Deactivation closes the channel the loops wait on and   *)
(* replaces it.  Time is counted in units as small as the longest answer   *)
(* needs; the loops, tokens and the grace period each have a clock.        *)
(***************************************************************************)
EXTENDS Integers, FiniteSets

CONSTANTS
  Admins,             \* concurrent requests of administrators
  Boot,               \* Validator.Start, before the server listens
  Heart,              \* heartbeatLoop
  Loops,              \* validation loops that may exist at once
  HeartbeatInterval,  \* HeartbeatInterval
  ValidationInterval, \* ValidationInterval
  TokenValidity,      \* how long HasValidRefreshToken trusts a heartbeat
  GracePeriod,        \* GracePeriod
  MaxLatency,         \* the longest a call takes, answered or not
  MaxMissed,          \* bound: heartbeats of the loop in a row without a token
  Requests,           \* a subset of {"set", "deactivate", "report", "midway"}
  Faults              \* a subset of {"unreachable", "refused", "limit", "downgrade",
                      \*              "store_error", "crash"}

ASSUME LicenseValidatorAssumption ==
  /\ Boot # Heart /\ {Boot, Heart} \cap (Admins \cup Loops) = {} /\ Admins \cap Loops = {}
  /\ Loops # {}
  /\ {HeartbeatInterval, ValidationInterval, TokenValidity, GracePeriod} \subseteq Nat \ {0}
  /\ MaxLatency \in Nat /\ MaxLatency < HeartbeatInterval /\ MaxLatency < ValidationInterval
  /\ MaxMissed \in Nat

VARIABLES
  key,         \* Validator.licenseKey # "", as the database has it
  verifies,    \* there is a key, signed under the public key fetched when the server started
  license,     \* the tier of Validator.license
  entitlement, \* Validator.entitlement # nil
  token,       \* the age of the refresh token; Never when there is none
  grace,       \* the time since graceStartedAt; Never when it is nil
  overdue,     \* the time since a key that verifies expired; Never before that
  validationRunning, \* Validator.validationRunning
  closed,      \* Validator.stopCh is closed
  doomed,      \* the loops that wait on a closed channel
  at,          \* what each actor is doing
  saw,         \* what it has of an answer, or of the key, that it is applying
  timer,       \* the time since a loop's tick, or since a request's call began
  starter,     \* requests with shouldStartLoop
  missed,      \* heartbeats of the loop that brought no token, since one was brought
  unremoved,   \* history: the database kept the key of a server whose loops were stopped
  inherited    \* history: the grace period is not that of the key in force

stored == <<key, verifies>>
licence == <<license, entitlement>>
clocks == <<token, grace, overdue>>
loops == <<validationRunning, closed, doomed>>
history == <<unremoved, inherited>>
vars == <<stored, licence, clocks, loops, at, saw, timer, starter, missed, history>>

Never == -1

Tickers == {Heart} \cup Loops

Actors == Admins \cup {Boot} \cup Tickers

Interval(a) == IF a = Heart THEN HeartbeatInterval ELSE ValidationInterval

Remote == {"activate", "validate", "heartbeat", "retry", "report", "stop"}

Fresh(age) == age # Never /\ age < TokenValidity

Init ==
  /\ key \in BOOLEAN /\ verifies \in {FALSE, key}
  /\ license = "free" /\ entitlement = FALSE
  /\ token = Never /\ grace = Never /\ overdue = Never
  /\ validationRunning = FALSE /\ closed = FALSE /\ doomed = {}
  /\ at = [a \in Actors |-> IF a \in Tickers THEN "off"
                            ELSE IF a \in Admins THEN "idle"
                            ELSE IF key THEN "activate" ELSE "heartbeat"]
  /\ saw = [a \in Actors |-> "nothing"]
  /\ timer = [a \in Actors |-> 0]
  /\ starter = {}
  /\ missed = 0
  /\ unremoved = FALSE /\ inherited = FALSE

-----------------------------------------------------------------------------
(* What an actor does when its call is over.                               *)

Go(a, where) ==
  /\ at' = [at EXCEPT ![a] = where]
  /\ timer' = [timer EXCEPT ![a] = 0]
  /\ UNCHANGED <<loops, starter>>

\* A loop waits for its next tick on the channel of this moment.
Wait(a) ==
  /\ a \in Tickers
  /\ at' = [at EXCEPT ![a] = "select"]
  /\ doomed' = IF closed THEN doomed \cup {a} ELSE doomed
  /\ UNCHANGED <<timer, validationRunning, closed, starter>>

\* SetLicenseKey ends, and starts a loop if it saw none running.
Finish(a) ==
  \/ a \notin starter /\ Go(a, "idle")
  \/ /\ a \in starter
     /\ starter' = starter \ {a}
     /\ \E l \in Loops :
          /\ at[l] = "off"
          /\ at' = [at EXCEPT ![a] = "idle", ![l] = "select"]
          /\ timer' = [timer EXCEPT ![a] = 0, ![l] = 0]
          /\ doomed' = IF closed THEN doomed \cup {l} ELSE doomed
     /\ validationRunning' = TRUE
     /\ UNCHANGED closed

\* Start ends: the only place that starts the heartbeat loop.
Started ==
  /\ \E l \in Loops :
       at' = [at EXCEPT ![Boot] = "idle", ![Heart] = "select",
                        ![l] = IF key THEN "select" ELSE @]
  /\ timer' = [a \in Actors |-> 0]
  /\ validationRunning' = key
  /\ UNCHANGED <<closed, doomed, starter>>

\* SetLicenseKey tries a second heartbeat if the first brought no token.
Proceed(a) ==
  \/ Wait(a)
  \/ at[a] = "activate" /\ Go(a, "heartbeat")
  \/ /\ a \in Admins /\ at[a] = "heartbeat"
     /\ IF Fresh(token') THEN Finish(a) ELSE Go(a, "retry")
  \/ a \in Admins /\ at[a] = "retry" /\ Finish(a)
  \/ a \in Admins /\ at[a] = "report" /\ Go(a, "idle")
  \/ a = Boot /\ at[a] = "heartbeat" /\ Started

-----------------------------------------------------------------------------
(* Answers to activateLicense and validateLicense.                         *)

Asking(a) == at[a] \in {"activate", "validate"} /\ saw[a] = "nothing"

\* verifyKeyLocally: the key is read and judged, then what that says is applied.
Verdict ==
  IF ~verifies THEN "rejected" ELSE IF overdue = Never THEN "verified" ELSE "lapsed"

Unreachable(a) ==
  /\ "unreachable" \in Faults
  /\ Asking(a)
  /\ \/ ~key /\ Proceed(a) /\ UNCHANGED saw
     \/ key /\ saw' = [saw EXCEPT ![a] = Verdict] /\ UNCHANGED <<loops, at, timer, starter>>
  /\ UNCHANGED <<stored, licence, clocks, missed, history>>

\* The licence goes first, the entitlement next (ClearEntitlement); no grace period.
RejectKey(a) ==
  /\ saw[a] = "rejected"
  /\ license' = "free"
  /\ saw' = [saw EXCEPT ![a] = "refusal"]
  /\ UNCHANGED <<stored, entitlement, clocks, loops, at, timer, starter, missed, history>>

\* Mutant: the clock of a grace period that is over keeps running.
EndGrace_KeepsClock(a) ==
  /\ saw[a] = "verified"
  /\ inherited' = FALSE
  /\ saw' = [saw EXCEPT ![a] = "confirmed"]
  /\ UNCHANGED <<stored, licence, clocks, loops, at, timer, starter, missed, unremoved>>

EndGrace(a) ==
  /\ saw[a] = "verified"
  /\ grace' = Never /\ inherited' = FALSE
  /\ saw' = [saw EXCEPT ![a] = "confirmed"]
  /\ UNCHANGED <<stored, licence, token, overdue, loops, at, timer, starter, missed, unremoved>>

KeepLicence(a) ==
  /\ saw[a] = "confirmed"
  /\ license' = "paid"
  /\ saw' = [saw EXCEPT ![a] = "nothing"]
  /\ Proceed(a)
  /\ UNCHANGED <<stored, entitlement, clocks, missed, history>>

\* One critical section; the key may have been replaced since it was judged.
ContinueGrace(a) ==
  /\ saw[a] = "lapsed"
  /\ grace' = IF grace = Never THEN 0 ELSE grace
  /\ inherited' = (inherited \/ overdue = Never)
  /\ IF grace' >= GracePeriod
     THEN license' = "free" /\ entitlement' = FALSE
     ELSE UNCHANGED <<license, entitlement>>
  /\ saw' = [saw EXCEPT ![a] = "nothing"]
  /\ Proceed(a)
  /\ UNCHANGED <<stored, token, overdue, missed, unremoved>>

VerifyKeyLocally(a) == RejectKey(a) \/ EndGrace(a) \/ KeepLicence(a) \/ ContinueGrace(a)

\* "active" or "valid": updateLicenseFromResponse reads the licence first.
Granted(a) ==
  /\ Asking(a)
  /\ grace' = Never /\ inherited' = FALSE
  /\ saw' = [saw EXCEPT ![a] = license]
  /\ UNCHANGED <<stored, licence, token, overdue, loops, at, timer, starter, missed, unremoved>>

\* It writes the licence only where the answer differs from what was read; other
\* fields than the tier may differ.
Written_Stale(seen) == {seen}

Written(seen) == IF seen = "paid" THEN {"paid", license} ELSE {"paid"}

Apply(a) ==
  /\ saw[a] \in {"free", "paid"}
  /\ license' \in Written(saw[a])
  /\ entitlement' = TRUE
  /\ saw' = [saw EXCEPT ![a] = "nothing"]
  /\ Proceed(a)
  /\ UNCHANGED <<stored, clocks, missed, history>>

\* "revoked" or "expired": the licence first, then the entitlement.
Refused(a) ==
  /\ "refused" \in Faults
  /\ Asking(a)
  /\ license' = "free"
  /\ saw' = [saw EXCEPT ![a] = "refusal"]
  /\ UNCHANGED <<stored, entitlement, clocks, loops, at, timer, starter, missed, history>>

ClearEntitlement(a) ==
  /\ saw[a] = "refusal"
  /\ entitlement' = FALSE
  /\ saw' = [saw EXCEPT ![a] = "nothing"]
  /\ Proceed(a)
  /\ UNCHANGED <<stored, license, clocks, missed, history>>

\* "limit_reached", or a status the code does not know.  Fault "limit": also when a
\* key is entered.
Undecided(a) ==
  /\ a \in Admins => "limit" \in Faults
  /\ Asking(a)
  /\ Proceed(a)
  /\ UNCHANGED <<stored, licence, clocks, saw, missed, history>>

-----------------------------------------------------------------------------
(* Answers to sendHeartbeat.                                               *)

Beating(a) == at[a] \in {"heartbeat", "retry", "report"}

\* A heartbeat of the loop brings no token.
Miss(a) == IF a = Heart THEN missed < MaxMissed /\ missed' = missed + 1 ELSE UNCHANGED missed

HeartbeatFails(a) ==
  /\ "unreachable" \in Faults
  /\ Beating(a)
  /\ Miss(a)
  /\ UNCHANGED <<stored, licence, clocks, saw, history>>
  /\ Proceed(a)

\* Mutant: the time of the heartbeat is kept from the first one.
Refreshed_Once == IF token = Never THEN 0 ELSE token

Refreshed == 0

\* The token is stored only when the answer carries one.
Beat(a) ==
  /\ \/ token' = Refreshed /\ missed' = 0
     \/ UNCHANGED token /\ Miss(a)
  /\ Proceed(a)
  /\ UNCHANGED <<stored, grace, overdue, saw, history>>

HeartbeatAnswered(a) ==
  /\ Beating(a)
  /\ entitlement' \in {entitlement, TRUE}
  /\ UNCHANGED license
  /\ Beat(a)

\* The answer's action is "downgrade" or "kill"; Validator.killed, which a kill also
\* sets and only feature checks read, is left out.
HeartbeatDowngrades(a) ==
  /\ "downgrade" \in Faults
  /\ Beating(a)
  /\ license' = "free" /\ entitlement' = FALSE
  /\ Beat(a)

Answer(a) ==
  \/ Unreachable(a) \/ VerifyKeyLocally(a)
  \/ Granted(a) \/ Apply(a) \/ Refused(a) \/ ClearEntitlement(a) \/ Undecided(a)
  \/ HeartbeatFails(a) \/ HeartbeatAnswered(a) \/ HeartbeatDowngrades(a)

-----------------------------------------------------------------------------
(* The loops.                                                              *)

\* What a loop does with a tick: a validation loop without a key returns.
Ticked(a) == IF a = Heart THEN "heartbeat" ELSE IF key THEN "validate" ELSE "returning"

\* Mutant: a one-shot timer that the loop does not set again.
Fire_OneShot(a) ==
  /\ a \in Tickers /\ at[a] = "select" /\ timer[a] = Interval(a)
  /\ doomed' = doomed \ {a}
  /\ at' = [at EXCEPT ![a] = Ticked(a)]
  /\ UNCHANGED <<stored, licence, clocks, validationRunning, closed, saw, timer, starter, missed,
                 history>>

\* A tick is due.  select may prefer it to a closed channel.
Fire(a) ==
  /\ a \in Tickers /\ at[a] = "select" /\ timer[a] = Interval(a)
  /\ timer' = [timer EXCEPT ![a] = 0]
  /\ doomed' = doomed \ {a}
  /\ at' = [at EXCEPT ![a] = Ticked(a)]
  /\ UNCHANGED <<stored, licence, clocks, validationRunning, closed, saw, starter, missed, history>>

\* The loop finds its channel closed and returns.
Leave(a) ==
  /\ a \in doomed
  /\ doomed' = doomed \ {a}
  /\ at' = [at EXCEPT ![a] = IF a = Heart THEN "off" ELSE "returning"]
  /\ timer' = [timer EXCEPT ![a] = 0]
  /\ UNCHANGED <<stored, licence, clocks, validationRunning, closed, saw, starter, missed, history>>

\* The deferred function of validationLoop.
Return(l) ==
  /\ at[l] = "returning"
  /\ at' = [at EXCEPT ![l] = "off"]
  /\ validationRunning' = FALSE
  /\ UNCHANGED <<stored, licence, clocks, closed, doomed, saw, timer, starter, missed, history>>

-----------------------------------------------------------------------------
(* Requests.                                                               *)

\* Bound: without "midway", no request begins in the instant in which an answer is
\* applied.
CanRequest(a, r) ==
  /\ r \in Requests /\ at[a] = "idle" /\ at[Boot] = "idle"
  /\ "midway" \in Requests \/ \A b \in Actors : saw[b] = "nothing"

\* The date of a key is not read unless the key verifies.
Unverified == verifies' = FALSE /\ overdue' = Never

Verified == verifies' = TRUE /\ overdue' \in Never .. GracePeriod

\* SetLicenseKey, up to its first call, with the key already set or another, which may
\* have expired (Activate) or not verify (StartTrial).  Bound: Loops leaves room for
\* one more loop.
SetLicenseKey(a) ==
  /\ CanRequest(a, "set")
  /\ ~validationRunning => \E l \in Loops : at[l] = "off"
  /\ key' = TRUE
  /\ \/ key /\ UNCHANGED <<verifies, overdue, inherited>>
     \/ (Verified \/ Unverified) /\ inherited' = (grace # Never)
  /\ unremoved' = FALSE
  /\ at' = [at EXCEPT ![a] = "activate"]
  /\ starter' = IF validationRunning THEN starter \ {a} ELSE starter \cup {a}
  /\ UNCHANGED <<license, entitlement, token, grace, loops, saw, timer, missed>>

\* Deactivate with a key: Stop closes the channel and tells the license server.
Stop(a) ==
  /\ CanRequest(a, "deactivate")
  /\ key
  /\ closed' = TRUE
  /\ doomed' = doomed \cup {l \in Tickers : at[l] = "select"}
  /\ at' = [at EXCEPT ![a] = "stop"]
  /\ UNCHANGED <<stored, licence, clocks, validationRunning, saw, timer, starter, missed, history>>

\* Mutant: the flag of the loop that was stopped stays set.
Restart_KeepsRunning(a) ==
  /\ at[a] = "stop"
  /\ closed' = FALSE
  /\ at' = [at EXCEPT ![a] = "clear"]
  /\ timer' = [timer EXCEPT ![a] = 0]
  /\ UNCHANGED <<stored, licence, clocks, validationRunning, doomed, saw, starter, missed, history>>

Restart(a) ==
  /\ at[a] = "stop"
  /\ closed' = FALSE /\ validationRunning' = FALSE
  /\ at' = [at EXCEPT ![a] = "clear"]
  /\ timer' = [timer EXCEPT ![a] = 0]
  /\ UNCHANGED <<stored, licence, clocks, doomed, saw, starter, missed, history>>

\* ClearLicenseKey, also of a server without a key.
ClearLicenseKey(a) ==
  /\ at[a] = "clear" \/ (CanRequest(a, "deactivate") /\ ~key)
  /\ at' = [at EXCEPT ![a] = "idle"]
  /\ \/ /\ key' = FALSE /\ verifies' = FALSE /\ overdue' = Never
        /\ unremoved' = FALSE /\ inherited' = (grace # Never)
        /\ license' = "free" /\ entitlement' = FALSE
     \/ /\ "store_error" \in Faults
        /\ unremoved' = (unremoved \/ at[a] = "clear")
        /\ UNCHANGED <<stored, licence, overdue, inherited>>
  /\ UNCHANGED <<token, grace, loops, saw, timer, starter, missed>>

\* SendHeartbeat, when the first user was created: nobody can have entered a key.
SendHeartbeat(a) ==
  /\ CanRequest(a, "report")
  /\ ~key
  /\ Go(a, "report")
  /\ UNCHANGED <<stored, licence, clocks, saw, missed, history>>

Request(a) == SetLicenseKey(a) \/ Stop(a) \/ ClearLicenseKey(a) \/ SendHeartbeat(a)

-----------------------------------------------------------------------------
(* Time, expiry and restarts.                                              *)

\* Calls end within MaxLatency, ticks and closed channels are noticed and answers
\* applied at once.
Older(age, limit) == IF age = Never \/ age >= limit THEN age ELSE age + 1

Tick ==
  /\ doomed = {}
  /\ \A a \in Actors : /\ saw[a] = "nothing" /\ at[a] \notin {"clear", "returning"}
                       /\ at[a] \in Remote => timer[a] < MaxLatency
                       /\ at[a] = "select" => timer[a] < Interval(a)
  /\ timer' = [a \in Actors |-> IF at[a] \in Remote \cup {"select"} THEN timer[a] + 1 ELSE 0]
  /\ token' = Older(token, TokenValidity)
  /\ grace' = Older(grace, GracePeriod)
  /\ overdue' = Older(overdue, GracePeriod)
  /\ UNCHANGED <<stored, licence, loops, at, saw, starter, missed, history>>

\* The key passes its date; not one that is just being entered.
Expire ==
  /\ verifies /\ overdue = Never
  /\ \A a \in Admins \cup {Boot} : at[a] = "idle"
  /\ overdue' = 0
  /\ UNCHANGED <<stored, licence, token, grace, loops, at, saw, timer, starter, missed, history>>

\* The server dies, or stops after deactivating, and starts again; it fetches the
\* public key anew, and the key it loads may no longer verify, or do so again.
Crash ==
  /\ "crash" \in Faults
  /\ license' = "free" /\ entitlement' = FALSE
  /\ token' = Never /\ grace' = Never
  /\ validationRunning' = FALSE /\ closed' = FALSE /\ doomed' = {}
  /\ at' = [a \in Actors |-> IF a \in Tickers THEN "off"
                             ELSE IF a \in Admins THEN "idle"
                             ELSE IF key THEN "activate" ELSE "heartbeat"]
  /\ saw' = [a \in Actors |-> "nothing"]
  /\ timer' = [a \in Actors |-> 0]
  /\ starter' = {} /\ missed' = 0
  /\ unremoved' = FALSE /\ inherited' = FALSE
  /\ UNCHANGED key
  /\ \/ UNCHANGED <<verifies, overdue>>
     \/ key /\ ~verifies /\ Verified
     \/ verifies /\ Unverified

\* What an actor that is not idle will do.
Step(a) ==
  /\ at[a] \notin {"idle", "off"}
  /\ \/ Answer(a) \/ Fire(a) \/ Leave(a) \/ Return(a)
     \/ a \in Admins /\ (Restart(a) \/ (at[a] = "clear" /\ ClearLicenseKey(a)))

Next ==
  \/ \E a \in Actors : Step(a)
  \/ \E a \in Admins : Request(a)
  \/ Tick \/ Expire \/ Crash

Spec == Init /\ [][Next]_vars

\* The server does not stop of its own accord: goroutines run and time goes on.  No
\* call lasts longer than MaxLatency, so nobody is left behind.
Fairness == WF_vars(Tick \/ \E a \in Actors : Step(a))

FairSpec == Spec /\ Fairness

-----------------------------------------------------------------------------
(* Properties.                                                             *)

Stages == Remote \cup {"off", "idle", "select", "returning", "clear"}

Findings == {"nothing", "free", "paid", "refusal", "rejected", "verified", "confirmed", "lapsed"}

\* Type invariant.  A clock never passes the limit of what it measures.
TypeOK ==
  /\ key \in BOOLEAN /\ verifies \in BOOLEAN
  /\ license \in {"free", "paid"} /\ entitlement \in BOOLEAN
  /\ token \in Never .. TokenValidity
  /\ grace \in Never .. GracePeriod /\ overdue \in Never .. GracePeriod
  /\ validationRunning \in BOOLEAN /\ closed \in BOOLEAN
  /\ doomed \subseteq Tickers
  /\ at \in [Actors -> Stages]
  /\ saw \in [Actors -> Findings]
  /\ timer \in [Actors -> Nat]
  /\ \A a \in Actors : /\ at[a] \in Remote => timer[a] <= MaxLatency
                       /\ at[a] = "select" => timer[a] <= Interval(a)
  /\ starter \subseteq Admins
  /\ missed \in 0 .. MaxMissed
  /\ unremoved \in BOOLEAN /\ inherited \in BOOLEAN

Quiet == \A a \in Admins \cup {Boot} : at[a] = "idle"

\* A loop that will validate the key, and that nobody has told to stop.
Live == \E l \in Loops : at[l] \in {"select", "validate"} /\ l \notin doomed

\* A key in force is validated by some loop, whatever loops were stopped, survived a
\* stop or ended late, unless the database refused to give up the key of a server
\* whose loops had been stopped (SetLicenseKey, Restart, validationLoop).
SomeoneValidates == key /\ Quiet /\ ~unremoved => Live

\* While the heartbeat loop lives, a refresh token that was obtained does not expire,
\* as long as the heartbeats since then that brought none, and the time the next answer
\* takes, fit into its validity (HasValidRefreshToken, HeartbeatInterval).
TokenStaysFresh ==
  /\ at[Heart] # "off" /\ token # Never
  /\ (missed + 1) * HeartbeatInterval + MaxLatency < TokenValidity
  => Fresh(token)

\* A paid licence becomes free only because the license server said so, the key does
\* not verify, an administrator removed it, the server restarted, or the key has been
\* expired for the whole grace period; the grace period of an earlier key is not
\* counted once the key in force was granted or verified (GracePeriod).
NoEarlyDowngrade ==
  [][license = "paid" /\ license' = "free" =>
       \/ \E a \in Actors : Refused(a) \/ HeartbeatDowngrades(a) \/ RejectKey(a)
       \/ \E a \in Admins : ClearLicenseKey(a)
       \/ Crash
       \/ overdue >= GracePeriod
       \/ inherited]_vars

\* The license server cannot be reached, does not grant the licence, or something
\* takes the licence away.
Disturbance ==
  \/ \E a \in {b \in Actors : at[b] \in Remote} :
       \/ Unreachable(a) \/ Refused(a) \/ Undecided(a)
       \/ HeartbeatFails(a) \/ HeartbeatDowngrades(a)
  \/ \E a \in Admins : Stop(a)
  \/ Crash

\* Once the license server is back and grants the licence, a server with a key that
\* is being validated comes to hold both the licence and the entitlement for good,
\* whatever happened before and however late old answers are applied.
LicenceRecovers ==
  <>[][~Disturbance]_vars => <>[](key /\ ~unremoved => license = "paid" /\ entitlement)

\* validator.go:145: the validity of a token allows one missed heartbeat.
OneMissedIsAllowed == at[Heart] # "off" /\ token # Never /\ missed <= 1 => Fresh(token)

\* validator.go:249: removing the key reverts to the free tier.
RemovedIsFree == ~key /\ Quiet => license = "free"

\* SomeoneValidates without its exception.
KeyIsValidated == key /\ Quiet => Live

\* NoEarlyDowngrade without the exception of an earlier key's grace period.
WholeGracePeriod ==
  [][license = "paid" /\ license' = "free" /\ (\E a \in Actors : ContinueGrace(a))
       => overdue >= GracePeriod]_vars

\* docs/heartbeat-testing.md: a heartbeat every six hours on every server.
HeartbeatsContinue == Quiet => at[Heart] # "off" /\ Heart \notin doomed

\* docs/heartbeat-testing.md: all features continue during the grace period.
FeaturesContinueInGrace ==
  license = "paid" /\ grace # Never /\ grace < GracePeriod /\ Quiet => Fresh(token)
=============================================================================
