--------------------------- MODULE LoginThrottle ----------------------------
(***************************************************************************)
(* The throttle of POST /auth/login/: a counter of failed attempts per     *)
(* client address, read before the password is checked and written after.  *)
(***************************************************************************)
EXTENDS RedisCounter, FiniteSets

CONSTANTS
  LoginWorker,  \* threads that serve login requests
  Ident         \* client addresses

ASSUME LoginThrottleAssumption == IsFiniteSet(LoginWorker)

VARIABLES
  attempts,  \* per address: the counter of failed attempts
  login,     \* per worker: the request it serves
  lasting,   \* addresses whose counter has no timeout
  recorded   \* history: the failures recorded since the key was created

counterVars == <<attempts, lasting, recorded>>
throttleVars == <<attempts, login, lasting, recorded>>

LoginStep == {"view", "password", "add", "exists", "incr", "reset"}
Login == [ident : Ident, step : LoginStep]

LTInit ==
  /\ attempts = [i \in Ident |-> None]
  /\ login = [w \in LoginWorker |-> None]
  /\ lasting = {}
  /\ recorded = [i \in Ident |-> 0]

-----------------------------------------------------------------------------
Limit == 5

Failures(i) == Tally(attempts[i])

\* Slips of the operators below, for the mutants of the checks.
AllowsOneMore(i) == Failures(i) <= Limit
CountsFromNothing(i) == 0
OverwritesCounter(i) == TRUE

\* allow_request
Allowed(i) == Failures(i) < Limit

\* The value that cache.add gives the counter.
FirstCount(i) == 1

\* cache.add succeeds.
Adds(i) == Absent(attempts[i])

Serving(w, step) == login[w] # None /\ login[w].step = step

Goto(w, step) == login' = [login EXCEPT ![w].step = step]

Finish(w) == login' = [login EXCEPT ![w] = None]

\* The framework asks the throttle before it calls the view.  A request that
\* is not allowed ends without a trace.
CheckThrottles(w, i) ==
  /\ login[w] = None
  /\ Allowed(i)
  /\ login' = [login EXCEPT ![w] = [ident |-> i, step |-> "view"]]
  /\ UNCHANGED counterVars

\* The view asks again.
AllowRequest(w) ==
  /\ Serving(w, "view")
  /\ Allowed(login[w].ident)
  /\ Goto(w, "password")
  /\ UNCHANGED counterVars

\* login_user, with the right or a wrong password.
CheckPassword(w) ==
  /\ Serving(w, "password")
  /\ \E step \in {"add", "reset"} : Goto(w, step)
  /\ UNCHANGED counterVars

\* increment: cache.add, and if the key is there already, cache.incr.
AddFailure(w) ==
  LET i == login[w].ident IN
  /\ Serving(w, "add")
  /\ IF Adds(i)
     THEN /\ attempts' = [attempts EXCEPT ![i] = FirstCount(i)]
          /\ recorded' = [recorded EXCEPT ![i] = @ + 1]
          /\ Finish(w)
          /\ UNCHANGED lasting
     ELSE Goto(w, "exists") /\ UNCHANGED counterVars

FindCounter(w) ==
  /\ Serving(w, "exists")
  /\ ~Absent(attempts[login[w].ident])
  /\ Goto(w, "incr")
  /\ UNCHANGED counterVars

IncrFailures(w) ==
  LET i == login[w].ident IN
  /\ Serving(w, "incr")
  /\ attempts' = [attempts EXCEPT ![i] = Tally(@) + 1]
  /\ lasting' = IF Absent(attempts[i]) THEN lasting \cup {i} ELSE lasting
  /\ recorded' = [recorded EXCEPT ![i] = @ + 1]
  /\ Finish(w)

Forget(i) ==
  /\ attempts' = [attempts EXCEPT ![i] = None]
  /\ lasting' = lasting \ {i}
  /\ recorded' = [recorded EXCEPT ![i] = 0]

ResetFailures(w) ==
  /\ Serving(w, "reset")
  /\ Forget(login[w].ident)
  /\ Finish(w)

\* The request is refused by the view, incr finds no key, or the worker dies.
EndRequest(w) ==
  /\ login[w] # None
  /\ Finish(w)
  /\ UNCHANGED counterVars

-----------------------------------------------------------------------------
\* 900 seconds after the failure that cache.add has counted.
ExpireFailures(i) ==
  /\ ~Absent(attempts[i])
  /\ i \notin lasting
  /\ Forget(i)
  /\ UNCHANGED login

LoseFailures ==
  /\ attempts' = [i \in Ident |-> None]
  /\ lasting' = {}
  /\ recorded' = [i \in Ident |-> 0]
  /\ UNCHANGED login

ServeLogins ==
  \/ \E w \in LoginWorker : \/ \E i \in Ident : CheckThrottles(w, i)
                            \/ AllowRequest(w) \/ CheckPassword(w)
                            \/ AddFailure(w) \/ FindCounter(w) \/ IncrFailures(w)
                            \/ ResetFailures(w) \/ EndRequest(w)
  \/ \E i \in Ident : ExpireFailures(i)

LTNext == ServeLogins \/ LoseFailures

LTSpec == LTInit /\ [][LTNext]_throttleVars

-----------------------------------------------------------------------------
(***************************************************************************)
(* Every variable has its type; a counter that exists is not zero, and one *)
(* without a timeout exists.                                               *)
(***************************************************************************)
LTTypeOK ==
  /\ attempts \in [Ident -> Counter]
  /\ login \in [LoginWorker -> Login \cup {None}]
  /\ recorded \in [Ident -> Nat]
  /\ lasting \subseteq Ident
  /\ \A i \in Ident : attempts[i] # 0
  /\ \A i \in lasting : ~Absent(attempts[i])

(***************************************************************************)
(* The counter holds every failure recorded since it was created: of two   *)
(* that find no counter and race to create it, neither is forgotten.       *)
(***************************************************************************)
FailuresCounted == \A i \in Ident : Failures(i) = recorded[i]

\* Requests that were let through and may still record a failure.
LetThrough(i) ==
  {w \in LoginWorker : /\ login[w] # None
                       /\ login[w].ident = i
                       /\ login[w].step \in {"password", "add", "exists", "incr"}}

(***************************************************************************)
(* Checking and counting are separate commands, so attempts under way are  *)
(* not counted yet: the limit of five is exceeded by at most the other     *)
(* workers.  An address never records more failures than that without a    *)
(* success, a timeout or a loss of the key in between.                     *)
(***************************************************************************)
AttemptsBounded ==
  \A i \in Ident : Failures(i) <= Limit - 1 + Cardinality(LoginWorker)

=============================================================================
