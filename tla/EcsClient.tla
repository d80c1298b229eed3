----------------------------- MODULE EcsClient -----------------------------
(***************************************************************************)
(* One ClusterClient (internal/ecsclient): the goroutines that issue       *)
(* management calls through it, the cached session token, the login lock,  *)
(* the appliance's table of live sessions, and the Close that logs out.    *)
(*                                                                         *)
(* Get and Post are one operation here, call(): they differ in method and  *)
(* body only.  Session tokens are numbered in the order the appliance      *)
(* grants them; 0 is the empty string.  An HTTP exchange is one step, the  *)
(* moment the appliance decides the answer: what the caller does with it   *)
(* is its next step, so an answer may be acted on arbitrarily late.        *)
(***************************************************************************)
EXTENDS Integers, FiniteSets

CONSTANTS
    Callers,           \* the goroutines that collect from this cluster
    MaxCalls,          \* bound: calls they make together
    MaxLogins,         \* bound: sessions the appliance grants
    MaxExpiries,       \* bound: sessions it expires
    MaxLost            \* bound: login or logout exchanges the network loses

ASSUME CallersAssumption == Callers # {} /\ IsFiniteSet(Callers) /\ 0 \notin Callers
ASSUME BoundsAssumption ==
    /\ MaxCalls \in Nat
    /\ MaxLogins \in Nat
    /\ MaxExpiries \in Nat
    /\ MaxLost \in Nat

VARIABLES
    token,      \* c.token
    loginMu,    \* holder of c.loginMu, or NoHolder
    pc,         \* where each caller stands in call() / ensureToken() / do()
    hand,       \* the token a caller carries: its login's answer, then its header
    tries,      \* resty retries spent on the request in flight
    second,     \* TRUE once the call has used its one re-login
    result,     \* how the caller's last call ended
    calls,      \* calls started so far
    users,      \* history: the callers that have made a call
    ctxDone,    \* the collection context is cancelled for good
    closer,     \* where Close() stands
    closeHdr,   \* the token Close() put in its logout header
    apart,      \* history: no call has overlapped Close() so far
    sessions,   \* appliance: sessions alive
    issued,     \* appliance: sessions granted so far
    expiries,   \* appliance: sessions expired so far
    lost        \* history: sessions whose login or logout exchange the network lost

usage == <<calls, users>>
callVars == <<pc, hand, tries, second, result, usage>>
closeVars == <<closer, closeHdr, apart>>
envVars == <<sessions, issued, expiries, lost>>
vars == <<token, loginMu, callVars, ctxDone, closeVars, envVars>>

NoToken == 0
NoHolder == 0
RetryCount == 2      \* rc.SetRetryCount(2)

(* "check" and "lock" are ensureToken before loginMu is held; LoginSection *)
(* is ensureToken under loginMu; the rest is call() and do().              *)
LoginSection == {"recheck", "login", "store", "unlock"}
CallPc == {"rest", "check", "lock", "prepare", "send", "clear"} \cup LoginSection
ClosePc == {"off", "check", "read", "logout", "clear", "closed"}
Results == {"none", "ok", "refused", "unauthorized", "failed"}

Goto(c, there) == pc' = [pc EXCEPT ![c] = there]

(* The call returns: nil for "ok", an error for everything else. *)
Return(c, how) ==
    /\ Goto(c, "rest")
    /\ result' = [result EXCEPT ![c] = how]

Init ==
    /\ token = NoToken
    /\ loginMu = NoHolder
    /\ pc = [c \in Callers |-> "rest"]
    /\ hand = [c \in Callers |-> NoToken]
    /\ tries = [c \in Callers |-> 0]
    /\ second = [c \in Callers |-> FALSE]
    /\ result = [c \in Callers |-> "none"]
    /\ calls = 0
    /\ users = {}
    /\ ctxDone = FALSE
    /\ closer = "off"
    /\ closeHdr = NoToken
    /\ apart = TRUE
    /\ sessions = {}
    /\ issued = 0
    /\ expiries = 0
    /\ lost = {}

-----------------------------------------------------------------------------
(* call() and ensureToken() *)

(* Only a cycle under a cancelled context still calls once Close began. *)
StartCall(c) ==
    /\ pc[c] = "rest"
    /\ calls < MaxCalls
    /\ closer = "off" \/ ctxDone
    /\ apart' = (apart /\ closer = "off")
    /\ calls' = calls + 1
    /\ users' = users \cup {c}
    /\ second' = [second EXCEPT ![c] = FALSE]
    /\ result' = [result EXCEPT ![c] = "none"]
    /\ Goto(c, "check")
    /\ UNCHANGED <<token, loginMu, hand, tries, ctxDone, closer, closeHdr, envVars>>

(* The unlocked look at the cache: a hit skips the lock. *)
FastCheck(c) ==
    /\ pc[c] = "check"
    /\ Goto(c, IF token # NoToken THEN "prepare" ELSE "lock")
    /\ UNCHANGED <<token, loginMu, hand, tries, second, result, usage,
                   ctxDone, closeVars, envVars>>

(* Fault: the lock does not exclude. *)
NoMutex == TRUE

LoginFree == loginMu = NoHolder

LockLogin(c) ==
    /\ pc[c] = "lock"
    /\ LoginFree
    /\ loginMu' = c
    /\ Goto(c, "recheck")
    /\ UNCHANGED <<token, hand, tries, second, result, usage,
                   ctxDone, closeVars, envVars>>

(* Fault: no second look at the cache. *)
LoginAnyway == "login"

(* The second look, under loginMu: somebody may have logged in meanwhile. *)
AfterRecheck == IF token # NoToken THEN "unlock" ELSE "login"

Recheck(c) ==
    /\ pc[c] = "recheck"
    /\ Goto(c, AfterRecheck)
    /\ tries' = [tries EXCEPT ![c] = 0]
    /\ UNCHANGED <<token, loginMu, hand, second, result, usage,
                   ctxDone, closeVars, envVars>>

(* A request that ended without a usable answer: resty sends it again      *)
(* while it has retries left, unless the context ended.                    *)
RetryRequest(c) ==
    /\ ~ctxDone
    /\ tries[c] < RetryCount
    /\ tries' = [tries EXCEPT ![c] = @ + 1]

LoginGranted(c) ==
    /\ pc[c] = "login"
    /\ ~ctxDone
    /\ issued < MaxLogins
    /\ issued' = issued + 1
    /\ sessions' = sessions \cup {issued + 1}
    /\ hand' = [hand EXCEPT ![c] = issued + 1]
    /\ Goto(c, "store")
    /\ UNCHANGED <<token, loginMu, tries, second, result, usage,
                   ctxDone, closeVars, expiries, lost>>

(* The appliance opened a session and its answer, or the token header in   *)
(* it, never arrived: resty logs in again or ensureToken gives up.         *)
LoginLost(c) ==
    /\ pc[c] = "login"
    /\ ~ctxDone
    /\ issued < MaxLogins /\ Cardinality(lost) < MaxLost
    /\ issued' = issued + 1
    /\ lost' = lost \cup {issued + 1}
    /\ sessions' = sessions \cup {issued + 1}
    /\ \/ RetryRequest(c) /\ UNCHANGED <<pc, result>>
       \/ /\ Goto(c, "unlock")
          /\ result' = [result EXCEPT ![c] = "failed"]
          /\ UNCHANGED tries
    /\ UNCHANGED <<token, loginMu, hand, second, usage,
                   ctxDone, closeVars, expiries>>

(* No session was opened: a transport error or transient 5xx (retried), a  *)
(* 4xx, a permanent 5xx, a context that ended.                             *)
LoginFails(c) ==
    /\ pc[c] = "login"
    /\ \/ RetryRequest(c) /\ UNCHANGED <<pc, result>>
       \/ /\ Goto(c, "unlock")
          /\ result' = [result EXCEPT ![c] = "failed"]
          /\ UNCHANGED tries
    /\ UNCHANGED <<token, loginMu, hand, second, usage,
                   ctxDone, closeVars, envVars>>

StoreToken(c) ==
    /\ pc[c] = "store"
    /\ token' = hand[c]
    /\ Goto(c, "unlock")
    /\ UNCHANGED <<loginMu, hand, tries, second, result, usage,
                   ctxDone, closeVars, envVars>>

(* Fault: an early return skips the Unlock. *)
UnlockOnSuccess(c) == IF result[c] = "failed" THEN loginMu ELSE NoHolder

Unlocked(c) == NoHolder

(* The deferred loginMu.Unlock: an error leaves call(), success goes on. *)
UnlockLogin(c) ==
    /\ pc[c] = "unlock"
    /\ loginMu' = Unlocked(c)
    /\ Goto(c, IF result[c] = "failed" THEN "rest" ELSE "prepare")
    /\ UNCHANGED <<token, hand, tries, second, result, usage,
                   ctxDone, closeVars, envVars>>

-----------------------------------------------------------------------------
(* do() and the handling of its answer *)

(* do() reads the cache again: nothing ties this read to the token that    *)
(* ensureToken saw or stored.                                              *)
Prepare(c) ==
    /\ pc[c] = "prepare"
    /\ hand' = [hand EXCEPT ![c] = token]
    /\ tries' = [tries EXCEPT ![c] = 0]
    /\ Goto(c, "send")
    /\ UNCHANGED <<token, loginMu, second, result, usage,
                   ctxDone, closeVars, envVars>>

Answered(c) ==
    /\ pc[c] = "send"
    /\ ~ctxDone
    /\ hand[c] \in sessions
    /\ \E how \in {"ok", "refused"} : Return(c, how)
    /\ UNCHANGED <<token, loginMu, hand, tries, second, usage,
                   ctxDone, closeVars, envVars>>

(* Fault: no re-login. *)
FirstIsFinal(c) == TRUE

(* 401: the first one is spent on a re-login, the second is the call's end. *)
IsFinal(c) == second[c]

Unauthorized(c) ==
    /\ pc[c] = "send"
    /\ ~ctxDone
    /\ hand[c] \notin sessions
    /\ IF IsFinal(c) THEN Return(c, "unauthorized")
                     ELSE Goto(c, "clear") /\ UNCHANGED result
    /\ UNCHANGED <<token, loginMu, hand, tries, second, usage,
                   ctxDone, closeVars, envVars>>

SendFails(c) ==
    /\ pc[c] = "send"
    /\ \/ RetryRequest(c) /\ UNCHANGED <<pc, result>>
       \/ Return(c, "failed") /\ UNCHANGED tries
    /\ UNCHANGED <<token, loginMu, hand, second, usage,
                   ctxDone, closeVars, envVars>>

(* clearToken() drops whatever is cached, not the token that was refused. *)
ClearToken(c) ==
    /\ pc[c] = "clear"
    /\ token' = NoToken
    /\ second' = [second EXCEPT ![c] = TRUE]
    /\ Goto(c, "check")
    /\ UNCHANGED <<loginMu, hand, tries, result, usage,
                   ctxDone, closeVars, envVars>>

-----------------------------------------------------------------------------
(* Close(), the context and the appliance *)

Cancel ==
    /\ ~ctxDone
    /\ ctxDone' = TRUE
    /\ UNCHANGED <<token, loginMu, callVars, closeVars, envVars>>

AllAtRest == \A c \in Callers : pc[c] = "rest"

(* The runner joins its loop before closeTargets; a stop() that overlaps   *)
(* an apply() closes clients a cancelled cycle is still using.             *)
BeginClose ==
    /\ closer = "off"
    /\ AllAtRest \/ ctxDone
    /\ apart' = (apart /\ AllAtRest)
    /\ closer' = "check"
    /\ UNCHANGED <<token, loginMu, callVars, ctxDone, closeHdr, envVars>>

CloseCheck ==
    /\ closer = "check"
    /\ closer' = IF token = NoToken THEN "closed" ELSE "read"
    /\ UNCHANGED <<token, loginMu, callVars, ctxDone, closeHdr, apart, envVars>>

(* Fault: the cache is cleared before the header is filled. *)
EmptyHeader == NoToken

LogoutHeader == token

CloseRead ==
    /\ closer = "read"
    /\ closeHdr' = LogoutHeader
    /\ closer' = "logout"
    /\ UNCHANGED <<token, loginMu, callVars, ctxDone, apart, envVars>>

(* Best effort: the error of a logout that never got through is dropped. *)
Logout ==
    /\ closer = "logout"
    /\ closer' = "clear"
    /\ \/ sessions' = sessions \ {closeHdr} /\ UNCHANGED lost
       \/ Cardinality(lost) < MaxLost /\ lost' = lost \cup {closeHdr} /\ UNCHANGED sessions
    /\ UNCHANGED <<token, loginMu, callVars, ctxDone, closeHdr, apart, issued, expiries>>

CloseClear ==
    /\ closer = "clear"
    /\ token' = NoToken
    /\ closer' = "closed"
    /\ UNCHANGED <<loginMu, callVars, ctxDone, closeHdr, apart, envVars>>

(* The appliance ends a session: idle timeout or absolute lifetime. *)
Expire ==
    /\ expiries < MaxExpiries
    /\ \E t \in sessions : sessions' = sessions \ {t}
    /\ expiries' = expiries + 1
    /\ UNCHANGED <<token, loginMu, callVars, ctxDone, closeVars, issued, lost>>

-----------------------------------------------------------------------------

EnsureStep(c) ==
    \/ FastCheck(c) \/ Recheck(c) \/ StoreToken(c) \/ UnlockLogin(c)
    \/ LoginGranted(c) \/ LoginLost(c) \/ LoginFails(c)

DoStep(c) ==
    \/ Prepare(c) \/ Answered(c) \/ Unauthorized(c) \/ SendFails(c) \/ ClearToken(c)

CloseStep == CloseCheck \/ CloseRead \/ Logout \/ CloseClear

Next ==
    \/ \E c \in Callers :
          \/ StartCall(c) \/ LockLogin(c) \/ EnsureStep(c) \/ DoStep(c)
    \/ Cancel \/ BeginClose \/ CloseStep \/ Expire

(* Nothing obliges a collector to start a call, the operator to stop, or   *)
(* the appliance to expire a session.  A goroutine inside a call runs on:  *)
(* its requests end because the collection context has a deadline.  A      *)
(* sync.Mutex hands itself to a waiter it has starved for 1 ms, hence the  *)
(* strong fairness of LockLogin.  That a logout ends is an assumption on   *)
(* the appliance: Close sets no deadline.                                  *)
Fairness ==
    /\ \A c \in Callers :
          /\ WF_vars(EnsureStep(c))
          /\ WF_vars(DoStep(c))
          /\ SF_vars(LockLogin(c))
    /\ WF_vars(CloseStep)

Spec == Init /\ [][Next]_vars
FairSpec == Spec /\ Fairness

-----------------------------------------------------------------------------
(* Properties *)

(* Types of the variables. *)
TypeOK ==
    /\ token \in Nat
    /\ loginMu \in Callers \cup {NoHolder}
    /\ pc \in [Callers -> CallPc]
    /\ hand \in [Callers -> Nat]
    /\ tries \in [Callers -> 0 .. RetryCount]
    /\ second \in [Callers -> BOOLEAN]
    /\ result \in [Callers -> Results]
    /\ calls \in Nat /\ users \subseteq Callers
    /\ ctxDone \in BOOLEAN
    /\ closer \in ClosePc
    /\ closeHdr \in Nat
    /\ apart \in BOOLEAN
    /\ sessions \subseteq 1 .. issued
    /\ issued \in Nat
    /\ expiries \in Nat
    /\ lost \subseteq Nat

(* auth.go:18-23: one login at a time, only while no token is cached, so   *)
(* that the store at its end overwrites nothing.  Concurrent 401s, expiry  *)
(* and Close may empty the cache at any point of it.                       *)
SingleFlight ==
    \A c \in Callers : pc[c] \in {"login", "store"} =>
        /\ token = NoToken
        /\ \A d \in Callers \ {c} : pc[d] \notin LoginSection

(* What makes SingleFlight inductive: loginMu is held exactly by a caller  *)
(* inside ensureToken's locked part, and the token about to be stored is   *)
(* the last one granted.                                                   *)
FlightInv ==
    \A c \in Callers :
        /\ pc[c] \in LoginSection <=> loginMu = c
        /\ pc[c] \in {"login", "store"} => token = NoToken
        /\ pc[c] = "store" => hand[c] = issued /\ issued > 0

(* Sessions nobody will ever log out and the network cannot be blamed for: *)
(* alive at the appliance, neither cached nor in the hands of the login    *)
(* about to store them.                                                    *)
Storing == {c \in Callers : pc[c] = "store"}
Orphans == sessions \ ({token} \cup {hand[c] : c \in Storing} \cup lost)

OneCaller == \A c, d \in users : c = d

(* The timing under which the client keeps its accounts: Close waits for   *)
(* the calls, and either no session expires or one goroutine alone calls.  *)
Orderly == apart /\ (expiries = 0 \/ OneCaller)

(* auth.go:18-23, ADR-0004: no session is leaked, unless an expiry meets   *)
(* several concurrent callers.  A login whose answer is lost is retried    *)
(* and leaves the session behind that it opened: that one and no other.    *)
NoOrphan == Orderly => Orphans = {}

(* auth.go:55-57: "every client must release its token on shutdown".       *)
(* Under the same timing, after Close no session of this client is alive   *)
(* but those whose login or logout was lost on the way, and no token is    *)
(* cached that a later call could use.                                     *)
CloseReleasesAll ==
    (closer = "closed" /\ Orderly) => sessions \subseteq lost /\ token = NoToken

(* What makes NoOrphan and CloseReleasesAll inductive.  A request carries  *)
(* the cached token, so a 401 clears the token it refused; that token is   *)
(* dead.  Before any expiry the cached token is alive and nobody sends     *)
(* without it.  Close works on the token it checked.                       *)
Books ==
    /\ Orphans = {}
    /\ \A c \in Callers :
          /\ pc[c] # "rest" => c \in users
          /\ pc[c] \in {"send", "clear"} => hand[c] = token
          /\ pc[c] = "clear" => expiries > 0 /\ token \notin sessions
          /\ expiries = 0 /\ (pc[c] \in {"prepare", "send"}
                             \/ (pc[c] = "unlock" /\ result[c] # "failed"))
                => token # NoToken
          /\ expiries = 0 /\ pc[c] = "store" => hand[c] \in sessions
    /\ expiries = 0 /\ closer # "clear" => token \in sessions \cup {NoToken}
    /\ closer # "off" => AllAtRest
    /\ closer \in {"logout", "clear"} => closeHdr = token
    /\ closer = "clear" => sessions \subseteq lost
    /\ closer = "closed" => sessions \subseteq lost /\ token = NoToken

AccountInv == Orderly => Books

(* ADR-0004: "An expired token costs one extra round-trip on the first     *)
(* call after expiry": one expiry fails no call of a client that a single  *)
(* goroutine uses.  (With several, one may clear the token another has     *)
(* just obtained, and the second 401 is final.)                            *)
ExpiryCostsNoCall ==
    (expiries <= 1 /\ OneCaller) => \A c \in Callers : result[c] # "unauthorized"

(* What makes ExpiryCostsNoCall inductive.  Until the context ends, Close  *)
(* works alone.  The cached token is alive before the one expiry, and once *)
(* more in the second attempt of the call that met it; a request carries   *)
(* that token.                                                             *)
Renewed ==
    /\ closer # "off" => AllAtRest
    /\ expiries = 0 /\ closer = "off" => token \in sessions \cup {NoToken}
    /\ \A c \in Callers : pc[c] # "rest" =>
          /\ c \in users
          /\ second[c] => expiries > 0
          /\ pc[c] \in {"send", "clear"} => hand[c] = token
          /\ expiries = 0 \/ second[c] =>
                /\ pc[c] # "clear"
                /\ token \in sessions \cup {NoToken}
                /\ pc[c] \in {"prepare", "send"} \/ (pc[c] = "unlock" /\ result[c] # "failed")
                      => token # NoToken
                /\ pc[c] = "store" => hand[c] \in sessions

RenewInv == (expiries <= 1 /\ OneCaller /\ ~ctxDone) => Renewed

(* ADR-0004: "The exporter holds exactly one token per cluster at steady   *)
(* state": with no exchange lost and no call in flight, at most one        *)
(* session is alive.                                                       *)
HoldsOneToken == (lost = {} /\ AllAtRest) => Cardinality(sessions) <= 1

(* The login lock, the retries and the single re-login never strand a      *)
(* caller: every call it starts returns.                                   *)
CallReturns == \A c \in Callers : pc[c] = "check" ~> pc[c] = "rest"

(* The client implements TokenCell: the cache, the login under loginMu and *)
(* the appliance's grants, seen as one cell.                               *)
Phase ==
    IF token # NoToken THEN "held"
    ELSE IF \E c \in Callers : pc[c] \in {"login", "store"} THEN "login"
    ELSE "empty"

Cell == INSTANCE TokenCell WITH phase <- Phase, cached <- token, granted <- issued

ImplementsCell == Cell!CellSpec

=============================================================================
