-------------------------- MODULE EcsClient_proofs --------------------------
(***************************************************************************)
(* Proofs about EcsClient, for any number of callers and any bounds.       *)
(***************************************************************************)
EXTENDS EcsClient, TLAPS

USE DEF NoToken, NoHolder, RetryCount, usage, LoginFree, AfterRecheck, Unlocked,
        IsFinal, LogoutHeader

(* Every action, as a disjunction the case splits below can use. *)
LEMMA StepCases ==
    ASSUME Next
    PROVE  \/ \E c \in Callers :
                \/ StartCall(c) \/ LockLogin(c) \/ FastCheck(c) \/ Recheck(c)
                \/ StoreToken(c) \/ UnlockLogin(c) \/ LoginGranted(c)
                \/ LoginLost(c) \/ LoginFails(c) \/ Prepare(c) \/ Answered(c)
                \/ Unauthorized(c) \/ SendFails(c) \/ ClearToken(c)
           \/ Cancel \/ BeginClose \/ CloseCheck \/ CloseRead \/ Logout
           \/ CloseClear \/ Expire
BY DEF Next, EnsureStep, DoStep, CloseStep

-----------------------------------------------------------------------------
(* Types *)

(* The type invariant holds initially. *)
LEMMA TypeInit == Init => TypeOK
<1> SUFFICES ASSUME Init PROVE TypeOK
  OBVIOUS
<1>1. "rest" \in CallPc /\ "none" \in Results /\ "off" \in ClosePc
  BY DEF CallPc, Results, ClosePc
<1>2. 0 \in 0 .. RetryCount
  OBVIOUS
<1>3. QED
  BY <1>1, <1>2 DEF Init, TypeOK

(* Every step keeps the type invariant. *)
LEMMA TypeStep == TypeOK /\ [Next]_vars => TypeOK'
<1> SUFFICES ASSUME TypeOK, [Next]_vars PROVE TypeOK'
  OBVIOUS
<1> USE DEF TypeOK, CallPc, ClosePc, Results, LoginSection
<1>1. ASSUME NEW c \in Callers, StartCall(c) PROVE TypeOK'
  BY <1>1 DEF StartCall, Goto, closeVars, envVars
<1>2. ASSUME NEW c \in Callers, LockLogin(c) PROVE TypeOK'
  BY <1>2 DEF LockLogin, Goto, closeVars, envVars
<1>3. ASSUME NEW c \in Callers, FastCheck(c) PROVE TypeOK'
  BY <1>3 DEF FastCheck, Goto, closeVars, envVars
<1>4. ASSUME NEW c \in Callers, Recheck(c) PROVE TypeOK'
  BY <1>4 DEF Recheck, Goto, closeVars, envVars
<1>5. ASSUME NEW c \in Callers, StoreToken(c) PROVE TypeOK'
  BY <1>5 DEF StoreToken, Goto, closeVars, envVars
<1>6. ASSUME NEW c \in Callers, UnlockLogin(c) PROVE TypeOK'
  BY <1>6 DEF UnlockLogin, Goto, closeVars, envVars
<1>7. ASSUME NEW c \in Callers, LoginGranted(c) PROVE TypeOK'
  BY <1>7 DEF LoginGranted, Goto, closeVars
<1>8. ASSUME NEW c \in Callers, LoginLost(c) PROVE TypeOK'
  BY <1>8 DEF LoginLost, RetryRequest, Goto, closeVars
<1>9. ASSUME NEW c \in Callers, LoginFails(c) PROVE TypeOK'
  BY <1>9 DEF LoginFails, RetryRequest, Goto, closeVars, envVars
<1>10. ASSUME NEW c \in Callers, Prepare(c) PROVE TypeOK'
  BY <1>10 DEF Prepare, Goto, closeVars, envVars
<1>11. ASSUME NEW c \in Callers, Answered(c) PROVE TypeOK'
  BY <1>11 DEF Answered, Return, Goto, closeVars, envVars
<1>12. ASSUME NEW c \in Callers, Unauthorized(c) PROVE TypeOK'
  BY <1>12 DEF Unauthorized, Return, Goto, closeVars, envVars
<1>13. ASSUME NEW c \in Callers, SendFails(c) PROVE TypeOK'
  BY <1>13 DEF SendFails, RetryRequest, Return, Goto, closeVars, envVars
<1>14. ASSUME NEW c \in Callers, ClearToken(c) PROVE TypeOK'
  BY <1>14 DEF ClearToken, Goto, closeVars, envVars
<1>15. CASE Cancel
  BY <1>15 DEF Cancel, callVars, closeVars, envVars
<1>16. CASE BeginClose
  BY <1>16 DEF BeginClose, callVars, envVars
<1>17. CASE CloseCheck \/ CloseRead \/ CloseClear
  <2>1. token' \in Nat /\ closeHdr' \in Nat /\ closer' \in ClosePc
    BY <1>17 DEF CloseCheck, CloseRead, CloseClear
  <2>2. UNCHANGED <<loginMu, callVars, ctxDone, apart, envVars>>
    BY <1>17 DEF CloseCheck, CloseRead, CloseClear
  <2>3. QED
    BY <2>1, <2>2 DEF callVars, envVars
<1>18. CASE Logout
  <2>1. sessions' \subseteq sessions
    BY <1>18 DEF Logout
  <2>2. lost' \subseteq Nat /\ closer' \in ClosePc
    BY <1>18 DEF Logout
  <2>3. QED
    BY <1>18, <2>1, <2>2 DEF Logout, callVars
<1>19. CASE Expire
  <2>1. sessions' \subseteq sessions
    BY <1>19 DEF Expire
  <2>2. expiries' \in Nat
    BY <1>19 DEF Expire
  <2>3. QED
    BY <1>19, <2>1, <2>2 DEF Expire, callVars, closeVars
<1>20. CASE UNCHANGED vars
  BY <1>20 DEF vars, callVars, closeVars, envVars
<1>21. QED
  BY <1>1, <1>2, <1>3, <1>4, <1>5, <1>6, <1>7, <1>8, <1>9, <1>10, <1>11,
     <1>12, <1>13, <1>14, <1>15, <1>16, <1>17, <1>18, <1>19, <1>20, StepCases

(* The variables keep their types, whatever the bounds. *)
THEOREM TypeCorrect == Spec => []TypeOK
BY TypeInit, TypeStep, PTL DEF Spec

-----------------------------------------------------------------------------
(* One login in flight *)

(* Nobody is in the login section initially. *)
LEMMA FlightInit == Init => FlightInv
BY CallersAssumption DEF Init, FlightInv, LoginSection

(* Every step keeps the lock with whoever is in the login section. *)
LEMMA FlightStep == TypeOK /\ FlightInv /\ [Next]_vars => FlightInv'
<1> SUFFICES ASSUME TypeOK, FlightInv, [Next]_vars PROVE FlightInv'
  OBVIOUS
<1> USE CallersAssumption DEF FlightInv, TypeOK, LoginSection
<1>1. ASSUME NEW c \in Callers, StartCall(c) PROVE FlightInv'
  BY <1>1 DEF StartCall, Goto, envVars
<1>2. ASSUME NEW c \in Callers, LockLogin(c) PROVE FlightInv'
  BY <1>2 DEF LockLogin, Goto, envVars
<1>3. ASSUME NEW c \in Callers, FastCheck(c) PROVE FlightInv'
  BY <1>3 DEF FastCheck, Goto, envVars
<1>4. ASSUME NEW c \in Callers, Recheck(c) PROVE FlightInv'
  BY <1>4 DEF Recheck, Goto, envVars
<1>5. ASSUME NEW c \in Callers, StoreToken(c) PROVE FlightInv'
  BY <1>5 DEF StoreToken, Goto, envVars
<1>6. ASSUME NEW c \in Callers, UnlockLogin(c) PROVE FlightInv'
  BY <1>6 DEF UnlockLogin, Goto, envVars
<1>7. ASSUME NEW c \in Callers, LoginGranted(c) PROVE FlightInv'
  BY <1>7 DEF LoginGranted, Goto, envVars
<1>8. ASSUME NEW c \in Callers, LoginLost(c) PROVE FlightInv'
  BY <1>8 DEF LoginLost, Goto, envVars, RetryRequest
<1>9. ASSUME NEW c \in Callers, LoginFails(c) PROVE FlightInv'
  BY <1>9 DEF LoginFails, Goto, envVars, RetryRequest
<1>10. ASSUME NEW c \in Callers, Prepare(c) PROVE FlightInv'
  BY <1>10 DEF Prepare, Goto, envVars
<1>11. ASSUME NEW c \in Callers, Answered(c) PROVE FlightInv'
  BY <1>11 DEF Answered, Goto, envVars, Return
<1>12. ASSUME NEW c \in Callers, Unauthorized(c) PROVE FlightInv'
  BY <1>12 DEF Unauthorized, Goto, envVars, Return
<1>13. ASSUME NEW c \in Callers, SendFails(c) PROVE FlightInv'
  BY <1>13 DEF SendFails, Goto, envVars, RetryRequest, Return
<1>14. ASSUME NEW c \in Callers, ClearToken(c) PROVE FlightInv'
  BY <1>14 DEF ClearToken, Goto, envVars
<1>15. CASE Cancel
  BY <1>15 DEF Cancel, callVars, envVars
<1>16. CASE BeginClose
  BY <1>16 DEF BeginClose, callVars, envVars
<1>17. CASE CloseCheck
  BY <1>17 DEF CloseCheck, callVars, envVars
<1>18. CASE CloseRead
  BY <1>18 DEF CloseRead, callVars, envVars
<1>19. CASE Logout
  BY <1>19 DEF Logout, callVars, envVars
<1>20. CASE CloseClear
  BY <1>20 DEF CloseClear, callVars, envVars
<1>21. CASE Expire
  BY <1>21 DEF Expire, callVars, envVars
<1>22. CASE UNCHANGED vars
  BY <1>22 DEF vars, callVars, envVars
<1>23. QED
  BY <1>1, <1>2, <1>3, <1>4, <1>5, <1>6, <1>7, <1>8, <1>9, <1>10, <1>11,
     <1>12, <1>13, <1>14, <1>15, <1>16, <1>17, <1>18, <1>19, <1>20, <1>21,
     <1>22, StepCases

(* Two logins in flight would both hold the lock. *)
LEMMA FlightImpliesSingle == FlightInv => SingleFlight
BY DEF FlightInv, SingleFlight, LoginSection

(* Types and lock discipline, always. *)
LEMMA FlightCorrect == Spec => [](TypeOK /\ FlightInv)
BY TypeInit, TypeStep, FlightInit, FlightStep, PTL DEF Spec

(* auth.go:18-23: whatever the number of goroutines, and whichever of them *)
(* meet a 401 or a cancelled context, at most one login is in flight, and  *)
(* only while no token is cached.                                          *)
THEOREM LoginIsSingleFlighted == Spec => []SingleFlight
BY FlightCorrect, FlightImpliesSingle, PTL

-----------------------------------------------------------------------------
(* The client implements TokenCell *)

(* A step that leaves the token and the grants alone and moves nobody into *)
(* or out of a login is a stutter of the cell.                             *)
LEMMA CellStutters ==
    ASSUME token' = token, issued' = issued,
           \A d \in Callers : pc'[d] \in {"login", "store"} <=> pc[d] \in {"login", "store"}
    PROVE  UNCHANGED Cell!cellVars
BY DEF Cell!cellVars, Phase

(* The client starts as an empty cell. *)
LEMMA CellInitial == Init => Cell!CellInit
BY DEF Init, Cell!CellInit, Phase

(* Every step of the client is a step of the cell or none. *)
LEMMA CellStep == TypeOK /\ FlightInv /\ [Next]_vars => [Cell!CellNext]_(Cell!cellVars)
<1> SUFFICES ASSUME TypeOK, FlightInv, [Next]_vars
             PROVE  Cell!CellNext \/ UNCHANGED Cell!cellVars
  OBVIOUS
<1> USE CallersAssumption
<1>1. ASSUME NEW c \in Callers, StartCall(c) PROVE UNCHANGED Cell!cellVars
  BY <1>1, CellStutters DEF StartCall, Goto, envVars, TypeOK
<1>2. ASSUME NEW c \in Callers, LockLogin(c) PROVE UNCHANGED Cell!cellVars
  BY <1>2, CellStutters DEF LockLogin, Goto, envVars, TypeOK
<1>3. ASSUME NEW c \in Callers, FastCheck(c) PROVE UNCHANGED Cell!cellVars
  BY <1>3, CellStutters DEF FastCheck, Goto, envVars, TypeOK
<1>4. ASSUME NEW c \in Callers, UnlockLogin(c) PROVE UNCHANGED Cell!cellVars
  BY <1>4, CellStutters DEF UnlockLogin, Goto, envVars, TypeOK
<1>5. ASSUME NEW c \in Callers, Prepare(c) PROVE UNCHANGED Cell!cellVars
  BY <1>5, CellStutters DEF Prepare, Goto, envVars, TypeOK
<1>6. ASSUME NEW c \in Callers, Answered(c) PROVE UNCHANGED Cell!cellVars
  BY <1>6, CellStutters DEF Answered, Goto, envVars, TypeOK, Return
<1>7. ASSUME NEW c \in Callers, Unauthorized(c) PROVE UNCHANGED Cell!cellVars
  BY <1>7, CellStutters DEF Unauthorized, Goto, envVars, TypeOK, Return
<1>8. ASSUME NEW c \in Callers, SendFails(c) PROVE UNCHANGED Cell!cellVars
  BY <1>8, CellStutters DEF SendFails, Goto, envVars, TypeOK, RetryRequest, Return
<1>9. CASE Cancel
  BY <1>9, CellStutters DEF Cancel, callVars, envVars
<1>10. CASE BeginClose
  BY <1>10, CellStutters DEF BeginClose, callVars, envVars
<1>11. CASE CloseCheck
  BY <1>11, CellStutters DEF CloseCheck, callVars, envVars
<1>12. CASE CloseRead
  BY <1>12, CellStutters DEF CloseRead, callVars, envVars
<1>13. CASE Logout
  BY <1>13, CellStutters DEF Logout, callVars, envVars
<1>14. CASE Expire
  BY <1>14, CellStutters DEF Expire, callVars, envVars
<1>15. CASE UNCHANGED vars
  BY <1>15, CellStutters DEF vars, callVars, envVars
<1>16. ASSUME NEW c \in Callers, Recheck(c) PROVE Cell!CellNext \/ UNCHANGED Cell!cellVars
  <2>1. CASE token # NoToken
    BY <1>16, <2>1, CellStutters DEF Recheck, Goto, envVars, TypeOK
  <2>2. CASE token = NoToken
    <3>1. Phase = "empty"
      BY <1>16, <2>2 DEF Recheck, Phase, FlightInv, LoginSection, TypeOK
    <3>2. Phase' = "login"
      BY <1>16, <2>2 DEF Recheck, Goto, Phase, TypeOK
    <3>3. QED
      BY <1>16, <3>1, <3>2 DEF Recheck, envVars, Cell!CellNext, Cell!BeginLogin
  <2>3. QED
    BY <2>1, <2>2
<1>17. ASSUME NEW c \in Callers, LoginGranted(c) PROVE Cell!CellNext
  <2>1. Phase = "login" /\ Phase' = "login"
    BY <1>17 DEF LoginGranted, Goto, Phase, FlightInv, TypeOK
  <2>2. QED
    BY <1>17, <2>1 DEF LoginGranted, Cell!CellNext, Cell!Grant
<1>18. ASSUME NEW c \in Callers, LoginLost(c) PROVE Cell!CellNext
  <2>1. Phase = "login" /\ token = NoToken
    BY <1>18 DEF LoginLost, Phase, FlightInv, TypeOK
  <2>2. CASE UNCHANGED pc
    <3>1. Phase' = "login"
      BY <1>18, <2>1, <2>2 DEF LoginLost, Phase
    <3>2. QED
      BY <1>18, <2>1, <3>1 DEF LoginLost, Cell!CellNext, Cell!Grant
  <2>3. CASE Goto(c, "unlock")
    <3>1. Phase' = "empty"
      BY <1>18, <2>1, <2>3 DEF LoginLost, Goto, Phase, FlightInv, LoginSection, TypeOK
    <3>2. QED
      BY <1>18, <2>1, <3>1 DEF LoginLost, Cell!CellNext, Cell!GiveUp
  <2>4. QED
    BY <1>18, <2>2, <2>3 DEF LoginLost
<1>19. ASSUME NEW c \in Callers, LoginFails(c) PROVE Cell!CellNext \/ UNCHANGED Cell!cellVars
  <2>1. Phase = "login" /\ token = NoToken
    BY <1>19 DEF LoginFails, Phase, FlightInv, TypeOK
  <2>2. CASE UNCHANGED pc
    BY <1>19, <2>2, CellStutters DEF LoginFails, envVars
  <2>3. CASE Goto(c, "unlock")
    <3>1. Phase' = "empty"
      BY <1>19, <2>1, <2>3 DEF LoginFails, Goto, Phase, FlightInv, LoginSection, TypeOK
    <3>2. QED
      BY <1>19, <2>1, <3>1 DEF LoginFails, envVars, Cell!CellNext, Cell!GiveUp
  <2>4. QED
    BY <1>19, <2>2, <2>3 DEF LoginFails
<1>20. ASSUME NEW c \in Callers, StoreToken(c) PROVE Cell!CellNext
  <2>1. Phase = "login" /\ hand[c] = issued /\ issued > 0
    BY <1>20 DEF StoreToken, Phase, FlightInv, TypeOK
  <2>2. Phase' = "held"
    BY <1>20, <2>1 DEF StoreToken, Phase, TypeOK
  <2>3. QED
    BY <1>20, <2>1, <2>2 DEF StoreToken, envVars, Cell!CellNext, Cell!Fill
<1>21. ASSUME NEW c \in Callers, ClearToken(c) PROVE Cell!CellNext \/ UNCHANGED Cell!cellVars
  <2>1. CASE token = NoToken
    BY <1>21, <2>1, CellStutters DEF ClearToken, Goto, envVars, TypeOK
  <2>2. CASE token # NoToken
    <3>1. Phase = "held" /\ Phase' = "empty"
      BY <1>21, <2>2 DEF ClearToken, Goto, Phase, FlightInv, TypeOK
    <3>2. QED
      BY <1>21, <3>1 DEF ClearToken, envVars, Cell!CellNext, Cell!Drop
  <2>3. QED
    BY <2>1, <2>2
<1>22. CASE CloseClear
  <2>1. CASE token = NoToken
    BY <1>22, <2>1, CellStutters DEF CloseClear, callVars, envVars
  <2>2. CASE token # NoToken
    <3>1. Phase = "held" /\ Phase' = "empty"
      BY <1>22, <2>2 DEF CloseClear, callVars, Phase, FlightInv
    <3>2. QED
      BY <1>22, <3>1 DEF CloseClear, envVars, Cell!CellNext, Cell!Drop
  <2>3. QED
    BY <2>1, <2>2
<1>23. QED
  BY <1>1, <1>2, <1>3, <1>4, <1>5, <1>6, <1>7, <1>8, <1>9, <1>10, <1>11,
     <1>12, <1>13, <1>14, <1>15, <1>16, <1>17, <1>18, <1>19, <1>20, <1>21,
     <1>22, StepCases

(* auth.go:18-23: check, login and store are one cell, empty, filling or   *)
(* held, for any number of callers and any timing of Close, expiry, lost   *)
(* answers and cancellation.                                               *)
THEOREM ClientImplementsCell == Spec => ImplementsCell
BY FlightCorrect, CellInitial, CellStep, PTL DEF Spec, ImplementsCell, Cell!CellSpec

-----------------------------------------------------------------------------
(* No session is leaked *)

(* No session, no debt. *)
LEMMA AccountInit == Init => AccountInv
BY CallersAssumption DEF Init, AccountInv, Books, Orphans, Storing, AllAtRest

(* An expiry is not undone, and a caller that has called has called. *)
LEMMA HistoryGrows ==
    ASSUME [Next]_vars
    PROVE  expiries' \in {expiries, expiries + 1} /\ users \subseteq users'
BY StepCases
   DEF vars, callVars, closeVars, envVars, StartCall, LockLogin, FastCheck,
       Recheck, StoreToken, UnlockLogin, LoginGranted, LoginLost, LoginFails,
       Prepare, Answered, Unauthorized, SendFails, ClearToken, Cancel,
       BeginClose, CloseCheck, CloseRead, Logout, CloseClear, Expire

(* Timing that is not orderly does not become so again. *)
LEMMA OrderlyBack ==
    ASSUME TypeOK, [Next]_vars, Orderly'
    PROVE  Orderly
<1>1. /\ expiries' \in {expiries, expiries + 1}
      /\ users \subseteq users'
  BY HistoryGrows
<1>2. expiries = 0 \/ OneCaller
  BY <1>1 DEF Orderly, OneCaller, TypeOK
<1>3. apart
  <2>1. apart'
    BY DEF Orderly
  <2>2. ASSUME NEW c \in Callers, StartCall(c) PROVE apart
    BY <2>1, <2>2, Zenon DEF StartCall
  <2>3. CASE BeginClose
    BY <2>1, <2>3, Zenon DEF BeginClose
  <2>4. ASSUME NEW c \in Callers,
               \/ LockLogin(c) \/ FastCheck(c) \/ Recheck(c)
               \/ StoreToken(c) \/ UnlockLogin(c) \/ LoginGranted(c)
               \/ LoginLost(c) \/ LoginFails(c) \/ Prepare(c) \/ Answered(c)
               \/ Unauthorized(c) \/ SendFails(c) \/ ClearToken(c)
        PROVE  apart' = apart
    BY <2>4 DEF LockLogin, FastCheck, Recheck, StoreToken, UnlockLogin,
         LoginGranted, LoginLost, LoginFails, Prepare, Answered, Unauthorized,
         SendFails, ClearToken, closeVars
  <2>5. CASE Cancel \/ CloseCheck \/ CloseRead \/ Logout \/ CloseClear \/ Expire
    BY <2>1, <2>5 DEF Cancel, CloseCheck, CloseRead, Logout, CloseClear, Expire, closeVars
  <2>6. CASE UNCHANGED vars
    BY <2>1, <2>6 DEF vars, closeVars
  <2>7. QED
    BY <2>1, <2>2, <2>3, <2>4, <2>5, <2>6, StepCases
<1>4. QED
  BY <1>1, <1>2, <1>3 DEF Orderly, TypeOK

(* Every step keeps the books, as long as the timing is orderly. *)
LEMMA AccountStep == TypeOK /\ FlightInv /\ AccountInv /\ [Next]_vars => AccountInv'
<1> SUFFICES ASSUME TypeOK, FlightInv, AccountInv, [Next]_vars, Orderly'
             PROVE  Books'
  BY DEF AccountInv
<1>0. Orderly /\ Books
  BY OrderlyBack DEF AccountInv
<1> USE CallersAssumption DEF TypeOK, Books, Orphans, Storing, AllAtRest
<1>1. ASSUME NEW c \in Callers, StartCall(c) PROVE Books'
  <2>1. closer = "off"
    BY <1>1, Zenon DEF StartCall, Orderly
  <2>2. QED
    BY <1>0, <1>1, <2>1 DEF StartCall, Goto, envVars, FlightInv, LoginSection
<1>2. ASSUME NEW c \in Callers, LockLogin(c) PROVE Books'
  BY <1>0, <1>2 DEF LockLogin, Goto, closeVars, envVars, FlightInv, LoginSection, Orderly
<1>3. ASSUME NEW c \in Callers, FastCheck(c) PROVE Books'
  BY <1>0, <1>3 DEF FastCheck, Goto, closeVars, envVars, FlightInv, LoginSection, Orderly
<1>4. ASSUME NEW c \in Callers, Recheck(c) PROVE Books'
  BY <1>0, <1>4 DEF Recheck, Goto, closeVars, envVars, FlightInv, LoginSection, Orderly
<1>5. ASSUME NEW c \in Callers, StoreToken(c) PROVE Books'
  <2>1. closer = "off" /\ closer' = "off"
    BY <1>0, <1>5 DEF StoreToken, closeVars
  <2>2. \A d \in Callers : pc[d] \notin {"send", "clear"}
    BY <1>0, <1>5 DEF StoreToken, FlightInv, Orderly, OneCaller
  <2>3. \A d \in Callers \ {c} : pc[d] \notin LoginSection
    BY <1>5 DEF StoreToken, FlightInv, LoginSection
  <2>4. Orphans' = {}
    BY <1>0, <1>5, <2>3 DEF StoreToken, Goto, envVars, FlightInv, LoginSection
  <2>5. token' = hand[c] /\ hand[c] > 0
    BY <1>5 DEF StoreToken, FlightInv
  <2>6. QED
    BY <1>0, <1>5, <2>1, <2>2, <2>3, <2>4, <2>5
       DEF StoreToken, Goto, closeVars, envVars, LoginSection
<1>6. ASSUME NEW c \in Callers, UnlockLogin(c) PROVE Books'
  BY <1>0, <1>6 DEF UnlockLogin, Goto, closeVars, envVars, FlightInv, LoginSection, Orderly
<1>7. ASSUME NEW c \in Callers, LoginGranted(c) PROVE Books'
  BY <1>0, <1>7 DEF LoginGranted, Goto, closeVars, envVars, FlightInv, LoginSection, Orderly
<1>8. ASSUME NEW c \in Callers, LoginLost(c) PROVE Books'
  BY <1>0, <1>8 DEF LoginLost, Goto, closeVars, envVars, FlightInv, LoginSection, Orderly, RetryRequest
<1>9. ASSUME NEW c \in Callers, LoginFails(c) PROVE Books'
  BY <1>0, <1>9 DEF LoginFails, Goto, closeVars, envVars, FlightInv, LoginSection, Orderly, RetryRequest
<1>10. ASSUME NEW c \in Callers, Prepare(c) PROVE Books'
  BY <1>0, <1>10 DEF Prepare, Goto, closeVars, envVars, FlightInv, LoginSection, Orderly
<1>11. ASSUME NEW c \in Callers, Answered(c) PROVE Books'
  BY <1>0, <1>11 DEF Answered, Goto, closeVars, envVars, FlightInv, LoginSection, Orderly, Return
<1>12. ASSUME NEW c \in Callers, Unauthorized(c) PROVE Books'
  BY <1>0, <1>12 DEF Unauthorized, Goto, closeVars, envVars, FlightInv, LoginSection, Orderly, Return
<1>13. ASSUME NEW c \in Callers, SendFails(c) PROVE Books'
  BY <1>0, <1>13 DEF SendFails, Goto, closeVars, envVars, FlightInv, LoginSection, Orderly, RetryRequest, Return
<1>14. ASSUME NEW c \in Callers, ClearToken(c) PROVE Books'
  BY <1>0, <1>14 DEF ClearToken, Goto, closeVars, envVars, FlightInv, LoginSection, Orderly, OneCaller
<1>15. CASE Cancel
  BY <1>0, <1>15 DEF Cancel, callVars, closeVars, envVars, Orderly
<1>16. CASE BeginClose
  BY <1>0, <1>16 DEF BeginClose, callVars, closeVars, envVars, Orderly
<1>17. CASE CloseCheck
  BY <1>0, <1>17 DEF CloseCheck, callVars, closeVars, envVars, Orderly
<1>18. CASE CloseRead
  BY <1>0, <1>18 DEF CloseRead, callVars, closeVars, envVars, Orderly
<1>19. CASE Logout
  BY <1>0, <1>19 DEF Logout, callVars, closeVars, envVars, Orderly
<1>20. CASE CloseClear
  BY <1>0, <1>20 DEF CloseClear, callVars, closeVars, envVars, Orderly
<1>21. CASE Expire
  BY <1>0, <1>21 DEF Expire, callVars, closeVars, envVars, Orderly
<1>22. CASE UNCHANGED vars
  BY <1>0, <1>22 DEF vars, callVars, closeVars, envVars
<1>23. QED
  BY <1>1, <1>2, <1>3, <1>4, <1>5, <1>6, <1>7, <1>8, <1>9, <1>10, <1>11,
     <1>12, <1>13, <1>14, <1>15, <1>16, <1>17, <1>18, <1>19, <1>20, <1>21,
     <1>22, StepCases

(* The books are kept, always. *)
LEMMA AccountCorrect == Spec => []AccountInv
BY TypeInit, TypeStep, FlightInit, FlightStep, AccountInit, AccountStep, PTL DEF Spec

(* Kept books have no orphan, and none after Close. *)
LEMMA AccountImplies == AccountInv => NoOrphan /\ CloseReleasesAll
BY DEF AccountInv, Books, NoOrphan, CloseReleasesAll

(* ADR-0004, auth.go:18-23: with any number of callers the client leaks no *)
(* session before the first expiry, and a client used by one goroutine     *)
(* leaks none at all, but those whose login or logout the network lost.    *)
THEOREM NoSessionLeaks == Spec => []NoOrphan
BY AccountCorrect, AccountImplies, PTL

(* auth.go:55-57: under the same timing Close leaves nothing else behind. *)
THEOREM CloseLeavesNothing == Spec => []CloseReleasesAll
BY AccountCorrect, AccountImplies, PTL

-----------------------------------------------------------------------------
(* One expiry costs no call *)

(* Everyone is at rest and the cache is empty. *)
LEMMA RenewInit == Init => RenewInv /\ ExpiryCostsNoCall
BY DEF Init, RenewInv, Renewed, AllAtRest, ExpiryCostsNoCall

(* Every step renews the token of the call that met the expiry, as long as *)
(* there is one caller, one expiry at most, and the context.               *)
LEMMA RenewStep == TypeOK /\ RenewInv /\ [Next]_vars => RenewInv'
<1> SUFFICES ASSUME TypeOK, RenewInv, [Next]_vars,
                    expiries' <= 1, OneCaller', ~ctxDone'
             PROVE  Renewed'
  BY DEF RenewInv
<1>a. expiries <= 1 /\ OneCaller
  BY HistoryGrows DEF TypeOK, OneCaller
<1>b. ~ctxDone
  BY StepCases
     DEF TypeOK, vars, callVars, closeVars, envVars, StartCall, LockLogin, FastCheck,
         Recheck, StoreToken, UnlockLogin, LoginGranted, LoginLost, LoginFails,
         Prepare, Answered, Unauthorized, SendFails, ClearToken, Cancel,
         BeginClose, CloseCheck, CloseRead, Logout, CloseClear, Expire
<1>c. Renewed
  BY <1>a, <1>b DEF RenewInv
<1>d. \A c, d \in Callers : pc[c] # "rest" /\ pc[d] # "rest" => c = d
  BY <1>a, <1>c DEF Renewed, OneCaller
<1> USE DEF TypeOK, Renewed, AllAtRest
<1>1. ASSUME NEW c \in Callers, StartCall(c) PROVE Renewed'
  BY <1>b, <1>c, <1>d, <1>1 DEF StartCall, Goto, closeVars, envVars
<1>2. ASSUME NEW c \in Callers, LockLogin(c) PROVE Renewed'
  BY <1>b, <1>c, <1>d, <1>2 DEF LockLogin, Goto, closeVars, envVars
<1>3. ASSUME NEW c \in Callers, FastCheck(c) PROVE Renewed'
  BY <1>b, <1>c, <1>d, <1>3 DEF FastCheck, Goto, closeVars, envVars
<1>4. ASSUME NEW c \in Callers, Recheck(c) PROVE Renewed'
  BY <1>b, <1>c, <1>d, <1>4 DEF Recheck, Goto, closeVars, envVars
<1>5. ASSUME NEW c \in Callers, StoreToken(c) PROVE Renewed'
  BY <1>b, <1>c, <1>d, <1>5 DEF StoreToken, Goto, closeVars, envVars
<1>6. ASSUME NEW c \in Callers, UnlockLogin(c) PROVE Renewed'
  BY <1>b, <1>c, <1>d, <1>6 DEF UnlockLogin, Goto, closeVars, envVars
<1>7. ASSUME NEW c \in Callers, LoginGranted(c) PROVE Renewed'
  BY <1>b, <1>c, <1>d, <1>7 DEF LoginGranted, Goto, closeVars, envVars
<1>8. ASSUME NEW c \in Callers, LoginLost(c) PROVE Renewed'
  BY <1>b, <1>c, <1>d, <1>8 DEF LoginLost, Goto, closeVars, envVars, RetryRequest
<1>9. ASSUME NEW c \in Callers, LoginFails(c) PROVE Renewed'
  BY <1>b, <1>c, <1>d, <1>9 DEF LoginFails, Goto, closeVars, envVars, RetryRequest
<1>10. ASSUME NEW c \in Callers, Prepare(c) PROVE Renewed'
  BY <1>b, <1>c, <1>d, <1>10 DEF Prepare, Goto, closeVars, envVars
<1>11. ASSUME NEW c \in Callers, Answered(c) PROVE Renewed'
  BY <1>b, <1>c, <1>d, <1>11 DEF Answered, Goto, closeVars, envVars, Return
<1>12. ASSUME NEW c \in Callers, Unauthorized(c) PROVE Renewed'
  BY <1>b, <1>c, <1>d, <1>12 DEF Unauthorized, Goto, closeVars, envVars, Return
<1>13. ASSUME NEW c \in Callers, SendFails(c) PROVE Renewed'
  BY <1>b, <1>c, <1>d, <1>13 DEF SendFails, Goto, closeVars, envVars, RetryRequest, Return
<1>14. ASSUME NEW c \in Callers, ClearToken(c) PROVE Renewed'
  BY <1>b, <1>c, <1>d, <1>14 DEF ClearToken, Goto, closeVars, envVars
<1>15. CASE Cancel
  BY <1>b, <1>c, <1>15 DEF Cancel, callVars, closeVars, envVars
<1>16. CASE BeginClose
  BY <1>b, <1>c, <1>16 DEF BeginClose, callVars, closeVars, envVars
<1>17. CASE CloseCheck
  BY <1>b, <1>c, <1>17 DEF CloseCheck, callVars, closeVars, envVars
<1>18. CASE CloseRead
  BY <1>b, <1>c, <1>18 DEF CloseRead, callVars, closeVars, envVars
<1>19. CASE Logout
  BY <1>b, <1>c, <1>19 DEF Logout, callVars, closeVars, envVars
<1>20. CASE CloseClear
  BY <1>b, <1>c, <1>20 DEF CloseClear, callVars, closeVars, envVars
<1>21. CASE Expire
  BY <1>b, <1>c, <1>21 DEF Expire, callVars, closeVars, envVars
<1>22. CASE UNCHANGED vars
  BY <1>c, <1>22 DEF vars, callVars, closeVars, envVars
<1>23. QED
  BY <1>1, <1>2, <1>3, <1>4, <1>5, <1>6, <1>7, <1>8, <1>9, <1>10, <1>11,
     <1>12, <1>13, <1>14, <1>15, <1>16, <1>17, <1>18, <1>19, <1>20, <1>21,
     <1>22, StepCases

(* A second 401 does not come, so no call ends with it. *)
LEMMA NoSecond401 ==
    TypeOK /\ RenewInv /\ ExpiryCostsNoCall /\ [Next]_vars => ExpiryCostsNoCall'
<1> SUFFICES ASSUME TypeOK, RenewInv, ExpiryCostsNoCall, [Next]_vars,
                    expiries' <= 1, OneCaller', NEW d \in Callers
             PROVE  result'[d] # "unauthorized"
  BY DEF ExpiryCostsNoCall
<1>1. expiries <= 1 /\ OneCaller
  BY HistoryGrows DEF TypeOK, OneCaller
<1>2. result[d] # "unauthorized"
  BY <1>1 DEF ExpiryCostsNoCall
<1>3. ASSUME NEW c \in Callers, Unauthorized(c) PROVE result'[d] # "unauthorized"
  <2>1. Renewed
    BY <1>1, <1>3 DEF RenewInv, Unauthorized
  <2>2. ~second[c]
    BY <1>3, <2>1 DEF Renewed, Unauthorized, TypeOK
  <2>3. QED
    BY <1>2, <1>3, <2>2 DEF Unauthorized
<1>4. ASSUME ~ \E c \in Callers : Unauthorized(c) PROVE result'[d] # "unauthorized"
  BY <1>2, <1>4, StepCases
     DEF TypeOK, vars, callVars, StartCall, LockLogin, FastCheck, Recheck,
         StoreToken, UnlockLogin, LoginGranted, LoginLost, LoginFails, Prepare,
         Answered, Return, Goto, SendFails, RetryRequest, ClearToken, Cancel,
         BeginClose, CloseCheck, CloseRead, Logout, CloseClear, Expire
<1>5. QED
  BY <1>3, <1>4

(* ADR-0004: "An expired token costs one extra round-trip on the first     *)
(* call after expiry": with one goroutine and at most one expiry no call   *)
(* ends with a 401, whatever is lost, retried or cancelled.                *)
THEOREM OneExpiryIsFree == Spec => []ExpiryCostsNoCall
BY TypeInit, TypeStep, RenewInit, RenewStep, NoSecond401, PTL DEF Spec

=============================================================================
