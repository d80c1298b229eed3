----------------------------- MODULE TokenCell -----------------------------
(***************************************************************************)
(* What ensureToken and clearToken promise together (the comment above     *)
(* ensureToken, internal/ecsclient/auth.go): check, login and store behave *)
(* as one step.  The cache is empty, or being filled by one login, or      *)
(* holds the newest token the appliance granted.  A login never starts     *)
(* over a cached token, and no token is ever replaced by another without   *)
(* the cache being emptied first.                                          *)
(***************************************************************************)
EXTENDS Integers

VARIABLES
    phase,    \* "empty", "login" or "held"
    cached,   \* the token held, 0 when none
    granted   \* sessions the appliance has granted so far

cellVars == <<phase, cached, granted>>

CellInit == phase = "empty" /\ cached = 0 /\ granted = 0

BeginLogin == phase = "empty" /\ phase' = "login" /\ UNCHANGED <<cached, granted>>

(* The appliance grants a session to the one login in flight. *)
Grant == phase = "login" /\ granted' = granted + 1 /\ UNCHANGED <<phase, cached>>

(* A lost answer may be the last one: granted, and given up on. *)
GiveUp ==
    /\ phase = "login"
    /\ phase' = "empty"
    /\ granted' \in {granted, granted + 1}
    /\ UNCHANGED cached

Fill ==
    /\ phase = "login"
    /\ granted > 0
    /\ phase' = "held"
    /\ cached' = granted
    /\ UNCHANGED granted

Drop == phase = "held" /\ phase' = "empty" /\ cached' = 0 /\ UNCHANGED granted

CellNext == BeginLogin \/ Grant \/ GiveUp \/ Fill \/ Drop

CellSpec == CellInit /\ [][CellNext]_cellVars

=============================================================================
