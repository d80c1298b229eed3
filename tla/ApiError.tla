------------------------------ MODULE ApiError ------------------------------
(***************************************************************************)
(* A management API response that is not a success, decoded far enough to  *)
(* tell a permanent refusal from a passing failure                         *)
(* (internal/ecsclient/apierror.go). The status alone does not tell: ECS   *)
(* answers 500 to both.                                                    *)
(*                                                                         *)
(* A body is what json.Unmarshal reads of it: a code of 0 and a            *)
(* description that is not there are omitted ones, the flag is a set of at *)
(* most one Boolean. A body that is no such JSON has none of the three.    *)
(***************************************************************************)
EXTENDS Integers

CodeInsufficientPermissions == 6401

Unreadable == [code |-> 0, description |-> FALSE, retryable |-> {}]

(* Decoded only if at least one of the envelope's fields is there; without *)
(* the flag an envelope makes no claim.                                    *)
ParseAPIError(body) ==
    IF body = Unreadable
    THEN [decoded |-> FALSE, code |-> 0, retryable |-> FALSE]
    ELSE [decoded |-> TRUE, code |-> body.code, retryable |-> FALSE \notin body.retryable]

Permanent(err) ==
    err.decoded /\ (~err.retryable \/ err.code = CodeInsufficientPermissions)

=============================================================================
