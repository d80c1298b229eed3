------------------------------ MODULE Payload ------------------------------
(***************************************************************************)
(* How the collectors read an answer of the management API, which encodes  *)
(* numbers as numbers or as text, readings as lists of dated points, and   *)
(* lists under either of two keys (internal/ecs/points.go, hal.go).        *)
(*                                                                         *)
(* What may be missing is a set with at most one element.                  *)
(***************************************************************************)
EXTENDS Integers, Sequences

Absent == {}

(* A raw JSON scalar: a number, quoted or not, a flag, or any other text,  *)
(* "N/A" and null among them.                                              *)
Number(n) == [kind |-> "number", n |-> n]
Flag(n) == [kind |-> "flag", n |-> n]
Word == [kind |-> "word", n |-> 0]

AnyToFloat(raw) == IF raw.kind = "number" THEN {raw.n} ELSE Absent

(* strconv.ParseBool takes "1" and "0" for flags as well.                  *)
AnyToBool(raw) == IF raw.kind = "word" THEN Absent ELSE {raw.n} \cap {0, 1}

(* A point whose time cannot be read counts as the oldest.                 *)
TimeOf(p) == IF AnyToFloat(p.t) = Absent THEN 0 ELSE p.t.n

(* The loop over the points; of equally new ones the later is kept.        *)
Newest(series) ==
    LET newest[i \in 0 .. Len(series)] ==
            IF i = 0 THEN 0
            ELSE IF newest[i - 1] = 0
                    \/ TimeOf(series[i]) >= TimeOf(series[newest[i - 1]])
                 THEN i ELSE newest[i - 1]
    IN  newest[Len(series)]

(* Fault: points that cannot be read are passed over.                      *)
LatestReadable(series) ==
    LET Readable(p) == AnyToFloat(p.v) # Absent
        read == SelectSeq(series, Readable)
    IN  IF read = <<>> THEN Absent ELSE AnyToFloat(read[Newest(read)].v)

(* The point is chosen first and parsed then.                              *)
Latest(series) ==
    IF series = <<>> THEN Absent ELSE AnyToFloat(series[Newest(series)].v)

(* A HAL list: what "_instances" and "instances" hold, null being absent.  *)
Instances(hal) ==
    IF hal.underscore # Absent THEN hal.underscore ELSE hal.documented

KeySeen(hal) == Instances(hal) # Absent

(* Fault: a list that loses to the other one is dropped in silence.        *)
NeverConflicts(hal) == FALSE

Conflict(hal) ==
    /\ hal.underscore # Absent
    /\ hal.documented # Absent
    /\ hal.underscore # hal.documented

WarnsHalShape(hal) == ~KeySeen(hal) \/ Conflict(hal)

=============================================================================
