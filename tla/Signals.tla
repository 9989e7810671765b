------------------------------ MODULE Signals ------------------------------
(***************************************************************************)
(* waldoctl/signals.py: logical signals on one bit of a controller's I/O   *)
(* vector, which is the input bank, the output bank and the E-stop.        *)
(* Indices count from zero, as in the code; a sequence counts from one.    *)
(***************************************************************************)
EXTENDS Naturals, Sequences

CONSTANT Stray   \* any value that is neither a level nor a boolean

ASSUME SignalsAssumption == Stray \notin 0..1 /\ Stray \notin BOOLEAN

(* DigitalSignal.__post_init__: the index is within the signal's bank.     *)
SignalAccepted(s) ==
    s.index < (IF s.direction = "input" THEN s.inputs ELSE s.outputs)

(* What io() returns for banks of these sizes, and what else may be taken  *)
(* for it.                                                                 *)
Vectors(inputs, outputs) == [1..(inputs + outputs + 1) -> 0..1]
BitValues == {0, 1, Stray}

(* Fault: outputs are looked for in the input bank. *)
OffsetNone(s) == 0

Offset(s) == IF s.direction = "input" THEN 0 ELSE s.inputs

(* Fault: it is enough that the bit of the signal is there. *)
DecodableAlone(s, levels) ==
    /\ Offset(s) + s.index + 1 \in DOMAIN levels
    /\ levels[Offset(s) + s.index + 1] \in 0..1

(* decode refuses a vector of another length or with anything else than    *)
(* levels in it, ...                                                       *)
Decodable(s, levels) ==
    /\ Len(levels) = s.inputs + s.outputs + 1
    /\ \A k \in DOMAIN levels : levels[k] \in 0..1

(* ... and reads its bit; active_high tells which level is true. *)
Decode(s, levels) == (levels[Offset(s) + s.index + 1] = 1) = s.active_high

(* Fault: inputs are written. *)
EncodableInput(s, value) == value \in BOOLEAN

(* encode refuses an input, and what is not a boolean. *)
Encodable(s, value) == s.direction = "output" /\ value \in BOOLEAN

Encode(s, value) == IF value = s.active_high THEN 1 ELSE 0

(* What write_io(s.index, level) does to the vector. *)
WriteIO(s, level, levels) == [levels EXCEPT ![s.inputs + s.index + 1] = level]
=============================================================================
