-------------------------- MODULE Demonstrations --------------------------
(***************************************************************************)
(* waldoctl/recordings.py: what a Demonstration accepts as its samples,    *)
(* the gaps it reports, the spans it gives out and when it may be          *)
(* replayed.  Times are whole ticks of either clock; a sample's joints and *)
(* tool are the number of its joints.                                      *)
(***************************************************************************)
EXTENDS Integers, SequencesExt

CONSTANTS
    MaxRecordingSamples,  \* MAX_RECORDING_SAMPLES
    GapThreshold          \* gap_threshold_s, in ticks of the controller

ASSUME RecordingAssumption ==
    MaxRecordingSamples \in Nat /\ GapThreshold \in Nat \ {0}

(* Both clocks and the publication number, from one sample to the next.    *)
InOrder(before, after) ==
    /\ before.seq < after.seq
    /\ before.observed < after.observed
    /\ before.received <= after.received

(* __post_init__ *)
Accepts(samples) ==
    /\ Len(samples) \in 1..MaxRecordingSamples
    /\ \A k \in DOMAIN samples :
        /\ samples[k].joints = samples[1].joints
        /\ k > 1 => InOrder(samples[k - 1], samples[k])

(* Fault: the interval is measured on the host's clock. *)
ElapsedReceived(before, after) == after.received - before.received

Elapsed(before, after) == after.observed - before.observed

(* The interval that ends at the k-th sample; indices count from 0.        *)
GapAt(samples, k) ==
    [index |-> k - 1, missing |-> samples[k].seq - samples[k - 1].seq - 1,
     elapsed |-> Elapsed(samples[k - 1], samples[k])]

(* gaps *)
Gaps(samples) ==
    LET candidates == {GapAt(samples, k) : k \in 2..Len(samples)}
    IN  {g \in candidates : g.missing # 0 \/ g.elapsed > GapThreshold}

(* Fault: stop is taken for the last index of the span. *)
SelectInclusive(samples, start, stop) ==
    SubSeq(samples, start + 1, IF stop < Len(samples) THEN stop + 1 ELSE stop)

(* select(start, stop), of indices that count from 0. *)
Select(samples, start, stop) == SubSeq(samples, start + 1, stop)

Selectable(samples, start, stop) == 0 <= start /\ start < stop /\ stop <= Len(samples)

(* require_continuous does not raise. *)
Continuous(samples) == Len(samples) >= 2 /\ Gaps(samples) = {}
=============================================================================
