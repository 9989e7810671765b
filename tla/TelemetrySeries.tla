-------------------------- MODULE TelemetrySeries --------------------------
(***************************************************************************)
(* ToolTimeSeries (waldoctl/robot_status.py): the rolling buffer into      *)
(* which the status loop pushes a tool's telemetry and from which charts   *)
(* draw.  Its three columns grow and shrink together and are one sequence  *)
(* here; a sample is its time and the number of its push, which stands for *)
(* position and current.                                                   *)
(*                                                                         *)
(* The code stamps samples with the wall clock (time.time), which may be   *)
(* set to any time between two pushes.                                     *)
(***************************************************************************)
EXTENDS Integers, SequencesExt

CONSTANTS
    Charts,        \* those who call get_series_if_dirty
    MaxPoints,     \* max_points
    MinInterval,   \* min_interval_s, zero for no decimation
    MaxTime,       \* bound: the clock shows 0..MaxTime
    MaxPushes      \* bound

ASSUME SeriesAssumption ==
    /\ MaxPoints \in Nat \ {0}
    /\ {MinInterval, MaxTime, MaxPushes} \subseteq Nat

VARIABLES
    now,      \* time.time()
    series,   \* _ts, _pos and _cur
    dirty,    \* _dirty
    pushes,   \* how often push was called
    drawn     \* what each chart has last been given

seriesVars == <<now, series, dirty, pushes, drawn>>

SeriesInit ==
    /\ now = 0 /\ pushes = 0
    /\ series = <<>> /\ dirty = FALSE
    /\ drawn = [c \in Charts |-> <<>>]

(* A sample landed less than MinInterval ago, on a clock that shows t. *)
TooSoon(t) ==
    MinInterval # 0 /\ series # <<>> /\ t - Last(series).at < MinInterval

(* append to a deque(maxlen=MaxPoints) *)
Rolled(sample) ==
    LET grown == Append(series, sample)
    IN  IF Len(grown) > MaxPoints THEN Tail(grown) ELSE grown

(* Fault: a full buffer that stays as long counts as unchanged. *)
PushLengthOnly ==
    /\ pushes < MaxPushes /\ pushes' = pushes + 1
    /\ IF TooSoon(now) THEN UNCHANGED <<series, dirty>>
       ELSE /\ series' = Rolled([at |-> now, push |-> pushes])
            /\ dirty' = (dirty \/ Len(series') > Len(series))
    /\ UNCHANGED <<now, drawn>>

Push ==
    /\ pushes < MaxPushes /\ pushes' = pushes + 1
    /\ IF TooSoon(now) THEN UNCHANGED <<series, dirty>>
       ELSE /\ series' = Rolled([at |-> now, push |-> pushes])
            /\ dirty' = TRUE
    /\ UNCHANGED <<now, drawn>>

(* get_series_if_dirty; without new samples it returns None and does       *)
(* nothing.                                                                *)
Draw(c) ==
    /\ dirty
    /\ dirty' = FALSE
    /\ drawn' = [drawn EXCEPT ![c] = series]
    /\ UNCHANGED <<now, series, pushes>>

Clear ==
    /\ series' = <<>> /\ dirty' = FALSE
    /\ UNCHANGED <<now, pushes, drawn>>

(* Time passes, or the clock is set. *)
ClockMoves ==
    /\ now' \in 0..MaxTime
    /\ UNCHANGED <<series, dirty, pushes, drawn>>

SeriesNext == Push \/ (\E c \in Charts : Draw(c)) \/ Clear \/ ClockMoves

SeriesSpec == SeriesInit /\ [][SeriesNext]_seriesVars

-----------------------------------------------------------------------------
(* When get_series_if_dirty has nothing new to give although there are     *)
(* samples, some chart has been given exactly these: a sample that landed  *)
(* is never held back from all of them, whatever was evicted, cleared or   *)
(* dropped in between.                                                     *)
LatestWasDrawn == ~dirty /\ series # <<>> => \E c \in Charts : drawn[c] = series
=============================================================================
