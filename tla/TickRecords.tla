---------------------------- MODULE TickRecords ----------------------------
(***************************************************************************)
(* waldoctl/ticks.py: finding the row of a time, the command of a row, and *)
(* for each row of one record the row of another to compare it with.       *)
(*                                                                         *)
(* A record is its number of rows, numbered from 0, and its blocks; what   *)
(* the columns hold is left out.  Both records have the same row_dt_s: the *)
(* ValueError for different ones is left out, times count in units of it   *)
(* divided by RowTime.                                                     *)
(***************************************************************************)
EXTENDS Integers, FiniteSetsExt, SequencesExt

CONSTANT RowTime   \* row_dt_s

ASSUME RowTimeAssumption == RowTime \in Nat \ {0}

Block(command, start, rows) == [command |-> command, start |-> start, rows |-> rows]

RowsOf(block) == block.start .. (block.start + block.rows - 1)

(* row_at: the row displayed at time t, which may be negative (rounded     *)
(* towards 0 or down, the row is 0).                                       *)
RowAt(record, t) ==
    IF record.rows = 0 THEN 0 ELSE Max({0, Min({record.rows - 1, t \div RowTime})})

(* block_at: the first block that owns the row; 0 for None.               *)
BlockAt(record, row) ==
    LET owns(b) == row \in RowsOf(b) IN SelectInSeq(record.blocks, owns)

(* by_command: the last block of a command that has rows; 0 if none.     *)
BlockOf(record, command) ==
    LET is(b) == b.command = command /\ b.rows > 0
    IN  SelectLastInSeq(record.blocks, is)

(* Fault: an offset past the end of the block runs into the next one.      *)
AlignedUnclamped(source, target, b, row) ==
    LET t == target.blocks[BlockOf(target, b.command)]
    IN  Min({t.start + (row - b.start), target.rows - 1})

(* A row at offset k of its block, at offset k of the other's.             *)
Aligned(source, target, b, row) ==
    LET t == target.blocks[BlockOf(target, b.command)]
    IN  t.start + Min({row - b.start, t.rows - 1})

(* align_rows: later blocks overwrite earlier ones; a row without a block, *)
(* or whose command has no rows in the target, keeps its clamped index.    *)
AlignRows(source, target) ==
    LET matching == {k \in DOMAIN source.blocks :
                        BlockOf(target, source.blocks[k].command) # 0}
        of(row) == {k \in matching : row \in RowsOf(source.blocks[k])}
    IN  [row \in 0..(source.rows - 1) |->
            IF target.rows = 0 THEN 0
            ELSE IF of(row) = {} THEN Min({row, target.rows - 1})
            ELSE Aligned(source, target, source.blocks[Max(of(row))], row)]

(* following_error, of an arm of one joint; joints and predictedJoints map *)
(* rows to its positions.  The ValueError for a commanded record without   *)
(* rows is left out.                                                       *)
FollowingError(commanded, predicted, joints, predictedJoints) ==
    LET at == AlignRows(predicted, commanded)
        distance(a, b) == IF a < b THEN b - a ELSE a - b
    IN  [row \in DOMAIN at |-> distance(predictedJoints[row], joints[at[row]])]
=============================================================================
