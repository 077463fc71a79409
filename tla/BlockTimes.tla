------------------------------ MODULE BlockTimes ------------------------------
(***************************************************************************)
(* Where the blocks of a stream lie in time: calculateTimeRange and        *)
(* initializeSchema at the center fix where they begin and how long they   *)
(* are, getBlockId names the block of a time at an edge, and               *)
(* addBlockConditions computes its limits again.                           *)
(* Times are int64, the arithmetic on them is uint64, block ids are        *)
(* uint32; all widths are scaled down.                                     *)
(***************************************************************************)
EXTENDS BlockIds

CONSTANTS
    TimeModulus,    \* 2^64
    RowsPerBlock    \* rows_per_block

ASSUME WidthsAssumption ==
    TimeModulus \in Nat \ {0} /\ TimeModulus % 2 = 0 /\ RowsPerBlock \in Nat \ {0}

MaxTime == TimeModulus \div 2 - 1
MinTime == -(TimeModulus \div 2)

Unsigned(t) == t % TimeModulus
Signed(u) == LET v == u % TimeModulus IN IF v > MaxTime THEN v - TimeModulus ELSE v

-----------------------------------------------------------------------------
\* The center: a table is the sequence of its row times, in order.

\* calculateTimeRange takes the distance of the first two rows for all rows.
TimeRange(table) == Unsigned((table[2] - table[1]) * RowsPerBlock)
\* initializeSchema.
SchemaOf(table) == [start |-> table[1], range |-> TimeRange(table)]

-----------------------------------------------------------------------------
\* An edge.

\* getBlockId: the time becomes unsigned, the quotient is cut to a block id.
BlockId(meta, t) ==
    (Unsigned(Unsigned(t) - meta.start) \div meta.range) % IdModulus

BlockBegin(meta, b) == Signed(meta.start + b * meta.range)
BlockEnd(meta, b) == Signed(Unsigned(BlockBegin(meta, b)) + meta.range)
=============================================================================
