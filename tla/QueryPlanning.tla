----------------------------- MODULE QueryPlanning -----------------------------
(***************************************************************************)
(* From a query to its tasks: the blocks of its WHERE clause (BlockRange)  *)
(* are looked up in the index, which names the node to ask (CacheIndex),   *)
(* and each block gets a task with the condition of the block.  The        *)
(* sub-queries themselves are in EdgeQuery.                                *)
(***************************************************************************)
EXTENDS CacheIndex, BlockRange

CONSTANTS
    Tables,         \* the tables explored: sequences of row times
    Clauses,        \* the WHERE clauses explored
    Values          \* what the column value holds in the rows explored

\* The first time is read as an unsigned integer. Two rows with one time would
\* make a block of length 0, by which getBlockId divides, as would a length
\* that wraps to 0; a table of one row has no distance at all.
ASSUME FirstRowsApart ==
    \A t \in Tables :
       /\ Len(t) >= 2 /\ t[1] \in 0..MaxTime /\ t[2] \in t[1]..MaxTime
       /\ TimeRange(t) # 0

ASSUME ClausesAreWritten == Clauses \subseteq Written \cup {NoWhere}
ASSUME ValuesAreIntegers == Values \subseteq Int

VARIABLE schema     \* schema_, for the stream the clauses query

NoSchema == [start |-> 0, range |-> 0]

planningVars == <<vars, schema>>

-----------------------------------------------------------------------------
PlanningInit ==
    /\ Init
    /\ schema = NoSchema

\* updateSchemaInfo: the first schema of a stream stays, whatever the center
\* sends later.
UpdateSchemaInfo(table) ==
    /\ schema' = IF schema = NoSchema THEN SchemaOf(table) ELSE schema
    /\ UNCHANGED vars

PlanningNext ==
    \/ Next /\ UNCHANGED schema
    \/ \E t \in Tables : UpdateSchemaInfo(t)

PlanningSpec == PlanningInit /\ [][PlanningNext]_planningVars

-----------------------------------------------------------------------------
\* A clause whose bounds lie in the stream: from its first row to the last block
\* an id can name.
Inside(meta, where) ==
    /\ Bounds(where).lo >= meta.start
    /\ Bounds(where).hi < meta.start + MaxId * meta.range

RowsOf(meta) ==
    {r \in [date_time : MinTime..MaxTime, value : Values] : r.date_time >= meta.start}
Selects(where, row) == where = NoWhere \/ Holds[where][row]

\* The blocks whose sub-query returns a row; none when the database refuses them.
Fetching(meta, where, row) ==
    {b \in BlocksOf(meta, where) : \E e \in SubQueries(meta, where, b) : Selects(e, row)}
\* A block that reaches past the largest time has no end after its begin: its
\* task is the whole query.
Overrun(meta, where) == \E b \in BlocksOf(meta, where) : BlockEnd(meta, b) <= BlockBegin(meta, b)
Refused(meta, where) == \E b \in BlocksOf(meta, where) : SubQueries(meta, where, b) = {}

RowsFetchedOnce(meta, where) ==
    \A row \in RowsOf(meta) :
       LET tasks == Fetching(meta, where, row) IN
       IF Selects(where, row)
       THEN /\ Cardinality(tasks) <= 1 \/ Overrun(meta, where)
            /\ Inside(meta, where) => tasks # {}
       ELSE tasks = {}

SoundSchemas ==
    {meta \in {SchemaOf(table) : table \in Tables} :
       \A where \in Clauses :
          \/ Unbounded(meta, where) \/ Refused(meta, where)
          \/ RowsFetchedOnce(meta, where)}

\* Every row a query selects is fetched by exactly one of its tasks, and no
\* other row is: what a database reads in the text of a block's sub-query is the
\* condition of the query, and the conditions of the blocks neither overlap nor
\* leave a gap at the bounds of the range.  For a clause with a bound outside
\* the stream, in particular one without bounds or with an OR, rows can be
\* missed; they are fetched twice only when the range has a block that reaches
\* past the largest time.
RowsInOneTask == schema # NoSchema => schema \in SoundSchemas

-----------------------------------------------------------------------------
\* "OR condition detected, using widest possible date_time range": whatever an
\* OR selects among the blocks an id can name is fetched by some task.
OrTakesWidestRange ==
    schema # NoSchema =>
       \A where \in Clauses, row \in RowsOf(schema) :
          /\ where.op = "or" /\ Selects(where, row)
          /\ row.date_time < schema.start + MaxId * schema.range
          => Fetching(schema, where, row) # {} \/ Refused(schema, where)
=============================================================================
