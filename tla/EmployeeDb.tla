----------------------------- MODULE EmployeeDb -----------------------------
(***************************************************************************)
(* The employees database: data/seed_employees.py, which drops, recreates  *)
(* and fills its tables, and hr_rag/sources/employee_db.py, which reads it *)
(* one table and one connection at a time.                                 *)
(*                                                                         *)
(* SQLite, as used here (external): connecting creates the file; DROP and  *)
(* CREATE take effect at once (sqlite3 opens a transaction only for the    *)
(* INSERTs); the inserts become visible together when they are committed;  *)
(* a query reads one committed state.  One seed runs at a time.  The       *)
(* employee of a reader is its session's (ChatService.RecordScoped).       *)
(***************************************************************************)
EXTENDS Naturals, Sequences

CONSTANTS
    Readers,        \* calls of employee_db.search
    Employees,
    Core,           \* the employees table
    Catalog,        \* TABLE_CATALOG, in the order search goes through it
    Unknown,        \* a table name the model made up
    Rows,           \* Rows[t]: the employees the script has a row for in t
    None            \* no employee

Requestable == {Catalog[k] : k \in DOMAIN Catalog}

Tables == {Core} \union Requestable

ASSUME DbAssumption ==
    /\ Catalog \in Seq(Requestable)
    /\ \A j, k \in DOMAIN Catalog : Catalog[j] = Catalog[k] => j = k
    /\ Core \notin Requestable
    /\ Unknown \notin Tables
    /\ Rows \in [Tables -> SUBSET Employees]
    /\ None \notin Employees

VARIABLES
    file,           \* whether employees.db exists
    made,           \* the tables there are
    rows,           \* rows[t]: the employees with a committed row in table t
    seeder,         \* the run of seed() under way
    reader          \* reader[q]: the call of search() q is in

dbVars == <<file, made, rows, seeder, reader>>

NoRows == [t \in Tables |-> {}]

Seeder ==
    [running : BOOLEAN,
     next    : Nat,                               \* the statement it is at
     pending : [Tables -> SUBSET Employees]]      \* inserted, not committed

NoSeeder == [running |-> FALSE, next |-> 0, pending |-> NoRows]

Reader ==
    [pc        : {"idle", "core", "tables", "done", "raised"},
     employee  : Employees \union {None},
     requested : SUBSET Requestable,
     passed    : Nat,                   \* the tables of the catalog it is past
     found     : SUBSET Tables,         \* the tables a chunk came from
     torn      : BOOLEAN]               \* ghost: tables dropped after the core read

NoReader ==
    [pc |-> "idle", employee |-> None, requested |-> {}, passed |-> 0,
     found |-> {}, torn |-> FALSE]

DbTypeOK ==
    /\ file \in BOOLEAN
    /\ made \in SUBSET Tables
    /\ rows \in [Tables -> SUBSET Employees]
    /\ seeder \in Seeder
    /\ reader \in [Readers -> Reader]

DbInit ==
    /\ file = FALSE
    /\ made = {}
    /\ rows = NoRows
    /\ seeder = NoSeeder
    /\ reader = [q \in Readers |-> NoReader]

-----------------------------------------------------------------------------
(* seed(): five DROPs, five CREATEs, five INSERTs, COMMIT.                 *)

Order == <<Core>> \o Catalog

N == Len(Order)

\* The statements come in three groups of N, one statement for each table; a
\* group is named by the number of statements before it.
Drops == 0
Creates == N
Inserts == 2 * N
CommitAt == 3 * N + 1

AtStatement(group) == seeder.running /\ seeder.next \in (group + 1)..(group + N)

\* Mutant: the DROPs run in the opposite order.
SubjectReversed(group) ==
    IF group = Drops THEN Order[N + 1 - seeder.next]
                     ELSE Order[seeder.next - group]

Subject(group) == Order[seeder.next - group]

ConnectSeeder ==
    /\ ~seeder.running
    /\ file' = TRUE
    /\ seeder' = [NoSeeder EXCEPT !.running = TRUE, !.next = 1]
    /\ UNCHANGED <<made, rows, reader>>

NextStatement == seeder' = [seeder EXCEPT !.next = @ + 1]

\* A reader that has the core record is torn once its tables go.
DropTable ==
    /\ AtStatement(Drops)
    /\ made' = made \ {Subject(Drops)}
    /\ rows' = [rows EXCEPT ![Subject(Drops)] = {}]
    /\ NextStatement
    /\ reader' = [q \in Readers |->
                     [reader[q] EXCEPT !.torn = @ \/ reader[q].pc = "tables"]]
    /\ UNCHANGED file

CreateTable ==
    /\ AtStatement(Creates)
    /\ made' = made \union {Subject(Creates)}
    /\ NextStatement
    /\ UNCHANGED <<file, rows, reader>>

\* Mutant: each INSERT commits by itself.
InsertRowsCommitted ==
    /\ AtStatement(Inserts)
    /\ rows' = [rows EXCEPT ![Subject(Inserts)] = Rows[Subject(Inserts)]]
    /\ NextStatement
    /\ UNCHANGED <<file, made, reader>>

InsertRows ==
    /\ AtStatement(Inserts)
    /\ seeder' = [seeder EXCEPT
           !.next = @ + 1,
           !.pending = [@ EXCEPT ![Subject(Inserts)] = Rows[Subject(Inserts)]]]
    /\ UNCHANGED <<file, made, rows, reader>>

\* Mutant: the connection is closed without a commit.
CommitForgotten ==
    /\ seeder.running
    /\ seeder.next = CommitAt
    /\ seeder' = NoSeeder
    /\ UNCHANGED <<file, made, rows, reader>>

Commit ==
    /\ seeder.running
    /\ seeder.next = CommitAt
    /\ rows' = [t \in Tables |-> rows[t] \union seeder.pending[t]]
    /\ seeder' = NoSeeder
    /\ UNCHANGED <<file, made, reader>>

SeedStep == DropTable \/ CreateTable \/ InsertRows \/ Commit

-----------------------------------------------------------------------------
(* search(employee_id, tables).                                            *)

\* Mutant: any name is taken for a table.
RequestedUnchecked(names) == names

\* Names that are no table of the catalog are ignored.
Requested(names) == names \intersect Requestable

Ask(q, e, names) ==
    /\ reader[q].pc \in {"idle", "done", "raised"}
    /\ reader' = [reader EXCEPT ![q] =
           [NoReader EXCEPT !.pc = "core",
                            !.employee = e,
                            !.requested = Requested(names)]]
    /\ UNCHANGED <<file, made, rows, seeder>>

\* A query of table t finds the employee's row, finds none, or raises.
Found(q, t) == reader[q].employee \in rows[t]

Missing(t) == t \notin made

\* get_my_record; without a record nothing else is read.
ReadCore(q) ==
    /\ reader[q].pc = "core"
    /\ reader' = [reader EXCEPT
           ![q].pc = IF Missing(Core) THEN "raised"
                     ELSE IF Found(q, Core) THEN "tables" ELSE "done",
           ![q].found = IF Found(q, Core) THEN {Core} ELSE {}]
    /\ UNCHANGED <<file, made, rows, seeder>>

\* The table search tests for next.
Upcoming(q) == Catalog[reader[q].passed + 1]

AtTable(q) == reader[q].pc = "tables" /\ reader[q].passed < Len(Catalog)

SkipTable(q) ==
    /\ AtTable(q)
    /\ Upcoming(q) \notin reader[q].requested
    /\ reader' = [reader EXCEPT ![q].passed = @ + 1]
    /\ UNCHANGED <<file, made, rows, seeder>>

\* A requested table without a row is left out of the answer.
ReadTable(q) ==
    /\ AtTable(q)
    /\ Upcoming(q) \in reader[q].requested
    /\ reader' = [reader EXCEPT
           ![q].pc = IF Missing(Upcoming(q)) THEN "raised" ELSE @,
           ![q].passed = @ + 1,
           ![q].found = IF Found(q, Upcoming(q)) THEN @ \union {Upcoming(q)}
                                                 ELSE @]
    /\ UNCHANGED <<file, made, rows, seeder>>

Return(q) ==
    /\ reader[q].pc = "tables"
    /\ reader[q].passed = Len(Catalog)
    /\ reader' = [reader EXCEPT ![q].pc = "done"]
    /\ UNCHANGED <<file, made, rows, seeder>>

ReadStep(q) == ReadCore(q) \/ SkipTable(q) \/ ReadTable(q) \/ Return(q)

-----------------------------------------------------------------------------
(* Properties of the database alone.                                       *)

Seeded == made = Tables /\ rows = Rows

\* What search owes an employee with a core record who asks for the tables.
Owed(e, tables) == {Core} \union {t \in tables : e \in Rows[t]}

\* Whoever has a core record has all there is: the core table has rows only
\* while every table has its own, however often the script is cut short and
\* run again (seed_employees.py:150-189: DROP in this order, one transaction).
CoreRowsMeanAllRows == rows[Core] # {} => Seeded

\* A search that got the core record answers with everything asked for, and
\* does not raise over a name the model made up, unless the tables were dropped
\* between two of its queries: then it may leave tables out without a word
\* (employee_db.py:129-199).
AnswersAreWhole ==
    \A q \in Readers :
        /\ reader[q].pc \in {"done", "raised"}
        /\ Core \in reader[q].found
        /\ ~reader[q].torn
        => /\ reader[q].pc = "done"
           /\ reader[q].found = Owed(reader[q].employee, reader[q].requested)

=============================================================================
