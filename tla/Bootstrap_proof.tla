--------------------------- MODULE Bootstrap_proof ---------------------------
(***************************************************************************)
(* Proofs about Bootstrap: whatever is cut short and however often, and    *)
(* for any employees, tables, rows and readers.                            *)
(***************************************************************************)
EXTENDS Bootstrap, TLAPS

(* The tables in the order of the script. *)
LEMMA OrderFacts ==
    /\ N \in Nat
    /\ N >= 1
    /\ Order[1] = Core
    /\ \A k \in 1..N : Order[k] \in Tables
    /\ \A t \in Tables : \E k \in 1..N : Order[k] = t
<1>1. Catalog \in Seq(Requestable)
  BY DbAssumption
<1>2. /\ N = Len(Catalog) + 1
      /\ Order[1] = Core
      /\ \A k \in 2..N : Order[k] = Catalog[k - 1]
      /\ Len(Catalog) \in Nat
      /\ DOMAIN Catalog = 1..Len(Catalog)
  BY <1>1 DEF Order, N
<1>3. \A k \in 1..N : Order[k] \in Tables
  BY <1>2 DEF Tables, Requestable
<1>4. ASSUME NEW t \in Tables
      PROVE  \E k \in 1..N : Order[k] = t
  <2>1. CASE t = Core
    BY <1>2, <2>1
  <2>2. CASE t \in Requestable
    <3>1. PICK k \in 1..Len(Catalog) : Catalog[k] = t
      BY <1>2, <2>2 DEF Requestable
    <3>2. k + 1 \in 2..N /\ Order[k + 1] = t
      BY <1>2, <3>1
    <3> QED  BY <1>2, <3>2
  <2> QED  BY <2>1, <2>2 DEF Tables
<1> QED  BY <1>2, <1>3, <1>4

LEMMA CatalogFacts ==
    /\ Len(Catalog) \in Nat
    /\ DOMAIN Catalog = 1..Len(Catalog)
    /\ \A k \in 1..Len(Catalog) : Catalog[k] \in Requestable
    /\ Requestable \subseteq Tables
    /\ Core \in Tables
    /\ Core \notin Requestable
    /\ \A t \in Tables : Rows[t] \in SUBSET Employees
<1>1. Catalog \in Seq(Requestable)
  BY DbAssumption
<1> QED  BY <1>1, DbAssumption DEF Requestable, Tables

(* A seed is always at one of its statements' tables. *)
LEMMA SubjectIsTable ==
    ASSUME NEW group \in {Drops, Creates, Inserts}, AtStatement(group), TypeOK
    PROVE  /\ seeder.next - group \in 1..N
           /\ Subject(group) = Order[seeder.next - group]
           /\ Subject(group) \in Tables
<1>1. seeder.next \in Nat /\ group \in Nat
  BY OrderFacts DEF TypeOK, DbTypeOK, Seeder, Drops, Creates, Inserts
<1>2. seeder.next - group \in 1..N
  BY <1>1, OrderFacts DEF AtStatement
<1> QED  BY <1>2, OrderFacts DEF Subject

-----------------------------------------------------------------------------
(* Types. *)

LEMMA NothingIsTyped ==
    /\ NoRows \in [Tables -> SUBSET Employees]
    /\ NoSeeder \in Seeder
    /\ NoReader \in Reader
BY DEF NoRows, NoSeeder, NoReader, Seeder, Reader

(* The seed's statements keep the types. *)
LEMMA SeedStepKeepsTypes ==
    TypeOK /\ RunSeeder => TypeOK'
<1> SUFFICES ASSUME TypeOK, SeedStep, UNCHANGED <<boot, chroma, cut, byHand>>
             PROVE  TypeOK'
  BY DEF RunSeeder
<1>1. DbTypeOK /\ seeder \in Seeder /\ rows \in [Tables -> SUBSET Employees]
      /\ made \in SUBSET Tables /\ reader \in [Readers -> Reader]
  BY DEF TypeOK, DbTypeOK
<1>2. CASE DropTable
  <2>1. Subject(Drops) \in Tables
    BY <1>2, SubjectIsTable DEF DropTable
  <2>2. reader' \in [Readers -> Reader]
    BY <1>1, <1>2 DEF DropTable, Reader
  <2>3. seeder' \in Seeder
    BY <1>1, <1>2 DEF DropTable, NextStatement, Seeder
  <2> QED  BY <1>1, <1>2, <2>1, <2>2, <2>3 DEF DropTable, TypeOK, DbTypeOK
<1>3. CASE CreateTable
  <2>1. Subject(Creates) \in Tables
    BY <1>3, SubjectIsTable DEF CreateTable
  <2>2. seeder' \in Seeder
    BY <1>1, <1>3 DEF CreateTable, NextStatement, Seeder
  <2> QED  BY <1>1, <1>3, <2>1, <2>2 DEF CreateTable, TypeOK, DbTypeOK
<1>4. CASE InsertRows
  <2>1. Subject(Inserts) \in Tables
    BY <1>4, SubjectIsTable DEF InsertRows
  <2>2. [seeder.pending EXCEPT ![Subject(Inserts)] = Rows[Subject(Inserts)]]
            \in [Tables -> SUBSET Employees]
    BY <1>1, <2>1, CatalogFacts DEF Seeder
  <2>3. \A p \in [Tables -> SUBSET Employees] :
            [seeder EXCEPT !.next = @ + 1, !.pending = p] \in Seeder
    <3>1. \A n \in Nat : \A p \in [Tables -> SUBSET Employees] :
              [seeder EXCEPT !.next = n, !.pending = p] \in Seeder
      BY <1>1 DEF Seeder
    <3>2. seeder.next + 1 \in Nat
      BY <1>1 DEF Seeder
    <3> QED  BY <3>1, <3>2
  <2>4. seeder' \in Seeder
    BY <1>4, <2>2, <2>3 DEF InsertRows
  <2> QED  BY <1>1, <1>4, <2>4 DEF InsertRows, TypeOK, DbTypeOK
<1>5. CASE Commit
  <2>1. rows' \in [Tables -> SUBSET Employees]
    BY <1>1, <1>5 DEF Commit, Seeder
  <2> QED  BY <1>1, <1>5, <2>1, NothingIsTyped DEF Commit, TypeOK, DbTypeOK
<1> QED  BY <1>2, <1>3, <1>4, <1>5 DEF SeedStep

(* So do the steps of a search. *)
LEMMA ReadStepKeepsTypes ==
    ASSUME TypeOK, NEW q \in Readers, RunReader(q)
    PROVE  TypeOK'
<1>1. reader \in [Readers -> Reader] /\ reader[q] \in Reader
  BY DEF TypeOK, DbTypeOK
<1>2. CASE ReadCore(q)
  <2>1. reader' \in [Readers -> Reader]
    BY <1>1, <1>2, CatalogFacts DEF ReadCore, Reader
  <2> QED  BY <1>2, <2>1 DEF ReadCore, RunReader, TypeOK, DbTypeOK
<1>3. CASE SkipTable(q)
  <2>1. reader' \in [Readers -> Reader]
    BY <1>1, <1>3 DEF SkipTable, Reader
  <2> QED  BY <1>3, <2>1 DEF SkipTable, RunReader, TypeOK, DbTypeOK
<1>4. CASE ReadTable(q)
  <2>1. Upcoming(q) \in Tables
    BY <1>1, <1>4, CatalogFacts DEF ReadTable, AtTable, Upcoming, Reader
  <2>2. reader' \in [Readers -> Reader]
    BY <1>1, <1>4, <2>1 DEF ReadTable, Reader
  <2> QED  BY <1>4, <2>2 DEF ReadTable, RunReader, TypeOK, DbTypeOK
<1>5. CASE Return(q)
  <2>1. reader' \in [Readers -> Reader]
    BY <1>1, <1>5 DEF Return, Reader
  <2> QED  BY <1>5, <2>1 DEF Return, RunReader, TypeOK, DbTypeOK
<1> QED  BY <1>2, <1>3, <1>4, <1>5 DEF RunReader, ReadStep

(* And a search that is begun. *)
LEMMA AskKeepsTypes ==
    ASSUME TypeOK, NEW q \in Readers, NEW e \in Employees, NEW names,
           AskServer(q, e, names)
    PROVE  TypeOK'
<1>1. [NoReader EXCEPT !.pc = "core", !.employee = e,
                       !.requested = Requested(names)] \in Reader
  BY NothingIsTyped DEF Reader, Requested
<1>2. reader' \in [Readers -> Reader]
  BY <1>1 DEF TypeOK, DbTypeOK, AskServer, Ask
<1> QED  BY <1>2 DEF TypeOK, DbTypeOK, AskServer, Ask

LEMMA TypeInductive == TypeOK /\ [Next]_vars => TypeOK'
<1> SUFFICES ASSUME TypeOK, [Next]_vars
             PROVE  TypeOK'
  OBVIOUS
<1>1. CASE BootStep
  <2>1. [NoSeeder EXCEPT !.running = TRUE, !.next = 1] \in Seeder
    BY NothingIsTyped DEF Seeder
  <2> QED
    BY <1>1, <2>1 DEF BootStep, StartContainer, SeedDb, KeepDb, SeedDone,
       IngestStore, KeepStore, OpenStore, FillStore, GoOn, ConnectSeeder,
       TypeOK, DbTypeOK, BootPCs, dbVars
<1>2. CASE RunSeeder
  BY <1>2, SeedStepKeepsTypes
<1>3. CASE StopContainer
  BY <1>3, NothingIsTyped DEF StopContainer, TypeOK, DbTypeOK, BootPCs
<1>4. CASE SeedByHand
  <2>1. [NoSeeder EXCEPT !.running = TRUE, !.next = 1] \in Seeder
    BY NothingIsTyped DEF Seeder
  <2> QED  BY <1>4, <2>1 DEF SeedByHand, ConnectSeeder, TypeOK, DbTypeOK
<1>5. CASE InterruptSeed
  BY <1>5, NothingIsTyped DEF InterruptSeed, TypeOK, DbTypeOK
<1>6. CASE \E q \in Readers :
              \/ \E e \in Employees, names \in SUBSET (Requestable \union {Unknown}) :
                     AskServer(q, e, names)
              \/ RunReader(q)
  BY <1>6, AskKeepsTypes, ReadStepKeepsTypes
<1>7. CASE UNCHANGED vars
  BY <1>7 DEF vars, dbVars, TypeOK, DbTypeOK
<1> QED  BY <1>1, <1>2, <1>3, <1>4, <1>5, <1>6, <1>7 DEF Next

LEMMA TypeInitial == Init => TypeOK
BY NothingIsTyped DEF Init, DbInit, TypeOK, DbTypeOK, BootPCs

(* Every reachable state is well typed. *)
THEOREM TypeCorrect == Spec => []TypeOK
BY TypeInitial, TypeInductive, PTL DEF Spec

-----------------------------------------------------------------------------
(* The database: a seed empties the core table first and has nothing in it *)
(* again before the commit, by which time every other table is there.      *)

SeedProgress ==
    /\ seeder.next \in 1..CommitAt
    /\ seeder.next > 1 => rows[Core] = {}
    /\ \A k \in 1..N : k < seeder.next => rows[Order[k]] = {}
    /\ \A k \in 1..N : Creates + k < seeder.next => Order[k] \in made
    /\ \A k \in 1..N :
           Inserts + k < seeder.next => seeder.pending[Order[k]] = Rows[Order[k]]

SeedInv ==
    /\ TypeOK
    /\ CoreRowsMeanAllRows
    /\ seeder.running => SeedProgress

(* Where SeedInv looks. *)
LEMMA SeedInvStable ==
    SeedInv /\ TypeOK' /\ UNCHANGED <<made, rows>>
        /\ (seeder' = seeder \/ ~seeder'.running) => SeedInv'
BY DEF SeedInv, SeedProgress, CoreRowsMeanAllRows, Seeded

LEMMA ConnectKeepsSeedInv ==
    SeedInv /\ TypeOK' /\ ConnectSeeder => SeedInv'
<1> SUFFICES ASSUME SeedInv, TypeOK', ConnectSeeder
             PROVE  SeedInv'
  OBVIOUS
<1>1. seeder'.next = 1
  BY DEF ConnectSeeder, NoSeeder
<1>2. SeedProgress'
  BY <1>1, OrderFacts DEF SeedProgress, CommitAt, Creates, Inserts
<1> QED  BY <1>2 DEF ConnectSeeder, SeedInv, CoreRowsMeanAllRows, Seeded

LEMMA DropKeepsSeedInv ==
    SeedInv /\ TypeOK' /\ DropTable => SeedInv'
<1> SUFFICES ASSUME SeedInv, TypeOK', DropTable
             PROVE  SeedInv'
  OBVIOUS
<1> DEFINE n == seeder.next
<1>1. /\ n \in 1..N
      /\ Subject(Drops) = Order[n]
      /\ Order[n] \in Tables
      /\ seeder.running
  <2>1. AtStatement(Drops) /\ TypeOK
    BY DEF DropTable, SeedInv
  <2> QED  BY <2>1, SubjectIsTable, OrderFacts DEF Drops, AtStatement, TypeOK, DbTypeOK, Seeder
<1>2. seeder'.next = n + 1
  BY DEF DropTable, NextStatement, SeedInv, TypeOK, DbTypeOK, Seeder
<1>3. \A t \in Tables : rows'[t] = IF t = Order[n] THEN {} ELSE rows[t]
  BY <1>1 DEF DropTable, SeedInv, TypeOK, DbTypeOK
<1>4. rows'[Core] = {}
  BY <1>1, <1>3, OrderFacts, CatalogFacts DEF SeedInv, SeedProgress
<1>5. \A k \in 1..N : k < n + 1 => rows'[Order[k]] = {}
  BY <1>1, <1>3, OrderFacts DEF SeedInv, SeedProgress
<1>6. SeedProgress'
  BY <1>1, <1>2, <1>4, <1>5, OrderFacts DEF SeedProgress, CommitAt, Creates, Inserts
<1> QED  BY <1>4, <1>6 DEF SeedInv, CoreRowsMeanAllRows

LEMMA CreateKeepsSeedInv ==
    SeedInv /\ TypeOK' /\ CreateTable => SeedInv'
<1> SUFFICES ASSUME SeedInv, TypeOK', CreateTable
             PROVE  SeedInv'
  OBVIOUS
<1> DEFINE n == seeder.next
<1>1. /\ n - Creates \in 1..N
      /\ Subject(Creates) = Order[n - Creates]
      /\ seeder.running
      /\ n \in Nat
  <2>1. AtStatement(Creates) /\ TypeOK
    BY DEF CreateTable, SeedInv
  <2> QED  BY <2>1, SubjectIsTable DEF AtStatement, TypeOK, DbTypeOK, Seeder
<1>2. seeder'.next = n + 1 /\ seeder'.pending = seeder.pending
  BY DEF CreateTable, NextStatement, SeedInv, TypeOK, DbTypeOK, Seeder
<1>3. rows' = rows /\ made' = made \union {Order[n - Creates]}
  BY <1>1 DEF CreateTable
<1>4. rows[Core] = {} /\ \A k \in 1..N : rows[Order[k]] = {}
  BY <1>1, OrderFacts DEF SeedInv, SeedProgress, Creates
<1>5. \A k \in 1..N : Creates + k < n + 1 => Order[k] \in made'
  BY <1>1, <1>3, OrderFacts DEF SeedInv, SeedProgress, Creates
<1>6. SeedProgress'
  BY <1>1, <1>2, <1>3, <1>4, <1>5, OrderFacts DEF SeedProgress, CommitAt, Creates, Inserts
<1> QED  BY <1>3, <1>4, <1>6 DEF SeedInv, CoreRowsMeanAllRows

LEMMA InsertKeepsSeedInv ==
    SeedInv /\ TypeOK' /\ InsertRows => SeedInv'
<1> SUFFICES ASSUME SeedInv, TypeOK', InsertRows
             PROVE  SeedInv'
  OBVIOUS
<1> DEFINE n == seeder.next
<1>1. /\ n - Inserts \in 1..N
      /\ Subject(Inserts) = Order[n - Inserts]
      /\ Order[n - Inserts] \in Tables
      /\ seeder.running
      /\ n \in Nat
  <2>1. AtStatement(Inserts) /\ TypeOK
    BY DEF InsertRows, SeedInv
  <2> QED  BY <2>1, SubjectIsTable, OrderFacts DEF AtStatement, TypeOK, DbTypeOK, Seeder
<1>2. /\ seeder'.next = n + 1
      /\ seeder'.pending = [seeder.pending EXCEPT ![Subject(Inserts)] = Rows[Subject(Inserts)]]
  BY DEF InsertRows, SeedInv, TypeOK, DbTypeOK, Seeder
<1>3. seeder.pending \in [Tables -> SUBSET Employees]
  BY DEF SeedInv, TypeOK, DbTypeOK, Seeder
<1>4. \A t \in Tables :
          seeder'.pending[t] = IF t = Order[n - Inserts] THEN Rows[t] ELSE seeder.pending[t]
  BY <1>1, <1>2, <1>3
<1>5. \A k \in 1..N : Inserts + k < n + 1 => seeder'.pending[Order[k]] = Rows[Order[k]]
  BY <1>1, <1>4, OrderFacts DEF SeedInv, SeedProgress, Inserts
<1>6. rows' = rows /\ made' = made
  BY DEF InsertRows
<1>7. rows[Core] = {} /\ \A k \in 1..N : rows[Order[k]] = {} /\ Order[k] \in made
  <2>1. n > 1 /\ \A k \in 1..N : k < n /\ Creates + k < n
    BY <1>1, OrderFacts DEF Inserts, Creates
  <2> QED  BY <1>1, <2>1 DEF SeedInv, SeedProgress
<1>8. SeedProgress'
  BY <1>1, <1>2, <1>5, <1>6, <1>7, OrderFacts DEF SeedProgress, CommitAt, Creates, Inserts
<1> QED  BY <1>6, <1>7, <1>8 DEF SeedInv, CoreRowsMeanAllRows

(* The commit completes the database. *)
LEMMA CommitSeeds ==
    SeedInv /\ Commit => Seeded'
<1> SUFFICES ASSUME SeedInv, Commit
             PROVE  Seeded'
  OBVIOUS
<1>1. \A k \in 1..N : /\ rows[Order[k]] = {}
                      /\ Order[k] \in made
                      /\ seeder.pending[Order[k]] = Rows[Order[k]]
  BY OrderFacts DEF Commit, CommitAt, SeedInv, SeedProgress, Creates, Inserts
<1>2. \A t \in Tables : rows[t] = {} /\ t \in made /\ seeder.pending[t] = Rows[t]
  BY <1>1, OrderFacts
<1>3. made = Tables
  BY <1>2 DEF SeedInv, TypeOK, DbTypeOK
<1>4. rows' = [t \in Tables |-> Rows[t]]
  BY <1>2 DEF Commit
<1>5. Rows = [t \in Tables |-> Rows[t]]
  BY DbAssumption
<1> QED  BY <1>3, <1>4, <1>5 DEF Seeded, Commit

LEMMA SeedInvInductive == SeedInv /\ [Next]_vars => SeedInv'
<1> SUFFICES ASSUME SeedInv, [Next]_vars
             PROVE  SeedInv'
  OBVIOUS
<1>1. TypeOK'
  BY TypeInductive DEF SeedInv
<1>2. CASE BootStep
  <2>1. ConnectSeeder \/ UNCHANGED dbVars
    BY <1>2 DEF BootStep, StartContainer, SeedDb, KeepDb, SeedDone, IngestStore,
       KeepStore, OpenStore, FillStore
  <2> QED  BY <1>1, <2>1, ConnectKeepsSeedInv, SeedInvStable DEF dbVars
<1>3. CASE RunSeeder
  <2>1. CASE Commit
    <3>1. ~seeder'.running
      BY <2>1 DEF Commit, NoSeeder
    <3> QED  BY <1>1, <2>1, <3>1, CommitSeeds DEF SeedInv, CoreRowsMeanAllRows
  <2> QED
    BY <1>1, <1>3, <2>1, DropKeepsSeedInv, CreateKeepsSeedInv, InsertKeepsSeedInv
    DEF RunSeeder, SeedStep
<1>4. CASE StopContainer \/ InterruptSeed
  <2>1. ~seeder'.running /\ UNCHANGED <<made, rows>>
    BY <1>4 DEF StopContainer, InterruptSeed, NoSeeder
  <2> QED  BY <1>1, <2>1, SeedInvStable
<1>5. CASE SeedByHand
  BY <1>1, <1>5, ConnectKeepsSeedInv DEF SeedByHand
<1>6. ASSUME NEW q \in Readers, NEW e, NEW names,
             AskServer(q, e, names) \/ RunReader(q)
      PROVE  SeedInv'
  <2>1. UNCHANGED <<made, rows, seeder>>
    BY <1>6 DEF AskServer, Ask, RunReader, ReadStep, ReadCore, SkipTable,
       ReadTable, Return
  <2> QED  BY <1>1, <2>1, SeedInvStable
<1>7. CASE UNCHANGED vars
  BY <1>1, <1>7, SeedInvStable DEF vars, dbVars
<1> QED  BY <1>2, <1>3, <1>4, <1>5, <1>6, <1>7 DEF Next

LEMMA SeedInvInitial == Init => SeedInv
BY TypeInitial, CatalogFacts DEF Init, DbInit, SeedInv, CoreRowsMeanAllRows, NoRows, NoSeeder

(* Whoever has a core record has every other record the script has. *)
THEOREM CoreMeansAll == Spec => []CoreRowsMeanAllRows
<1>1. SeedInv => CoreRowsMeanAllRows
  BY DEF SeedInv
<1> QED  BY <1>1, SeedInvInitial, SeedInvInductive, PTL DEF Spec

-----------------------------------------------------------------------------
(* The readers: while no table was dropped since a search got its core     *)
(* record, the database stays complete and the search misses nothing.      *)

Passed(q) == {Catalog[k] : k \in 1..reader[q].passed}

ReaderProgress(q) ==
    /\ reader[q].pc = "core" => reader[q].passed = 0
    /\ reader[q].pc = "tables" /\ ~reader[q].torn =>
           /\ rows[Core] # {}
           /\ reader[q].passed <= Len(Catalog)
           /\ reader[q].found =
                  Owed(reader[q].employee, reader[q].requested \intersect Passed(q))
    /\ reader[q].pc \in {"done", "raised"} /\ Core \in reader[q].found /\ ~reader[q].torn =>
           /\ reader[q].pc = "done"
           /\ reader[q].found = Owed(reader[q].employee, reader[q].requested)

ReaderInv == \A q \in Readers : ReaderProgress(q)

LEMMA NoReaderProgress ==
    ASSUME NEW q \in Readers, reader'[q] = NoReader \/ reader'[q].pc = "idle"
    PROVE  ReaderProgress(q)'
BY DEF ReaderProgress, NoReader

(* A reader that does not move keeps what it has while the core table does. *)
LEMMA ReaderStable ==
    ASSUME NEW q \in Readers, ReaderProgress(q), reader'[q] = reader[q],
           rows[Core] # {} => rows'[Core] # {}
    PROVE  ReaderProgress(q)'
BY DEF ReaderProgress, Owed, Passed

(* One more table of the catalog. *)
LEMMA PassedOneMore ==
    ASSUME TypeOK, NEW q \in Readers, AtTable(q),
           reader'[q].passed = reader[q].passed + 1
    PROVE  /\ Passed(q)' = Passed(q) \union {Upcoming(q)}
           /\ Upcoming(q) \in Requestable
           /\ reader'[q].passed <= Len(Catalog)
<1>1. reader[q].passed \in Nat /\ reader[q].passed < Len(Catalog)
  BY DEF AtTable, TypeOK, DbTypeOK, Reader
<1>2. 1..(reader[q].passed + 1) = 1..reader[q].passed \union {reader[q].passed + 1}
  BY <1>1
<1> QED  BY <1>1, <1>2, CatalogFacts DEF Passed, Upcoming

LEMMA ReadCoreProgress ==
    ASSUME SeedInv, NEW q \in Readers, ReaderProgress(q), ReadCore(q)
    PROVE  ReaderProgress(q)'
<1>1. reader \in [Readers -> Reader] /\ reader[q].passed = 0
  BY DEF SeedInv, TypeOK, DbTypeOK, ReadCore, ReaderProgress
<1>2. Found(q, Core) => ~Missing(Core) /\ rows[Core] # {}
  BY CatalogFacts DEF SeedInv, CoreRowsMeanAllRows, Seeded, Found, Missing
<1>3. /\ reader'[q].passed = 0
      /\ reader'[q].pc = IF Missing(Core) THEN "raised"
                         ELSE IF Found(q, Core) THEN "tables" ELSE "done"
      /\ reader'[q].found = IF Found(q, Core) THEN {Core} ELSE {}
      /\ rows' = rows
  BY <1>1 DEF ReadCore, Reader
<1>4. Passed(q)' = {}
  BY <1>3 DEF Passed
<1>5. Owed(reader[q].employee, reader[q].requested \intersect Passed(q))' = {Core}
  BY <1>4 DEF Owed
<1>6. CASE Found(q, Core)
  <2>1. reader'[q].pc = "tables" /\ reader'[q].found = {Core} /\ rows'[Core] # {}
    BY <1>2, <1>3, <1>6
  <2>2. reader'[q].passed <= Len(Catalog)
    BY <1>3, CatalogFacts
  <2> QED  BY <1>5, <2>1, <2>2 DEF ReaderProgress
<1>7. CASE ~Found(q, Core)
  <2>1. reader'[q].pc \in {"raised", "done"} /\ Core \notin reader'[q].found
    BY <1>3, <1>7
  <2> QED  BY <2>1 DEF ReaderProgress
<1> QED  BY <1>6, <1>7

LEMMA SkipTableProgress ==
    ASSUME SeedInv, NEW q \in Readers, ReaderProgress(q), SkipTable(q)
    PROVE  ReaderProgress(q)'
<1>1. /\ AtTable(q)
      /\ rows' = rows
      /\ reader'[q] = [reader[q] EXCEPT !.passed = @ + 1]
      /\ reader[q] \in Reader
  BY DEF SeedInv, TypeOK, DbTypeOK, SkipTable
<1>2. /\ reader'[q].passed = reader[q].passed + 1
      /\ reader'[q].pc = "tables"
      /\ reader[q].pc = "tables"
      /\ reader'[q].requested = reader[q].requested
      /\ reader'[q].employee = reader[q].employee
      /\ reader'[q].found = reader[q].found
      /\ reader'[q].torn = reader[q].torn
  BY <1>1 DEF Reader, AtTable
<1>3. reader'[q].requested \intersect Passed(q)' = reader[q].requested \intersect Passed(q)
  BY <1>1, <1>2, PassedOneMore DEF SkipTable, SeedInv
<1>4. reader'[q].passed <= Len(Catalog)
  BY <1>1, <1>2, PassedOneMore DEF SeedInv
<1> QED  BY <1>1, <1>2, <1>3, <1>4 DEF ReaderProgress, Owed

LEMMA ReadTableProgress ==
    ASSUME SeedInv, NEW q \in Readers, ReaderProgress(q), ReadTable(q)
    PROVE  ReaderProgress(q)'
<1> DEFINE t == Upcoming(q)
<1>1. /\ AtTable(q)
      /\ t \in reader[q].requested
      /\ rows' = rows
      /\ reader \in [Readers -> Reader]
      /\ reader[q] \in Reader
  BY DEF SeedInv, TypeOK, DbTypeOK, ReadTable
<1>2. /\ reader'[q].passed = reader[q].passed + 1
      /\ reader[q].pc = "tables"
      /\ reader'[q].pc = IF Missing(t) THEN "raised" ELSE "tables"
      /\ reader'[q].requested = reader[q].requested
      /\ reader'[q].employee = reader[q].employee
      /\ reader'[q].found = IF Found(q, t) THEN reader[q].found \union {t}
                                            ELSE reader[q].found
      /\ reader'[q].torn = reader[q].torn
  BY <1>1 DEF ReadTable, Reader, AtTable
<1>3. /\ Passed(q)' = Passed(q) \union {t}
      /\ t \in Requestable
      /\ reader'[q].passed <= Len(Catalog)
  BY <1>1, <1>2, PassedOneMore DEF SeedInv
<1>4. CASE reader[q].torn
  BY <1>2, <1>4 DEF ReaderProgress
<1>5. CASE ~reader[q].torn
  <2>1. rows[Core] # {} /\ Seeded
    BY <1>2, <1>5 DEF ReaderProgress, SeedInv, CoreRowsMeanAllRows
  <2>2. ~Missing(t) /\ (Found(q, t) <=> reader[q].employee \in Rows[t])
    BY <1>3, <2>1, CatalogFacts DEF Seeded, Missing, Found
  <2>3. reader[q].found =
            Owed(reader[q].employee, reader[q].requested \intersect Passed(q))
    BY <1>2, <1>5 DEF ReaderProgress
  <2>4. reader'[q].found =
            Owed(reader[q].employee, reader[q].requested \intersect (Passed(q) \union {t}))
    BY <1>1, <1>2, <2>2, <2>3 DEF Owed
  <2>5. reader'[q].pc = "tables"
    BY <1>2, <2>2
  <2> QED  BY <1>1, <1>2, <1>3, <2>1, <2>4, <2>5 DEF ReaderProgress, Owed
<1> QED  BY <1>4, <1>5

LEMMA ReturnProgress ==
    ASSUME SeedInv, NEW q \in Readers, ReaderProgress(q), Return(q)
    PROVE  ReaderProgress(q)'
<1>1. /\ reader[q] \in Reader
      /\ reader'[q] = [reader[q] EXCEPT !.pc = "done"]
      /\ reader[q].pc = "tables"
      /\ reader[q].passed = Len(Catalog)
  BY DEF SeedInv, TypeOK, DbTypeOK, Return
<1>2. Passed(q) = Requestable
  BY <1>1, CatalogFacts DEF Passed, Requestable
<1>3. reader[q].requested \intersect Passed(q) = reader[q].requested
  BY <1>1, <1>2 DEF Reader
<1> QED  BY <1>1, <1>3 DEF ReaderProgress, Reader, Owed

LEMMA ReaderInvInductive ==
    SeedInv /\ ReaderInv /\ [Next]_vars => ReaderInv'
<1> SUFFICES ASSUME SeedInv, [Next]_vars, NEW q \in Readers, ReaderInv
             PROVE  ReaderProgress(q)'
  BY DEF ReaderInv
<1> USE DEF ReaderInv
<1>1. reader \in [Readers -> Reader] /\ reader[q] \in Reader
  BY DEF SeedInv, TypeOK, DbTypeOK
<1>2. CASE RunSeeder
  <2>1. CASE DropTable
    <3>1. reader'[q] = [reader[q] EXCEPT !.torn = @ \/ reader[q].pc = "tables"]
      BY <1>1, <2>1 DEF DropTable
    <3>2. /\ reader'[q].pc = reader[q].pc
          /\ reader'[q].passed = reader[q].passed
          /\ reader'[q].requested = reader[q].requested
          /\ reader'[q].employee = reader[q].employee
          /\ reader'[q].found = reader[q].found
          /\ reader[q].pc = "tables" => reader'[q].torn
          /\ reader[q].torn => reader'[q].torn
      BY <1>1, <3>1 DEF Reader
    <3> QED  BY <3>2 DEF ReaderProgress, Owed
  <2>2. CASE CreateTable \/ InsertRows
    BY <2>2, ReaderStable DEF CreateTable, InsertRows
  <2>3. CASE Commit
    <3>1. reader' = reader
      BY <2>3 DEF Commit
    <3>2. rows[Core] # {} => rows'[Core] # {}
      BY <2>3, CatalogFacts DEF Commit
    <3> QED  BY <3>1, <3>2, ReaderStable
  <2> QED  BY <1>2, <2>1, <2>2, <2>3 DEF RunSeeder, SeedStep
<1>3. CASE StopContainer
  BY <1>3, NoReaderProgress DEF StopContainer
<1>4. CASE BootStep \/ SeedByHand \/ InterruptSeed \/ UNCHANGED vars
  <2>1. UNCHANGED <<rows, reader>>
    BY <1>4 DEF BootStep, StartContainer, SeedDb, KeepDb, SeedDone, IngestStore,
       KeepStore, OpenStore, FillStore, ConnectSeeder, SeedByHand, InterruptSeed,
       vars, dbVars
  <2> QED  BY <2>1, ReaderStable
<1>5. ASSUME NEW p \in Readers, NEW e \in Employees, NEW names, AskServer(p, e, names)
      PROVE  ReaderProgress(q)'
  <2>1. CASE p = q
    <3>1. reader'[q].pc = "core" /\ reader'[q].passed = 0
      BY <1>1, <1>5, <2>1 DEF AskServer, Ask, NoReader
    <3> QED  BY <3>1 DEF ReaderProgress
  <2>2. CASE p # q
    BY <1>1, <1>5, <2>2, ReaderStable DEF AskServer, Ask
  <2> QED  BY <2>1, <2>2
<1>6. ASSUME NEW p \in Readers, RunReader(p)
      PROVE  ReaderProgress(q)'
  <2>1. CASE p = q
    BY <1>6, <2>1, ReadCoreProgress, SkipTableProgress, ReadTableProgress,
       ReturnProgress DEF RunReader, ReadStep
  <2>2. CASE p # q
    <3>1. reader'[q] = reader[q] /\ rows' = rows
      BY <1>1, <1>6, <2>2 DEF RunReader, ReadStep, ReadCore, SkipTable, ReadTable, Return
    <3> QED  BY <3>1, ReaderStable
  <2> QED  BY <2>1, <2>2
<1> QED  BY <1>2, <1>3, <1>4, <1>5, <1>6 DEF Next

LEMMA ReaderInvInitial == Init => ReaderInv
<1> SUFFICES ASSUME Init, NEW q \in Readers
             PROVE  ReaderProgress(q)
  BY DEF ReaderInv
<1>1. reader[q].pc = "idle"
  BY DEF Init, DbInit, NoReader
<1> QED  BY <1>1 DEF ReaderProgress

(* A search whose tables were not dropped under it answers in full. *)
THEOREM WholeAnswers == Spec => []AnswersAreWhole
<1>1. ReaderInv => AnswersAreWhole
  BY DEF ReaderInv, ReaderProgress, AnswersAreWhole
<1> QED
  BY <1>1, ReaderInvInitial, ReaderInvInductive, SeedInvInitial, SeedInvInductive, PTL
  DEF Spec

-----------------------------------------------------------------------------
(* The script: a database file that no seed was cut short on is complete,  *)
(* and the script itself only seeds where there is nothing to lose.        *)

BootInv ==
    /\ boot \notin {"down", "testDb"} => file
    /\ ~file => made = {} /\ ~seeder.running
    /\ seeder.running => boot = "seed" \/ (boot = "up" /\ byHand)
    /\ seeder.running /\ boot = "seed" /\ seeder.next <= N => made = {}
    /\ file /\ ~seeder.running /\ ~cut => Seeded
    /\ boot = "up" /\ ~cut => chroma = "filled"
    /\ chroma = "made" /\ ~cut => boot = "fill"

LEMMA BootInvInductive ==
    SeedInv /\ BootInv /\ [Next]_vars => BootInv'
<1> SUFFICES ASSUME SeedInv, BootInv, [Next]_vars
             PROVE  BootInv'
  OBVIOUS
<1>1. /\ boot \in BootPCs
      /\ chroma \in {"absent", "made", "filled"}
      /\ seeder \in Seeder
      /\ file \in BOOLEAN /\ cut \in BOOLEAN
  BY DEF SeedInv, TypeOK, DbTypeOK
<1>2. CASE BootStep
  <2>1. CASE SeedDb
    <3>1. seeder'.running /\ boot' = "seed" /\ file' /\ made' = {}
      BY <2>1 DEF SeedDb, ConnectSeeder, GoOn, BootInv, NoSeeder
    <3>2. chroma' = chroma /\ cut' = cut /\ boot = "testDb"
      BY <2>1 DEF SeedDb, GoOn
    <3> QED  BY <3>1, <3>2 DEF BootInv
  <2>2. CASE StartContainer \/ KeepDb \/ SeedDone \/ IngestStore \/ KeepStore
    BY <1>1, <2>2 DEF StartContainer, KeepDb, SeedDone, IngestStore, KeepStore,
       GoOn, BootInv, Seeded, dbVars
  <2>3. CASE OpenStore \/ FillStore
    BY <1>1, <2>3 DEF OpenStore, FillStore, GoOn, BootInv, Seeded, dbVars
  <2> QED  BY <1>2, <2>1, <2>2, <2>3 DEF BootStep
<1>3. CASE RunSeeder
  <2>1. UNCHANGED <<boot, chroma, cut, byHand, file>>
    BY <1>3 DEF RunSeeder, SeedStep, DropTable, CreateTable, InsertRows, Commit
  <2>2. CASE Commit
    <3>1. Seeded' /\ ~seeder'.running
      BY <2>2, CommitSeeds DEF Commit, NoSeeder
    <3>2. seeder.running
      BY <2>2 DEF Commit
    <3> QED  BY <2>1, <3>1, <3>2 DEF BootInv
  <2>3. CASE DropTable
    <3>1. seeder.running /\ seeder'.running /\ seeder'.next = seeder.next + 1
      BY <1>1, <2>3 DEF DropTable, AtStatement, NextStatement, Seeder
    <3>2. seeder.next <= N /\ made' \subseteq made
      BY <1>1, <2>3, OrderFacts DEF DropTable, AtStatement, Drops, Seeder
    <3>3. made = {} => made' = {}
      BY <3>2
    <3> QED  BY <1>1, <2>1, <3>1, <3>2, <3>3, OrderFacts DEF BootInv, Seeder
  <2>4. CASE CreateTable
    <3>1. seeder.running /\ seeder'.running /\ ~(seeder'.next <= N)
      BY <1>1, <2>4, OrderFacts DEF CreateTable, AtStatement, NextStatement, Creates, Seeder
    <3> QED  BY <2>1, <3>1 DEF BootInv
  <2>5. CASE InsertRows
    <3>1. seeder.running /\ seeder'.running /\ ~(seeder'.next <= N)
      BY <1>1, <2>5, OrderFacts DEF InsertRows, AtStatement, Inserts, Seeder
    <3> QED  BY <2>1, <3>1 DEF BootInv
  <2> QED  BY <1>3, <2>2, <2>3, <2>4, <2>5 DEF RunSeeder, SeedStep
<1>4. CASE StopContainer
  <2>1. /\ boot' = "down" /\ ~seeder'.running
        /\ cut' = (cut \/ seeder.running \/ boot \in {"open", "fill"})
        /\ UNCHANGED <<file, made, rows, chroma, byHand>>
    BY <1>4 DEF StopContainer, NoSeeder
  <2> QED  BY <1>1, <2>1 DEF BootInv, Seeded
<1>5. CASE SeedByHand
  <2>1. /\ boot = "up" /\ boot' = "up" /\ seeder'.running /\ file' /\ byHand'
        /\ UNCHANGED <<chroma, cut>>
    BY <1>5 DEF SeedByHand, ConnectSeeder, NoSeeder
  <2> QED  BY <2>1 DEF BootInv
<1>6. CASE InterruptSeed
  <2>1. cut' /\ ~seeder'.running /\ UNCHANGED <<file, made, boot>>
    BY <1>6 DEF InterruptSeed, NoSeeder
  <2> QED  BY <2>1 DEF BootInv
<1>7. ASSUME NEW q \in Readers, NEW e, NEW names,
             AskServer(q, e, names) \/ RunReader(q)
      PROVE  BootInv'
  BY <1>7 DEF AskServer, Ask, RunReader, ReadStep, ReadCore, SkipTable, ReadTable,
     Return, BootInv, Seeded
<1>8. CASE UNCHANGED vars
  BY <1>8 DEF vars, dbVars, BootInv, Seeded
<1> QED  BY <1>2, <1>3, <1>4, <1>5, <1>6, <1>7, <1>8 DEF Next

LEMMA BootInvInitial == Init => BootInv
BY DEF Init, DbInit, NoSeeder, BootInv

(* Unless something was cut short, a server that is up serves everything. *)
THEOREM ServesWhole == Spec => []ServesWholeUnlessCut
<1>1. BootInv => ServesWholeUnlessCut
  BY DEF BootInv, ServesWholeUnlessCut
<1> QED
  BY <1>1, BootInvInitial, BootInvInductive, SeedInvInitial, SeedInvInductive, PTL
  DEF Spec

(* No boot takes rows away from a seeded database. *)
THEOREM BootsWipeNothing == Spec => SeededVolumeKept
<1> DEFINE Kept == Seeded /\ ~Seeded' => boot = "up" /\ byHand
<1>1. SeedInv /\ BootInv /\ [Next]_vars => [Kept]_vars
  <2> SUFFICES ASSUME SeedInv, BootInv, [Next]_vars, Seeded, ~Seeded'
               PROVE  boot = "up" /\ byHand
    OBVIOUS
  <2>1. ~UNCHANGED <<made, rows>>
    BY DEF Seeded
  <2>2. RunSeeder
    BY <2>1 DEF Next, BootStep, StartContainer, SeedDb, KeepDb, SeedDone,
       IngestStore, KeepStore, OpenStore, FillStore, StopContainer, SeedByHand,
       InterruptSeed, ConnectSeeder, AskServer, Ask, RunReader, ReadStep, ReadCore,
       SkipTable, ReadTable, Return, vars, dbVars
  <2>3. ~Commit
    BY CommitSeeds
  <2>4. ~CreateTable
    <3>1. CreateTable => Subject(Creates) \in Tables
      BY SubjectIsTable DEF CreateTable, SeedInv
    <3> QED  BY <3>1 DEF CreateTable, Seeded
  <2>5. DropTable
    BY <2>1, <2>2, <2>3, <2>4 DEF RunSeeder, SeedStep, InsertRows
  <2>6. seeder.running /\ seeder.next <= N
    BY <2>5, OrderFacts DEF DropTable, AtStatement, Drops, SeedInv, TypeOK,
       DbTypeOK, Seeder
  <2>7. made # {}
    BY CatalogFacts DEF Seeded
  <2> QED  BY <2>6, <2>7 DEF BootInv
<1> QED
  BY <1>1, BootInvInitial, BootInvInductive, SeedInvInitial, SeedInvInductive, PTL
  DEF Spec, SeededVolumeKept

=============================================================================
