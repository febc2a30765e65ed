----------------------------- MODULE Bootstrap -----------------------------
(***************************************************************************)
(* docker/entrypoint.sh, run by a container that docker-compose restarts   *)
(* whenever it stops: seed the database and ingest the policies if they    *)
(* are not there, then serve.  The data volume outlives the container.     *)
(* The script is "set -e": a command that fails ends it.                   *)
(*                                                                         *)
(* Chroma, as used here (external): the client makes its directory when it *)
(* is constructed; the chunks of an ingest are added at once at the end.   *)
(* Once the server is up an operator may seed again by hand (README.md:21).*)
(***************************************************************************)
EXTENDS EmployeeDb

VARIABLES
    boot,           \* where the container is in the script
    chroma,         \* the directory chroma_store: absent, made or filled
    cut,            \* ghost: a seed or an ingest was ever cut short
    byHand          \* ghost: an operator has started a seed

vars == <<dbVars, boot, chroma, cut, byHand>>

BootPCs == {"down", "testDb", "seed", "testStore", "open", "fill", "up"}

TypeOK ==
    /\ DbTypeOK
    /\ boot \in BootPCs
    /\ chroma \in {"absent", "made", "filled"}
    /\ cut \in BOOLEAN
    /\ byHand \in BOOLEAN

Init ==
    /\ DbInit
    /\ boot = "down"
    /\ chroma = "absent"
    /\ cut = FALSE
    /\ byHand = FALSE

-----------------------------------------------------------------------------
(* The script.                                                             *)

GoOn(from, to) == boot = from /\ boot' = to

StartContainer ==
    /\ GoOn("down", "testDb")
    /\ UNCHANGED <<dbVars, chroma, cut, byHand>>

\* Mutant: the database is seeded on every boot.
SeedDbAlways ==
    /\ GoOn("testDb", "seed")
    /\ ConnectSeeder
    /\ UNCHANGED <<chroma, cut, byHand>>

\* [ ! -f employees.db ]: seed, ...
SeedDb ==
    /\ ~file
    /\ GoOn("testDb", "seed")
    /\ ConnectSeeder
    /\ UNCHANGED <<chroma, cut, byHand>>

\* ... or leave the file that is there as it is.
KeepDb ==
    /\ file
    /\ GoOn("testDb", "testStore")
    /\ UNCHANGED <<dbVars, chroma, cut, byHand>>

SeedDone ==
    /\ ~seeder.running
    /\ GoOn("seed", "testStore")
    /\ UNCHANGED <<dbVars, chroma, cut, byHand>>

\* [ -z "$(ls -A chroma_store)" ]: ingest, ...
IngestStore ==
    /\ chroma = "absent"
    /\ GoOn("testStore", "open")
    /\ UNCHANGED <<dbVars, chroma, cut, byHand>>

\* Mutant: the script waits for a store that has chunks.
KeepStoreFilled ==
    /\ chroma = "filled"
    /\ GoOn("testStore", "up")
    /\ UNCHANGED <<dbVars, chroma, cut, byHand>>

\* ... or leave the directory that is there as it is.
KeepStore ==
    /\ chroma # "absent"
    /\ GoOn("testStore", "up")
    /\ UNCHANGED <<dbVars, chroma, cut, byHand>>

OpenStore ==
    /\ GoOn("open", "fill")
    /\ chroma' = "made"
    /\ UNCHANGED <<dbVars, cut, byHand>>

FillStore ==
    /\ GoOn("fill", "up")
    /\ chroma' = "filled"
    /\ UNCHANGED <<dbVars, cut, byHand>>

RunSeeder ==
    /\ SeedStep
    /\ UNCHANGED <<boot, chroma, cut, byHand>>

\* The container stops, at a command that fails or because it is killed: what
\* runs in it dies, what is committed stays.
StopContainer ==
    /\ boot # "down"
    /\ boot' = "down"
    /\ seeder' = NoSeeder
    /\ reader' = [q \in Readers |-> NoReader]
    /\ cut' = (cut \/ seeder.running \/ boot \in {"open", "fill"})
    /\ UNCHANGED <<file, made, rows, chroma, byHand>>

-----------------------------------------------------------------------------
(* The server, and the operator beside it.                                 *)

SeedByHand ==
    /\ boot = "up"
    /\ ConnectSeeder
    /\ byHand' = TRUE
    /\ UNCHANGED <<boot, chroma, cut>>

\* A seed by hand is interrupted; the server goes on.
InterruptSeed ==
    /\ boot = "up"
    /\ seeder.running
    /\ seeder' = NoSeeder
    /\ cut' = TRUE
    /\ UNCHANGED <<file, made, rows, reader, boot, chroma, byHand>>

AskServer(q, e, names) ==
    /\ boot = "up"
    /\ Ask(q, e, names)
    /\ UNCHANGED <<boot, chroma, cut, byHand>>

RunReader(q) ==
    /\ ReadStep(q)
    /\ UNCHANGED <<boot, chroma, cut, byHand>>

BootStep ==
    \/ StartContainer
    \/ SeedDb
    \/ KeepDb
    \/ SeedDone
    \/ IngestStore
    \/ KeepStore
    \/ OpenStore
    \/ FillStore

Next ==
    \/ BootStep
    \/ RunSeeder
    \/ StopContainer
    \/ SeedByHand
    \/ InterruptSeed
    \/ \E q \in Readers :
           \/ \E e \in Employees, names \in SUBSET (Requestable \union {Unknown}) :
                  AskServer(q, e, names)
           \/ RunReader(q)

Spec == Init /\ [][Next]_vars

\* The restart policy starts the container again, and its processes run.
FairSpec == Spec /\ WF_vars(BootStep) /\ WF_vars(RunSeeder)

-----------------------------------------------------------------------------
(* Properties.                                                             *)

\* A seeded database stays seeded through restarts and failed boots; only an
\* operator's own seed takes rows away ("a restart of an already-seeded volume
\* never wipes data", entrypoint.sh:4-5).
SeededVolumeKept == [][Seeded /\ ~Seeded' => boot = "up" /\ byHand]_vars

\* While no seed is under way, a server that is up has its employees and its
\* policies unless some seed or ingest was cut short (entrypoint.sh:10-20).
ServesWholeUnlessCut ==
    boot = "up" /\ ~seeder.running /\ ~cut => Seeded /\ chroma = "filled"

\* The portal comes up once the container is left alone, whatever was cut
\* short before (set -e, restart: unless-stopped).
ComesUp == <>[][~StopContainer]_vars => []<>(boot = "up")

\* "Idempotent first-boot seeding: only seed/ingest if not already present"
\* (entrypoint.sh:4): repeated boots end where one whole boot ends, with the
\* employees and the policies there before the server is up.
BootIsIdempotent ==
    boot = "up" /\ ~byHand => Seeded /\ chroma = "filled"

=============================================================================
