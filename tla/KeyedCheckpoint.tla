--------------------------- MODULE KeyedCheckpoint ---------------------------
(***************************************************************************)
(* ObjectStoreCheckpoint and SqlCheckpoint: checkpoints in a remote store, *)
(* one per path or per pipeline id.  Every operation is a request that the *)
(* store executes atomically and answers; the answer may be lost, and so   *)
(* may the client, before or after the store has executed the request.     *)
(* A request whose client gave up may still be executed later.             *)
(*                                                                         *)
(* An object store needs no preparation.  A database needs `initialize`:   *)
(* one statement for MySQL and SQLite, two for PostgreSQL, whose table     *)
(* lives in a schema.                                                      *)
(***************************************************************************)
EXTENDS Integers, FiniteSets

CONSTANTS
    Clients, None,
    Ids,        \* pipeline ids, or paths of objects
    IdOf,       \* client -> its id
    KeyOf,      \* id -> the primary key it is for the store (external)
    Dialect,    \* "object", "postgres", "mysql" or "sqlite"
    MaxSaves    \* bound: saves begun; the n-th saves the checkpoint n

ASSUME KeyedAssumption ==
    /\ IdOf \in [Clients -> Ids]
    /\ DOMAIN KeyOf = Ids
    /\ Dialect \in {"object", "postgres", "mysql", "sqlite"}
    /\ MaxSaves \in Nat
    /\ None \notin Nat

VARIABLES
    schema,      \* the schema exists (PostgreSQL)
    table,       \* the table exists
    rows,        \* key -> the checkpoint in its row, or None
    request,     \* client -> the request it has sent, or "none"
    executed,    \* clients whose request the store has executed
    cursor,      \* client -> the checkpoint it saves, or saved last
    answer,      \* client -> what its load read, or read last
    abandoned,   \* saves whose client gave up, not executed yet: [id, cursor]
    saves,       \* how many saves there were
    initialized, \* history: an initialize has returned Ok
    owner        \* history: checkpoint -> the id it was saved under

tableVars == <<schema, table>>

clientVars == <<request, executed, cursor, answer>>

history == <<saves, initialized, owner>>

vars == <<tableVars, rows, clientVars, abandoned, history>>

Checkpoint == 1 .. MaxSaves

Keys == {KeyOf[id] : id \in Ids}

KeyFor(c) == KeyOf[IdOf[c]]

Requests == {"none", "create schema", "create table", "load", "save"}

TypeOK ==
    /\ schema \in BOOLEAN /\ table \in BOOLEAN
    /\ rows \in [Keys -> Checkpoint \cup {None}]
    /\ request \in [Clients -> Requests]
    /\ executed \subseteq {c \in Clients : request[c] # "none"}
    /\ cursor \in [Clients -> Checkpoint \cup {None}]
    /\ answer \in [Clients -> Checkpoint \cup {None}]
    /\ abandoned \subseteq [id : Ids, cursor : Checkpoint]
    /\ saves \in 0 .. MaxSaves
    /\ initialized \in BOOLEAN
    /\ owner \in [1 .. saves -> Ids]

Init ==
    /\ schema = FALSE
    /\ table = (Dialect = "object")
    /\ rows = [k \in Keys |-> None]
    /\ request = [c \in Clients |-> "none"]
    /\ executed = {}
    /\ cursor = [c \in Clients |-> None]
    /\ answer = [c \in Clients |-> None]
    /\ abandoned = {}
    /\ saves = 0
    /\ initialized = (Dialect = "object")
    /\ owner = << >>

Send(c, r) == request' = [request EXCEPT ![c] = r]

-----------------------------------------------------------------------------
\* initialize, also as a part of auto.
Initialize(c) ==
    /\ Dialect # "object"
    /\ request[c] = "none"
    /\ Send(c, IF Dialect = "postgres" THEN "create schema" ELSE "create table")
    /\ UNCHANGED <<tableVars, rows, executed, cursor, answer, abandoned, history>>

Load(c) ==
    /\ request[c] = "none"
    /\ Send(c, "load")
    /\ UNCHANGED <<tableVars, rows, executed, cursor, answer, abandoned, history>>

Save(c) ==
    /\ request[c] = "none"
    /\ saves < MaxSaves
    /\ saves' = saves + 1
    /\ owner' = [n \in 1 .. saves + 1 |-> IF n > saves THEN IdOf[c] ELSE owner[n]]
    /\ cursor' = [cursor EXCEPT ![c] = saves + 1]
    /\ Send(c, "save")
    /\ UNCHANGED <<tableVars, rows, executed, answer, abandoned, initialized>>

-----------------------------------------------------------------------------
Sent(c, r) == request[c] = r /\ c \notin executed

\* CREATE SCHEMA IF NOT EXISTS
CreateSchema(c) ==
    /\ Sent(c, "create schema")
    /\ schema' = TRUE
    /\ executed' = executed \cup {c}
    /\ UNCHANGED <<table, rows, request, cursor, answer, abandoned, history>>

\* Mutant: the table is made anew.
RecreateTable(c) ==
    /\ Sent(c, "create table")
    /\ Dialect = "postgres" => schema
    /\ table' = TRUE
    /\ rows' = [k \in Keys |-> None]
    /\ executed' = executed \cup {c}
    /\ UNCHANGED <<schema, request, cursor, answer, abandoned, history>>

\* CREATE TABLE IF NOT EXISTS: the rows of a table that exists stay.
CreateTable(c) ==
    /\ Sent(c, "create table")
    /\ Dialect = "postgres" => schema
    /\ table' = TRUE
    /\ executed' = executed \cup {c}
    /\ UNCHANGED <<schema, rows, request, cursor, answer, abandoned, history>>

\* get of the object, or SELECT by pipeline id.
ReadRow(c) ==
    /\ Sent(c, "load")
    /\ table
    /\ answer' = [answer EXCEPT ![c] = rows[KeyFor(c)]]
    /\ executed' = executed \cup {c}
    /\ UNCHANGED <<tableVars, rows, request, cursor, abandoned, history>>

\* Mutant: an update of every row.
UpdateAll(key, checkpoint) ==
    rows' = [k \in Keys |-> IF k = key \/ rows[k] # None THEN checkpoint ELSE rows[k]]

\* put of the object, or the upsert.
Upsert(key, checkpoint) == rows' = [rows EXCEPT ![key] = checkpoint]

WriteRow(c) ==
    /\ Sent(c, "save")
    /\ table
    /\ Upsert(KeyFor(c), cursor[c])
    /\ executed' = executed \cup {c}
    /\ UNCHANGED <<tableVars, request, cursor, answer, abandoned, history>>

\* The store executes a save whose client has given up, or loses it.
WriteAbandoned(a) ==
    /\ a \in abandoned
    /\ abandoned' = abandoned \ {a}
    /\ (table /\ Upsert(KeyOf[a.id], a.cursor)) \/ UNCHANGED rows
    /\ UNCHANGED <<tableVars, clientVars, history>>

-----------------------------------------------------------------------------
\* Mutant: initialize returns after its first statement.
AnsweredFirst(c) ==
    /\ c \in executed
    /\ executed' = executed \ {c}
    /\ Send(c, "none")
    /\ initialized' = (initialized \/ request[c] \in {"create schema", "create table"})
    /\ UNCHANGED <<tableVars, rows, cursor, answer, abandoned, saves, owner>>

\* The answer arrives: the second statement of a PostgreSQL initialize follows
\* the first; anything else returns Ok.
Answered(c) ==
    /\ c \in executed
    /\ executed' = executed \ {c}
    /\ Send(c, IF request[c] = "create schema" THEN "create table" ELSE "none")
    /\ initialized' = (initialized \/ request[c] = "create table")
    /\ UNCHANGED <<tableVars, rows, cursor, answer, abandoned, saves, owner>>

\* The client gets an error, for want of a table or of a connection, or is
\* dropped or dies: whether the store has executed its request or not.
Fails(c) ==
    /\ request[c] # "none"
    /\ executed' = executed \ {c}
    /\ Send(c, "none")
    /\ \/ UNCHANGED abandoned
       \/ /\ Sent(c, "save")
          /\ abandoned' = abandoned \cup {[id |-> IdOf[c], cursor |-> cursor[c]]}
    /\ UNCHANGED <<tableVars, rows, cursor, answer, history>>

Next ==
    \/ \E c \in Clients :
          \/ Initialize(c) \/ Load(c) \/ Save(c)
          \/ CreateSchema(c) \/ CreateTable(c) \/ ReadRow(c) \/ WriteRow(c)
          \/ Answered(c) \/ Fails(c)
    \/ \E a \in abandoned : WriteAbandoned(a)

Spec == Init /\ [][Next]_vars

-----------------------------------------------------------------------------
(***************************************************************************)
(* Properties                                                              *)
(***************************************************************************)

\* Once an initialize has returned Ok, loads and saves do not fail for want of
\* a table, although initializations of several clients overlap, fail between
\* their statements, and are repeated (sql.rs:105, "Idempotently create").
InitializedIsUsable == initialized => table /\ (Dialect = "postgres" => schema)

\* A pipeline resumes from its own checkpoint: what a load of an id finds was
\* saved under that id (core/src/identity.rs:5, "Stable identity shared by a
\* pipeline's metrics and durable checkpoint storage").
OwnCheckpointsOnly ==
    \A c \in Clients : answer[c] # None => owner[answer[c]] = IdOf[c]

ClientsOf(id) == {c \in Clients : IdOf[c] = id}

Saving(c) ==
    IF request[c] # "save" THEN "no" ELSE IF c \in executed THEN "applied" ELSE "asked"

Loading(c) == IF request[c] = "load" /\ c \in executed THEN "read" ELSE "no"

Lingering(id) == {a.cursor : a \in {b \in abandoned : b.id = id}}

\* For every id the store is an atomic register of its own, whatever the
\* clients of other ids, initializations and failures do to it.
Store(id) == INSTANCE CheckpointStore WITH
    Savers      <- ClientsOf(id),
    Loaders     <- ClientsOf(id),
    Checkpoints <- Checkpoint,
    stored      <- rows[KeyOf[id]],
    lingering   <- Lingering(id),
    saving      <- [c \in ClientsOf(id) |-> Saving(c)],
    cursor      <- [c \in ClientsOf(id) |-> cursor[c]],
    loading     <- [c \in ClientsOf(id) |-> Loading(c)],
    loaded      <- [c \in ClientsOf(id) |-> answer[c]]

ImplementsCheckpointStores ==
    /\ \A id \in Ids : Store(id)!Init
    /\ [][\A id \in Ids : Store(id)!Next \/ UNCHANGED Store(id)!vars]_vars
===============================================================================
