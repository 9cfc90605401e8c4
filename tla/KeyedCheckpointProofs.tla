------------------------ MODULE KeyedCheckpointProofs ------------------------
(***************************************************************************)
(* For every set of clients and ids and every dialect: an initialize that  *)
(* returned Ok leaves a usable table, and, if the store tells the ids      *)
(* apart, a load finds what was saved under its own id.                    *)
(***************************************************************************)
EXTENDS KeyedCheckpoint, TLAPS

SchemaThere == Dialect = "postgres" => schema

\* A client that has come to the second statement has seen the schema, and an
\* initialize that is about to return has seen the table.
Prepared ==
    /\ initialized => table
    /\ table => SchemaThere
    /\ \A c \in Clients :
          /\ request[c] = "create table" => SchemaThere
          /\ c \in executed /\ request[c] = "create schema" => schema
          /\ c \in executed /\ request[c] = "create table" => table

\* The checkpoint n is one that was saved, under the id.
SavedUnder(n, id) == n \in 1 .. saves /\ owner[n] = id

\* A save that is under way, or was given up, carries a checkpoint of its own id.
Carried ==
    /\ \A c \in Clients : request[c] = "save" => SavedUnder(cursor[c], IdOf[c])
    /\ \A a \in abandoned : SavedUnder(a.cursor, a.id)

\* The inductive invariant, whatever the keys of the ids are.
KeyedInv == TypeOK /\ Prepared /\ Carried

-----------------------------------------------------------------------------
\* A save begins: the checkpoints there are keep their owners.
LEMMA SaveExtendsOwners ==
    ASSUME KeyedInv, NEW c \in Clients, Save(c)
    PROVE  /\ saves \in Nat /\ saves' = saves + 1 /\ saves' \in 0 .. MaxSaves
           /\ saves' \in Checkpoint
           /\ owner' \in [1 .. saves' -> Ids]
           /\ \A n \in 1 .. saves : n \in 1 .. saves' /\ owner'[n] = owner[n]
           /\ saves + 1 \in 1 .. saves' /\ owner'[saves + 1] = IdOf[c]
<1>1. /\ saves \in Nat /\ saves' = saves + 1 /\ saves < MaxSaves /\ MaxSaves \in Nat
      /\ owner \in [1 .. saves -> Ids]
      /\ owner' = [n \in 1 .. saves + 1 |-> IF n > saves THEN IdOf[c] ELSE owner[n]]
      /\ IdOf[c] \in Ids
  <2>1. saves \in 0 .. MaxSaves /\ MaxSaves \in Nat /\ owner \in [1 .. saves -> Ids]
    BY KeyedAssumption DEF KeyedInv, TypeOK
  <2>2. /\ saves' = saves + 1 /\ saves < MaxSaves
        /\ owner' = [n \in 1 .. saves + 1 |-> IF n > saves THEN IdOf[c] ELSE owner[n]]
    BY DEF Save
  <2>3. IdOf[c] \in Ids
    BY KeyedAssumption
  <2> QED
    BY <2>1, <2>2, <2>3
<1>2. saves' \in 0 .. MaxSaves /\ saves' \in Checkpoint
  BY <1>1 DEF Checkpoint
<1>3. /\ \A n \in 1 .. saves : owner'[n] = owner[n] /\ n \in 1 .. saves'
      /\ saves + 1 \in 1 .. saves' /\ owner'[saves + 1] = IdOf[c]
  <2>1. ASSUME NEW n \in 1 .. saves
        PROVE  owner'[n] = owner[n] /\ n \in 1 .. saves'
    <3>1. n \in 1 .. saves + 1 /\ ~(n > saves)
      BY <1>1
    <3> QED
      BY <1>1, <3>1
  <2>2. saves + 1 \in 1 .. saves + 1 /\ saves + 1 > saves
    BY <1>1
  <2>3. owner'[saves + 1] = IdOf[c]
    BY <1>1, <2>2
  <2> QED
    BY <1>1, <2>1, <2>2, <2>3
<1>4. owner' \in [1 .. saves' -> Ids]
  <2>1. \A n \in 1 .. saves + 1 : (IF n > saves THEN IdOf[c] ELSE owner[n]) \in Ids
    BY <1>1
  <2> QED
    BY <1>1, <2>1
<1> QED
  BY <1>1, <1>2, <1>3, <1>4

\* Init satisfies the invariant.
LEMMA KeyedInitInv == Init => KeyedInv
<1> SUFFICES ASSUME Init PROVE KeyedInv
  OBVIOUS
<1>1. schema \in BOOLEAN /\ table \in BOOLEAN /\ initialized \in BOOLEAN
  <2>1. (Dialect = "object") \in BOOLEAN
    OBVIOUS
  <2> QED
    BY <2>1, Zenon DEF Init
<1>2. /\ rows \in [Keys -> Checkpoint \cup {None}]
      /\ request \in [Clients -> Requests]
      /\ executed = {} /\ abandoned = {}
      /\ cursor \in [Clients -> Checkpoint \cup {None}]
      /\ answer \in [Clients -> Checkpoint \cup {None}]
  BY DEF Init, Requests
<1>3. saves = 0 /\ saves \in 0 .. MaxSaves
  BY KeyedAssumption DEF Init
<1>4. owner \in [1 .. saves -> Ids]
  BY <1>3 DEF Init
<1>5. Prepared
  BY DEF Init, Prepared, SchemaThere
<1>6. Carried
  BY DEF Init, Carried
<1> QED
  BY <1>1, <1>2, <1>3, <1>4, <1>5, <1>6 DEF KeyedInv, TypeOK

\* Every request, its execution, its answer and its failure keep the invariant.
LEMMA KeyedStepInv ==
    ASSUME KeyedInv, [Next]_vars
    PROVE  KeyedInv'
<1> USE KeyedAssumption DEF KeyedInv, tableVars, clientVars, history, Send, Requests
<1>0. TypeOK /\ Prepared /\ Carried
  OBVIOUS
<1>1. ASSUME NEW c \in Clients, Initialize(c)
      PROVE  KeyedInv'
  <2>1. TypeOK'
    BY <1>0, <1>1 DEF Initialize, TypeOK
  <2>2. Prepared' /\ Carried'
    BY <1>0, <1>1 DEF Initialize, TypeOK, Prepared, SchemaThere, Carried, SavedUnder
  <2> QED
    BY <2>1, <2>2
<1>2. ASSUME NEW c \in Clients, Load(c)
      PROVE  KeyedInv'
  <2>1. TypeOK'
    BY <1>0, <1>2 DEF Load, TypeOK
  <2>2. Prepared' /\ Carried'
    BY <1>0, <1>2 DEF Load, TypeOK, Prepared, SchemaThere, Carried, SavedUnder
  <2> QED
    BY <2>1, <2>2
<1>3. ASSUME NEW c \in Clients, Save(c)
      PROVE  KeyedInv'
  <2>1. TypeOK'
    BY <1>0, <1>3, SaveExtendsOwners DEF Save, TypeOK
  <2>2. Prepared'
    BY <1>0, <1>3 DEF Save, TypeOK, Prepared, SchemaThere
  <2>3. Carried'
    <3>1. /\ cursor' = [cursor EXCEPT ![c] = saves + 1] /\ abandoned' = abandoned
          /\ request' = [request EXCEPT ![c] = "save"]
          /\ DOMAIN cursor = Clients /\ DOMAIN request = Clients
      BY <1>0, <1>3 DEF Save, TypeOK
    <3>2. \A a \in abandoned' : SavedUnder(a.cursor, a.id)'
      BY <1>0, <1>3, <3>1, SaveExtendsOwners DEF Carried, SavedUnder
    <3>3. ASSUME NEW d \in Clients, request'[d] = "save"
          PROVE  SavedUnder(cursor[d], IdOf[d])'
      <4>1. CASE d = c
        BY <1>3, <3>1, <4>1, SaveExtendsOwners DEF SavedUnder
      <4>2. CASE d # c
        <5>1. SavedUnder(cursor[d], IdOf[d]) /\ cursor'[d] = cursor[d]
          BY <1>0, <3>1, <3>3, <4>2 DEF Carried
        <5> QED
          BY <1>3, <5>1, SaveExtendsOwners DEF SavedUnder
      <4> QED
        BY <4>1, <4>2
    <3> QED
      BY <3>2, <3>3 DEF Carried
  <2> QED
    BY <2>1, <2>2, <2>3
<1>4. ASSUME NEW c \in Clients, CreateSchema(c)
      PROVE  KeyedInv'
  <2>1. TypeOK'
    BY <1>0, <1>4 DEF CreateSchema, Sent, TypeOK
  <2>2. Prepared' /\ Carried'
    BY <1>0, <1>4 DEF CreateSchema, Sent, Prepared, SchemaThere, Carried, SavedUnder
  <2> QED
    BY <2>1, <2>2
<1>5. ASSUME NEW c \in Clients, CreateTable(c)
      PROVE  KeyedInv'
  <2>1. TypeOK'
    BY <1>0, <1>5 DEF CreateTable, Sent, TypeOK
  <2>2. Prepared' /\ Carried'
    BY <1>0, <1>5 DEF CreateTable, Sent, Prepared, SchemaThere, Carried, SavedUnder
  <2> QED
    BY <2>1, <2>2
<1>6. ASSUME NEW c \in Clients, ReadRow(c)
      PROVE  KeyedInv'
  <2>1. KeyFor(c) \in Keys
    BY DEF KeyFor, Keys
  <2>2. TypeOK'
    BY <1>0, <1>6, <2>1 DEF ReadRow, Sent, TypeOK
  <2>3. Prepared' /\ Carried'
    BY <1>0, <1>6 DEF ReadRow, Sent, Prepared, SchemaThere, Carried, SavedUnder
  <2> QED
    BY <2>2, <2>3
<1>7. ASSUME NEW c \in Clients, WriteRow(c)
      PROVE  KeyedInv'
  <2>1. TypeOK'
    BY <1>0, <1>7 DEF WriteRow, Sent, Upsert, TypeOK
  <2>2. Prepared' /\ Carried'
    BY <1>0, <1>7 DEF WriteRow, Sent, Prepared, SchemaThere, Carried, SavedUnder
  <2> QED
    BY <2>1, <2>2
<1>8. ASSUME NEW c \in Clients, Answered(c)
      PROVE  KeyedInv'
  <2>1. TypeOK'
    BY <1>0, <1>8 DEF Answered, TypeOK
  <2>2. Prepared' /\ Carried'
    BY <1>0, <1>8 DEF Answered, TypeOK, Prepared, SchemaThere, Carried, SavedUnder
  <2> QED
    BY <2>1, <2>2
<1>9. ASSUME NEW c \in Clients, Fails(c)
      PROVE  KeyedInv'
  <2>1. \/ abandoned' = abandoned
        \/ /\ SavedUnder(cursor[c], IdOf[c])
           /\ abandoned' = abandoned \cup {[id |-> IdOf[c], cursor |-> cursor[c]]}
    BY <1>0, <1>9 DEF Fails, Sent, Carried
  <2>2. abandoned' \subseteq [id : Ids, cursor : Checkpoint]
    <3>1. abandoned \subseteq [id : Ids, cursor : Checkpoint] /\ IdOf[c] \in Ids
      BY <1>0 DEF TypeOK
    <3>2. SavedUnder(cursor[c], IdOf[c]) => cursor[c] \in Checkpoint
      <4>1. saves \in 0 .. MaxSaves /\ MaxSaves \in Nat
        BY <1>0 DEF TypeOK
      <4>2. 1 .. saves \subseteq 1 .. MaxSaves
        BY <4>1
      <4> QED
        BY <4>2 DEF SavedUnder, Checkpoint
    <3> QED
      BY <2>1, <3>1, <3>2
  <2>3. TypeOK'
    BY <1>0, <1>9, <2>2 DEF Fails, TypeOK
  <2>4. Prepared'
    BY <1>0, <1>9 DEF Fails, TypeOK, Prepared, SchemaThere
  <2>5. Carried'
    <3>1. saves' = saves /\ owner' = owner /\ cursor' = cursor
      BY <1>9 DEF Fails
    <3>2. \A a \in abandoned' : SavedUnder(a.cursor, a.id)
      BY <1>0, <2>1 DEF Carried
    <3>3. \A d \in Clients : request'[d] = "save" => SavedUnder(cursor'[d], IdOf[d])
      <4>1. request' = [request EXCEPT ![c] = "none"] /\ request \in [Clients -> Requests]
        BY <1>0, <1>9 DEF Fails, TypeOK
      <4>2. \A d \in Clients : request'[d] = "save" => request[d] = "save"
        BY <4>1
      <4> QED
        BY <1>0, <3>1, <4>2 DEF Carried
    <3> QED
      BY <3>1, <3>2, <3>3 DEF Carried, SavedUnder
  <2> QED
    BY <2>3, <2>4, <2>5
<1>10. ASSUME NEW a \in abandoned, WriteAbandoned(a)
       PROVE  KeyedInv'
  <2>1. TypeOK'
    BY <1>0, <1>10 DEF WriteAbandoned, Upsert, TypeOK
  <2>2. Prepared' /\ Carried'
    BY <1>0, <1>10 DEF WriteAbandoned, Prepared, SchemaThere, Carried, SavedUnder
  <2> QED
    BY <2>1, <2>2
<1>11. CASE UNCHANGED vars
  BY <1>0, <1>11 DEF vars, TypeOK, Prepared, SchemaThere, Carried, SavedUnder
<1> QED
  BY <1>1, <1>2, <1>3, <1>4, <1>5, <1>6, <1>7, <1>8, <1>9, <1>10, <1>11 DEF Next

\* The invariant holds in every reachable state.
THEOREM KeyedInvariant == Spec => []KeyedInv
  BY KeyedInitInv, KeyedStepInv, PTL DEF Spec

\* After an initialize returned Ok the table is there, and its schema, however
\* the initializations of several clients overlap and fail.
THEOREM InitializeSuffices == Spec => []InitializedIsUsable
<1>1. KeyedInv => InitializedIsUsable
  BY DEF KeyedInv, Prepared, SchemaThere, InitializedIsUsable
<1> QED
  BY <1>1, KeyedInvariant, PTL

-----------------------------------------------------------------------------
(***************************************************************************)
(* Stores that tell the ids apart.                                         *)
(***************************************************************************)

Distinct == \A i, j \in Ids : KeyOf[i] = KeyOf[j] => i = j

\* What is in the row of an id, and what was read from it, was saved under it.
Owned ==
    /\ \A id \in Ids : rows[KeyOf[id]] # None => SavedUnder(rows[KeyOf[id]], id)
    /\ \A c \in Clients : answer[c] # None => SavedUnder(answer[c], IdOf[c])

\* A write under one id leaves the rows of the others alone.
LEMMA UpsertOwned ==
    ASSUME KeyedInv, Owned, Distinct,
           NEW id \in Ids, NEW n, SavedUnder(n, id), Upsert(KeyOf[id], n),
           UNCHANGED <<answer, saves, owner>>
    PROVE  Owned'
<1>1. rows \in [Keys -> Checkpoint \cup {None}]
  BY DEF KeyedInv, TypeOK
<1>2. ASSUME NEW i \in Ids
      PROVE  rows'[KeyOf[i]] = IF i = id THEN n ELSE rows[KeyOf[i]]
  <2>1. KeyOf[i] \in Keys
    BY DEF Keys
  <2> QED
    BY <1>1, <2>1 DEF Upsert, Distinct
<1> QED
  BY <1>2 DEF Owned, SavedUnder

\* Every step keeps every row under its id.
LEMMA OwnedStep ==
    ASSUME KeyedInv, Owned, Distinct, [Next]_vars
    PROVE  Owned'
<1> USE DEF tableVars, clientVars, history
<1>1. CASE UNCHANGED <<rows, answer, saves, owner>>
  BY <1>1 DEF Owned, SavedUnder
<1>2. ASSUME NEW c \in Clients, Save(c)
      PROVE  Owned'
  <2>1. UNCHANGED <<rows, answer>>
    BY <1>2 DEF Save
  <2> QED
    BY <1>2, <2>1, SaveExtendsOwners DEF Owned, SavedUnder
<1>3. ASSUME NEW c \in Clients, ReadRow(c)
      PROVE  Owned'
  <2>1. /\ answer' = [answer EXCEPT ![c] = rows[KeyOf[IdOf[c]]]]
        /\ UNCHANGED <<rows, saves, owner>> /\ IdOf[c] \in Ids
        /\ answer \in [Clients -> Checkpoint \cup {None}]
    BY <1>3, KeyedAssumption DEF ReadRow, KeyFor, KeyedInv, TypeOK
  <2> QED
    BY <2>1 DEF Owned, SavedUnder
<1>4. ASSUME NEW c \in Clients, WriteRow(c)
      PROVE  Owned'
  <2>1. SavedUnder(cursor[c], IdOf[c]) /\ IdOf[c] \in Ids
    BY <1>4, KeyedAssumption DEF WriteRow, Sent, KeyedInv, Carried
  <2> QED
    BY <1>4, <2>1, UpsertOwned DEF WriteRow, KeyFor
<1>5. ASSUME NEW a \in abandoned, WriteAbandoned(a)
      PROVE  Owned'
  <2>1. SavedUnder(a.cursor, a.id) /\ a.id \in Ids
    BY <1>5 DEF KeyedInv, TypeOK, Carried
  <2>2. UNCHANGED <<answer, saves, owner>>
    BY <1>5 DEF WriteAbandoned
  <2>3. CASE UNCHANGED rows
    BY <1>1, <2>2, <2>3
  <2>4. CASE Upsert(KeyOf[a.id], a.cursor)
    BY <2>1, <2>2, <2>4, UpsertOwned
  <2> QED
    BY <1>5, <2>3, <2>4 DEF WriteAbandoned
<1>6. CASE \E c \in Clients : \/ Initialize(c) \/ Load(c) \/ CreateSchema(c)
                             \/ CreateTable(c) \/ Answered(c) \/ Fails(c)
  BY <1>1, <1>6 DEF Initialize, Load, CreateSchema, CreateTable, Answered, Fails
<1>7. CASE UNCHANGED vars
  BY <1>1, <1>7 DEF vars
<1> QED
  BY <1>2, <1>3, <1>4, <1>5, <1>6, <1>7 DEF Next

\* If no two ids are one key for the store, as byte for byte comparison makes
\* sure, a pipeline never loads the checkpoint of another.
THEOREM OwnCheckpoints ==
    ASSUME Distinct
    PROVE  Spec => []OwnCheckpointsOnly
<1>1. Init => Owned
  <2>1. \A id \in Ids : KeyOf[id] \in Keys
    BY DEF Keys
  <2> QED
    BY <2>1 DEF Init, Owned
<1>2. ASSUME KeyedInv, Owned, [Next]_vars
      PROVE  Owned'
  BY <1>2, OwnedStep
<1>3. Owned => OwnCheckpointsOnly
  BY DEF Owned, SavedUnder, OwnCheckpointsOnly
<1> QED
  BY <1>1, <1>2, <1>3, KeyedInvariant, PTL DEF Spec
-----------------------------------------------------------------------------
(***************************************************************************)
(* The registers.                                                          *)
(***************************************************************************)

\* A step that changes nothing a client of the id can see.
LEMMA RegisterStutter ==
    ASSUME NEW id \in Ids,
           rows'[KeyOf[id]] = rows[KeyOf[id]],
           Lingering(id)' = Lingering(id),
           \A c \in ClientsOf(id) : /\ Saving(c)' = Saving(c)
                                    /\ cursor'[c] = cursor[c]
                                    /\ Loading(c)' = Loading(c)
                                    /\ answer'[c] = answer[c]
    PROVE  UNCHANGED Store(id)!vars
  BY DEF Store!vars, ClientsOf

\* Init and every step of the store are, for every id, a step of its register
\* or none: a request takes effect when it is executed, an abandoned one then.
THEOREM KeyedRefinement ==
    ASSUME Distinct
    PROVE  Spec => ImplementsCheckpointStores
<1>1. ASSUME Init, NEW id \in Ids
      PROVE  Store(id)!Init
  <2>1. KeyOf[id] \in Keys
    BY DEF Keys
  <2>2. \A c \in ClientsOf(id) : Saving(c) = "no" /\ Loading(c) = "no"
    BY <1>1 DEF Init, ClientsOf, Saving, Loading
  <2>3. Lingering(id) = {}
    BY <1>1 DEF Init, Lingering
  <2> QED
    BY <1>1, <2>1, <2>2, <2>3 DEF Init, Store!Init, ClientsOf
<1>2. ASSUME KeyedInv, [Next]_vars, NEW id \in Ids
      PROVE  Store(id)!Next \/ UNCHANGED Store(id)!vars
  <2> USE <1>2 DEF tableVars, clientVars, history, Send, ClientsOf
  <2>0. /\ request \in [Clients -> Requests]
        /\ executed \subseteq {c \in Clients : request[c] # "none"}
        /\ cursor \in [Clients -> Checkpoint \cup {None}]
        /\ answer \in [Clients -> Checkpoint \cup {None}]
        /\ rows \in [Keys -> Checkpoint \cup {None}]
        /\ \A i \in Ids : KeyOf[i] \in Keys
    BY DEF KeyedInv, TypeOK, Keys
  <2>1. ASSUME NEW c \in Clients, Initialize(c)
        PROVE  UNCHANGED Store(id)!vars
    <3>1. \A d \in ClientsOf(id) : Saving(d)' = Saving(d) /\ Loading(d)' = Loading(d)
      BY <2>0, <2>1 DEF Initialize, Saving, Loading
    <3>2. Lingering(id)' = Lingering(id)
      BY <2>1 DEF Initialize, Lingering
    <3> QED
      BY <2>1, <3>1, <3>2, RegisterStutter DEF Initialize
  <2>2. ASSUME NEW c \in Clients, Load(c)
        PROVE  UNCHANGED Store(id)!vars
    <3>1. \A d \in ClientsOf(id) : Saving(d)' = Saving(d) /\ Loading(d)' = Loading(d)
      BY <2>0, <2>2 DEF Load, Saving, Loading
    <3>2. Lingering(id)' = Lingering(id)
      BY <2>2 DEF Load, Lingering
    <3> QED
      BY <2>2, <3>1, <3>2, RegisterStutter DEF Load
  <2>3. ASSUME NEW c \in Clients, Save(c)
        PROVE  Store(id)!Next \/ UNCHANGED Store(id)!vars
    <3>1. \A d \in ClientsOf(id) : d # c => Saving(d)' = Saving(d) /\ cursor'[d] = cursor[d]
      BY <2>0, <2>3 DEF Save, Saving
    <3>2. \A d \in ClientsOf(id) : Loading(d)' = Loading(d)
      BY <2>0, <2>3 DEF Save, Loading
    <3>3. Lingering(id)' = Lingering(id) /\ rows' = rows /\ answer' = answer
      BY <2>3 DEF Save, Lingering
    <3>4. CASE c \notin ClientsOf(id)
      BY <3>1, <3>2, <3>3, <3>4, RegisterStutter
    <3>5. CASE c \in ClientsOf(id)
      <4>1. saves + 1 \in Checkpoint /\ cursor'[c] = saves + 1
        BY <2>0, <2>3, SaveExtendsOwners DEF Save
      <4>2. PICK n \in Checkpoint : cursor'[c] = n
        BY <4>1
      <4>3. Saving(c) = "no" /\ Saving(c)' = "asked"
        BY <2>0, <2>3 DEF Save, Saving
      <4>4. Store(id)!Save(c, n)
        <5>1. [d \in ClientsOf(id) |-> Saving(d)']
                = [[d \in ClientsOf(id) |-> Saving(d)] EXCEPT ![c] = "asked"]
          BY <3>1, <3>5, <4>3
        <5>2. [d \in ClientsOf(id) |-> cursor'[d]]
                = [[d \in ClientsOf(id) |-> cursor[d]] EXCEPT ![c] = n]
          BY <3>1, <3>5, <4>2
        <5> QED
          BY <3>2, <3>3, <3>5, <4>3, <5>1, <5>2 DEF Store!Save, Store!loaders
      <4> QED
        BY <3>5, <4>4 DEF Store!Next
    <3> QED
      BY <3>4, <3>5
  <2>4. ASSUME NEW c \in Clients, CreateSchema(c) \/ CreateTable(c)
        PROVE  UNCHANGED Store(id)!vars
    <3>1. \A d \in ClientsOf(id) : Saving(d)' = Saving(d) /\ Loading(d)' = Loading(d)
      BY <2>0, <2>4 DEF CreateSchema, CreateTable, Sent, Saving, Loading
    <3>2. Lingering(id)' = Lingering(id)
      BY <2>4 DEF CreateSchema, CreateTable, Lingering
    <3> QED
      BY <2>4, <3>1, <3>2, RegisterStutter DEF CreateSchema, CreateTable
  <2>5. ASSUME NEW c \in Clients, ReadRow(c)
        PROVE  Store(id)!Next \/ UNCHANGED Store(id)!vars
    <3>1. \A d \in ClientsOf(id) : d # c => Loading(d)' = Loading(d) /\ answer'[d] = answer[d]
      BY <2>0, <2>5 DEF ReadRow, Sent, Loading
    <3>2. \A d \in ClientsOf(id) : Saving(d)' = Saving(d)
      BY <2>0, <2>5 DEF ReadRow, Sent, Saving
    <3>3. Lingering(id)' = Lingering(id) /\ rows' = rows /\ cursor' = cursor
      BY <2>5 DEF ReadRow, Lingering
    <3>4. CASE c \notin ClientsOf(id)
      BY <3>1, <3>2, <3>3, <3>4, RegisterStutter
    <3>5. CASE c \in ClientsOf(id)
      <4>1. /\ Loading(c) = "no" /\ Loading(c)' = "read"
            /\ answer'[c] = rows[KeyOf[id]]
        BY <2>0, <2>5, <3>5 DEF ReadRow, Sent, Loading, KeyFor
      <4>2. Store(id)!Read(c)
        <5>1. [d \in ClientsOf(id) |-> Loading(d)']
                = [[d \in ClientsOf(id) |-> Loading(d)] EXCEPT ![c] = "read"]
          BY <3>1, <3>5, <4>1
        <5>2. [d \in ClientsOf(id) |-> answer'[d]]
                = [[d \in ClientsOf(id) |-> answer[d]] EXCEPT ![c] = rows[KeyOf[id]]]
          BY <3>1, <3>5, <4>1
        <5> QED
          BY <3>2, <3>3, <3>5, <4>1, <5>1, <5>2 DEF Store!Read, Store!savers
      <4> QED
        BY <3>5, <4>2 DEF Store!Next
    <3> QED
      BY <3>4, <3>5
  <2>6. ASSUME NEW c \in Clients, WriteRow(c)
        PROVE  Store(id)!Next \/ UNCHANGED Store(id)!vars
    <3>1. \A d \in ClientsOf(id) : d # c => Saving(d)' = Saving(d)
      BY <2>0, <2>6 DEF WriteRow, Sent, Saving
    <3>2. \A d \in ClientsOf(id) : Loading(d)' = Loading(d)
      BY <2>0, <2>6 DEF WriteRow, Sent, Loading
    <3>3. Lingering(id)' = Lingering(id) /\ answer' = answer /\ cursor' = cursor
      BY <2>6 DEF WriteRow, Lingering
    <3>4. rows' = [rows EXCEPT ![KeyOf[IdOf[c]]] = cursor[c]]
      BY <2>6 DEF WriteRow, Upsert, KeyFor
    <3>5. CASE c \notin ClientsOf(id)
      <4>1. IdOf[c] \in Ids /\ IdOf[c] # id
        BY <3>5, KeyedAssumption
      <4>2. rows'[KeyOf[id]] = rows[KeyOf[id]]
        BY <2>0, <3>4, <4>1 DEF Distinct
      <4> QED
        BY <3>1, <3>2, <3>3, <3>5, <4>2, RegisterStutter
    <3>6. CASE c \in ClientsOf(id)
      <4>1. /\ Saving(c) = "asked" /\ Saving(c)' = "applied"
            /\ rows'[KeyOf[id]] = cursor[c]
        BY <2>0, <2>6, <3>4, <3>6 DEF WriteRow, Sent, Saving
      <4>2. Store(id)!Apply(c)
        <5>1. [d \in ClientsOf(id) |-> Saving(d)']
                = [[d \in ClientsOf(id) |-> Saving(d)] EXCEPT ![c] = "applied"]
          BY <3>1, <3>6, <4>1
        <5> QED
          BY <3>2, <3>3, <3>6, <4>1, <5>1 DEF Store!Apply, Store!loaders
      <4> QED
        BY <3>6, <4>2 DEF Store!Next
    <3> QED
      BY <3>5, <3>6
  <2>7. ASSUME NEW c \in Clients, Answered(c) \/ Fails(c), request[c] # "save"
        PROVE  Store(id)!Next \/ UNCHANGED Store(id)!vars
    <3>1. /\ \A d \in ClientsOf(id) : Saving(d)' = Saving(d)
          /\ \A d \in ClientsOf(id) : d # c => Loading(d)' = Loading(d)
          /\ Loading(c)' = "no"
      BY <2>0, <2>7 DEF Answered, Fails, Sent, Saving, Loading
    <3>2. /\ Lingering(id)' = Lingering(id)
          /\ rows' = rows /\ cursor' = cursor /\ answer' = answer
      BY <2>7 DEF Answered, Fails, Sent, Lingering
    <3>3. CASE c \notin ClientsOf(id) \/ Loading(c) = "no"
      BY <3>1, <3>2, <3>3, RegisterStutter
    <3>4. CASE c \in ClientsOf(id) /\ Loading(c) # "no"
      <4>1. Loading(c) = "read"
        BY <3>4 DEF Loading
      <4>2. Store(id)!LoadReturns(c)
        <5>1. [d \in ClientsOf(id) |-> Loading(d)']
                = [[d \in ClientsOf(id) |-> Loading(d)] EXCEPT ![c] = "no"]
          BY <3>1, <3>4
        <5> QED
          BY <3>1, <3>2, <3>4, <4>1, <5>1 DEF Store!LoadReturns, Store!savers
      <4> QED
        BY <3>4, <4>2 DEF Store!Next
    <3> QED
      BY <3>3, <3>4
  <2>8. ASSUME NEW c \in Clients, Answered(c) \/ Fails(c), request[c] = "save"
        PROVE  Store(id)!Next \/ UNCHANGED Store(id)!vars
    <3>1. /\ \A d \in ClientsOf(id) : d # c => Saving(d)' = Saving(d)
          /\ Saving(c) \in {"asked", "applied"} /\ Saving(c)' = "no"
          /\ \A d \in ClientsOf(id) : Loading(d)' = Loading(d)
      BY <2>0, <2>8 DEF Answered, Fails, Sent, Saving, Loading
    <3>2. rows' = rows /\ cursor' = cursor /\ answer' = answer
      BY <2>8 DEF Answered, Fails
    <3>3. \/ abandoned' = abandoned
          \/ /\ Saving(c) = "asked"
             /\ abandoned' = abandoned \cup {[id |-> IdOf[c], cursor |-> cursor[c]]}
      BY <2>8 DEF Answered, Fails, Sent, Saving
    <3>4. CASE c \notin ClientsOf(id)
      <4>1. Lingering(id)' = Lingering(id)
        BY <3>3, <3>4 DEF Lingering
      <4> QED
        BY <3>1, <3>2, <3>4, <4>1, RegisterStutter
    <3>5. CASE c \in ClientsOf(id)
      <4>1. \/ Lingering(id)' = Lingering(id)
            \/ /\ Saving(c) = "asked"
               /\ Lingering(id)' = Lingering(id) \cup {cursor[c]}
        BY <3>3, <3>5 DEF Lingering
      <4> DEFINE asking == [d \in ClientsOf(id) |-> Saving(d)]
                 saved  == [d \in ClientsOf(id) |-> cursor[d]]
      <4>2. [d \in ClientsOf(id) |-> Saving(d)']
              = [d \in ClientsOf(id) |-> IF d \in {c} THEN "no" ELSE asking[d]]
        BY <3>1, <3>5
      <4>3. Lingering(id)' \in {Lingering(id) \cup {saved[d] : d \in L} :
                                   L \in SUBSET {d \in {c} : asking[d] = "asked"}}
        <5>1. CASE Lingering(id)' = Lingering(id)
          <6>1. Lingering(id) = Lingering(id) \cup {saved[d] : d \in {}}
            OBVIOUS
          <6> QED
            BY <5>1, <6>1
        <5>2. CASE Saving(c) = "asked" /\ Lingering(id)' = Lingering(id) \cup {cursor[c]}
          <6>1. {cursor[c]} = {saved[d] : d \in {c}}
            BY <3>5
          <6>2. {c} \in SUBSET {d \in {c} : asking[d] = "asked"}
            BY <3>5, <5>2
          <6> QED
            BY <5>2, <6>1, <6>2
        <5> QED
          BY <4>1, <5>1, <5>2
      <4>4. Store(id)!SavesFail({c})
        <5>1. \A d \in {c} : asking[d] # "no"
          BY <3>1, <3>5
        <5>2. UNCHANGED <<rows[KeyOf[id]], [d \in ClientsOf(id) |-> cursor[d]],
                          [d \in ClientsOf(id) |-> Loading(d)],
                          [d \in ClientsOf(id) |-> answer[d]]>>
          BY <3>1, <3>2
        <5> QED
          BY <4>2, <4>3, <5>1, <5>2 DEF Store!SavesFail, Store!loaders
      <4>5. {c} \in SUBSET ClientsOf(id)
        BY <3>5
      <4> QED
        BY <4>4, <4>5 DEF Store!Next
    <3> QED
      BY <3>4, <3>5
  <2>9. ASSUME NEW a \in abandoned, WriteAbandoned(a)
        PROVE  Store(id)!Next \/ UNCHANGED Store(id)!vars
    <3>1. /\ abandoned' = abandoned \ {a} /\ abandoned \subseteq [id : Ids, cursor : Checkpoint]
          /\ UNCHANGED <<request, executed, cursor, answer>>
      BY <2>9 DEF WriteAbandoned, KeyedInv, TypeOK
    <3>2. \A d \in ClientsOf(id) : Saving(d)' = Saving(d) /\ Loading(d)' = Loading(d)
      BY <3>1 DEF Saving, Loading
    <3>3. rows' \in {rows, [rows EXCEPT ![KeyOf[a.id]] = a.cursor]}
      BY <2>9 DEF WriteAbandoned, Upsert
    <3>4. CASE a.id # id
      <4>1. Lingering(id)' = Lingering(id)
        BY <3>1, <3>4 DEF Lingering
      <4>2. rows'[KeyOf[id]] = rows[KeyOf[id]]
        BY <2>0, <3>1, <3>3, <3>4 DEF Distinct
      <4> QED
        BY <3>1, <3>2, <4>1, <4>2, RegisterStutter
    <3>5. CASE a.id = id
      <4>1. \A b \in abandoned : b.id = id /\ b.cursor = a.cursor => b = a
        BY <3>1, <3>5
      <4>2. Lingering(id)' = Lingering(id) \ {a.cursor} /\ a.cursor \in Lingering(id)
        BY <3>1, <3>5, <4>1 DEF Lingering
      <4>3. rows'[KeyOf[id]] \in {rows[KeyOf[id]], a.cursor}
        BY <2>0, <3>3, <3>5
      <4>4. Store(id)!Linger(a.cursor)
        BY <3>1, <3>2, <4>2, <4>3 DEF Store!Linger, Store!savers, Store!loaders
      <4>5. a.cursor \in Checkpoint
        BY <3>1
      <4> QED
        BY <4>4, <4>5 DEF Store!Next
    <3> QED
      BY <3>4, <3>5
  <2>10. CASE UNCHANGED vars
    <3>1. \A d \in ClientsOf(id) : Saving(d)' = Saving(d) /\ Loading(d)' = Loading(d)
      BY <2>10 DEF vars, Saving, Loading
    <3>2. Lingering(id)' = Lingering(id)
      BY <2>10 DEF vars, Lingering
    <3> QED
      BY <2>10, <3>1, <3>2, RegisterStutter DEF vars
  <2> QED
    BY <2>1, <2>2, <2>3, <2>4, <2>5, <2>6, <2>7, <2>8, <2>9, <2>10 DEF Next
<1>3. ASSUME KeyedInv, [Next]_vars
      PROVE  \A id \in Ids : Store(id)!Next \/ UNCHANGED Store(id)!vars
  BY <1>2, <1>3
<1>4. Init => \A id \in Ids : Store(id)!Init
  BY <1>1
<1> QED
  BY <1>3, <1>4, KeyedInvariant, PTL DEF Spec, ImplementsCheckpointStores
===============================================================================
