--------------------------- MODULE CheckpointStore ---------------------------
(***************************************************************************)
(* What a CheckpointStore promises the code that saves and loads through   *)
(* it: one atomic register.  A save that returned Ok took effect at one    *)
(* moment while it was under way.  One that returned an error, or whose    *)
(* process died, took effect, or will later, or never.  A load returns     *)
(* what the register held at one moment of the load.                       *)
(***************************************************************************)
CONSTANTS Savers, Loaders, Checkpoints, None

VARIABLES
    stored,    \* the checkpoint in the store, None at first
    lingering, \* checkpoints whose save failed and may still take effect
    saving,    \* saver -> "no", "asked" or "applied"
    cursor,    \* saver -> the checkpoint it saves, or saved last
    loading,   \* loader -> "no", or "read" until the load returns
    loaded     \* loader -> the checkpoint it read

vars == <<stored, lingering, saving, cursor, loading, loaded>>

savers == <<saving, cursor>>

loaders == <<loading, loaded>>

Init ==
    /\ stored = None
    /\ lingering = {}
    /\ saving = [s \in Savers |-> "no"]
    /\ cursor = [s \in Savers |-> None]
    /\ loading = [l \in Loaders |-> "no"]
    /\ loaded = [l \in Loaders |-> None]

Save(s, c) ==
    /\ saving[s] = "no"
    /\ saving' = [saving EXCEPT ![s] = "asked"]
    /\ cursor' = [cursor EXCEPT ![s] = c]
    /\ UNCHANGED <<stored, lingering, loaders>>

Apply(s) ==
    /\ saving[s] = "asked"
    /\ saving' = [saving EXCEPT ![s] = "applied"]
    /\ stored' = cursor[s]
    /\ UNCHANGED <<lingering, cursor, loaders>>

SaveOk(s) ==
    /\ saving[s] = "applied"
    /\ saving' = [saving EXCEPT ![s] = "no"]
    /\ UNCHANGED <<stored, lingering, cursor, loaders>>

\* Errors and deaths: of several savers at once when their process dies.
SavesFail(S) ==
    /\ \A s \in S : saving[s] # "no"
    /\ saving' = [s \in Savers |-> IF s \in S THEN "no" ELSE saving[s]]
    /\ lingering' \in {lingering \cup {cursor[s] : s \in L} :
                          L \in SUBSET {s \in S : saving[s] = "asked"}}
    /\ UNCHANGED <<stored, cursor, loaders>>

\* What lingers takes effect, or is lost.
Linger(c) ==
    /\ c \in lingering
    /\ lingering' = lingering \ {c}
    /\ stored' \in {stored, c}
    /\ UNCHANGED <<savers, loaders>>

Read(l) ==
    /\ loading[l] = "no"
    /\ loading' = [loading EXCEPT ![l] = "read"]
    /\ loaded' = [loaded EXCEPT ![l] = stored]
    /\ UNCHANGED <<stored, lingering, savers>>

LoadReturns(l) ==
    /\ loading[l] = "read"
    /\ loading' = [loading EXCEPT ![l] = "no"]
    /\ UNCHANGED <<stored, lingering, savers, loaded>>

Next ==
    \/ \E s \in Savers :
          \/ \E c \in Checkpoints : Save(s, c)
          \/ Apply(s)
          \/ SaveOk(s)
    \/ \E S \in SUBSET Savers : SavesFail(S)
    \/ \E c \in Checkpoints : Linger(c)
    \/ \E l \in Loaders : Read(l) \/ LoadReturns(l)

Spec == Init /\ [][Next]_vars
===============================================================================
