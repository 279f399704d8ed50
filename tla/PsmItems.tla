------------------------------ MODULE PsmItems ------------------------------
(***************************************************************************)
(* What the data of the Parameter Storage Manager looks like: the items,   *)
(* their two areas (the actual data and, where the storage has one, the    *)
(* temporary data of an update) and the handles that ask for changes.      *)
(*                                                                         *)
(* The content of an area is one of a few values: a value some caller      *)
(* saved, Empty (written_size is 0: no row, or a row of length 0) or Torn  *)
(* (bytes nobody asked for: what a failed or interrupted write leaves).    *)
(***************************************************************************)
EXTENDS Integers, Sequences, FiniteSets

CONSTANTS
    Items,          \* EsfParameterStorageManagerItemID
    ReadOnly,       \* those with capabilities.read_only
    Required,       \* those of a factory reset, in the order of their ids
    Vals,           \* what callers save
    BigVals,        \* those longer than the staging buffer (BUFFER_LENGTH)
    Empty, Torn,
    HandleMax,      \* CONFIG_EXTERNAL_PARAMETER_STORAGE_MANAGER_HANDLE_MAX
    UpdateMax,      \* CONFIG_EXTERNAL_PARAMETER_STORAGE_MANAGER_UPDATE_MAX
    Cancellable,    \* capabilities.cancellable: the storage has temporary areas
    MapSupport      \* the large heap of the Memory Manager can be mapped

ASSUME PsmItemsAssumption ==
    /\ IsFiniteSet(Items)
    /\ ReadOnly \subseteq Items
    /\ Required \in Seq(Items)
    /\ BigVals \subseteq Vals
    /\ Empty \notin Vals /\ Torn \notin Vals /\ Empty # Torn
    /\ HandleMax \in Nat \ {0}
    /\ UpdateMax \in Nat \ {0}
    /\ Cancellable \in BOOLEAN /\ MapSupport \in BOOLEAN

Handles == 0 .. HandleMax - 1
Contents == Vals \cup {Empty, Torn}

\* What a status tells apart: done, a failure after which the change was
\* rolled back, and DataLoss, after which nothing is promised.
Errors == {"error", "dataloss"}
Statuses == {"ok"} \cup Errors

\* The items of a sequence of items, and how the members of a request are given.
Members(s) == {s[j] : j \in 1..Len(s)}
Distinct(s) == \A j, k \in 1..Len(s) : s[j] = s[k] => j = k
Requests == {s \in UNION {[1..n -> Items] : n \in 1..Cardinality(Items)} : Distinct(s)}
=============================================================================
