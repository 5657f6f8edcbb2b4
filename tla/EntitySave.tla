----------------------------- MODULE EntitySave -----------------------------
(***************************************************************************)
(* TypeORM's repository.save(entity) for an entity that was read before:   *)
(* save selects the row again, compares it with the entity in memory and   *)
(* writes only the columns that differ.  A column changed by somebody else *)
(* between the first read and save's own SELECT differs too, and is        *)
(* written back to what it was; one changed between that SELECT and the    *)
(* UPDATE is kept.                                                         *)
(***************************************************************************)

\* row after the UPDATE: mine is the entity in memory, found the row as selected.
Saved(row, found, mine) ==
    [column \in DOMAIN row |->
        IF mine[column] # found[column] THEN mine[column] ELSE row[column]]
=============================================================================
