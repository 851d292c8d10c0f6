----------------------------- MODULE StoredRows -----------------------------
(***************************************************************************)
(* The findings table as SQLite keeps it, while seta is upgraded to        *)
(* versions that have renamed checks (loadRows and saveRows of             *)
(* internal/state/diff.go, with App.canonicalID of internal/cli).          *)
(*                                                                         *)
(* A fingerprint contains the ID of the check, so a finding has another    *)
(* one in every version that renamed its check.  A row is renamed when it  *)
(* is loaded, and saved in place of the former one.  FindingState is what  *)
(* one version sees, and stays what all of them see; seta is not           *)
(* downgraded here: an older version does not know the newer IDs.          *)
(***************************************************************************)
EXTENDS FindingState

CONSTANT Names   \* for each version the ID of each check

Versions == DOMAIN Names
IDs == {Names[v][c] : v \in Versions, c \in Checks}
NoID == ""

ASSUME NamesAssumption ==
    /\ Versions \subseteq Nat \ {0} /\ \E n \in Versions : Versions = 1..n
    /\ \A v, w \in Versions, c, d \in Checks : Names[v][c] = Names[w][d] => c = d
    /\ NoID \notin IDs

VARIABLES
    version,  \* the version of seta that runs
    stored    \* each finding's rows in the table, by the ID in the fingerprint

storedVars == <<vars, version, stored>>

\* The IDs of a check the version knows: its own and the former ones.
Known(v, c) == {Names[w][c] : w \in 1..v}

\* Registry.Lookup and App.canonicalID: a check's former IDs are its aliases.
Canonical(v, c, id) == IF id \in Known(v, c) THEN Names[v][c] ELSE id

Current(f) == Names[version][CheckOf[f]]

(***************************************************************************)
(* loadRows: of the rows that a finding has under its check's IDs, the one *)
(* read last replaces the others.  SELECT gives them in no order: last is  *)
(* any of them.                                                            *)
(***************************************************************************)
Mine(f) ==
    {id \in IDs : stored[f][id] # NoRow /\ Canonical(version, CheckOf[f], id) = Current(f)}
ReadLast ==
    {last \in [Findings -> IDs \cup {NoID}] :
        \A f \in Findings : last[f] \in IF Mine(f) = {} THEN {NoID} ELSE Mine(f)}
LoadedRow(f, id) == IF id = NoID THEN NoRow ELSE stored[f][id]

\* Wrong: the row is inserted under its new fingerprint and left under the old.
WithoutFormerKept(f, id) == stored[f]

\* DELETE of the fingerprint that the loaded row had.
WithoutFormer(f, id) ==
    IF id # NoID /\ id # Current(f) THEN [stored[f] EXCEPT ![id] = NoRow] ELSE stored[f]

(***************************************************************************)
(* saveRows: a row that is gone is deleted, others are inserted or replace *)
(* the one with the same fingerprint, but for its first_seen.              *)
(***************************************************************************)
Upserted(there, row) ==
    IF row = NoRow \/ there = NoRow THEN row
    ELSE [row EXCEPT !.firstSeen = there.firstSeen]

Saved(f, id, row) ==
    LET others == WithoutFormer(f, id)
    IN  [others EXCEPT ![Current(f)] = Upserted(others[Current(f)], row)]

StoredInit ==
    /\ Init
    /\ version = 1
    /\ stored = [f \in Findings |-> [id \in IDs |-> NoRow]]

StoreRecord ==
    /\ \E last \in ReadLast : \E res \in Results :
         /\ Record(res)
         /\ stored' = [f \in Findings |->
                Saved(f, last[f], NextRow(LoadedRow(f, last[f]), f, res, time))]
    /\ UNCHANGED version

StorePrune ==
    /\ PruneFindings
    /\ stored' = [f \in Findings |-> [id \in IDs |->
                     IF Expired(stored[f][id], time - Retention) THEN NoRow ELSE stored[f][id]]]
    /\ UNCHANGED version

\* What leaves the findings table alone.
StoreElse == (PruneRuns \/ AbandonPrune \/ Tick) /\ UNCHANGED <<version, stored>>

\* seta is stopped and started again as a later version.
Upgrade ==
    /\ phase = "idle"
    /\ \E v \in Versions : v > version /\ version' = v
    /\ UNCHANGED <<vars, stored>>

StoredNext == StoreRecord \/ StorePrune \/ StoreElse \/ Upgrade

StoredSpec == StoredInit /\ [][StoredNext]_storedVars

-----------------------------------------------------------------------------
(***************************************************************************)
(* Whenever and however often checks were renamed, the running version     *)
(* finds the row it would find had nothing been renamed, whichever row is  *)
(* read last: no finding is forgotten and new again, and none that was     *)
(* pruned, or left with its target, comes back from a row under a former   *)
(* ID.                                                                     *)
(***************************************************************************)
RenamesLoseNothing ==
    \A f \in Findings : {stored[f][id] : id \in Mine(f)} = {rows[f]} \ {NoRow}

(***************************************************************************)
(* It is inductive with this: a finding has one row at most, the one that  *)
(* it would have without renames, under an ID its check had until now.     *)
(***************************************************************************)
StoredInv ==
    /\ version \in Versions
    /\ stored \in [Findings -> [IDs -> Row \cup {NoRow}]]
    /\ \A f \in Findings :
         /\ \A id \in IDs : stored[f][id] # NoRow =>
                stored[f][id] = rows[f] /\ id \in Known(version, CheckOf[f])
         /\ \A id, other \in IDs :
                stored[f][id] # NoRow /\ stored[f][other] # NoRow => id = other
         /\ rows[f] # NoRow => \E id \in IDs : stored[f][id] # NoRow
=============================================================================
