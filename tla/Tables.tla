-------------------------------- MODULE Tables --------------------------------
(***************************************************************************)
(* What the tables of every service have in common.  A row is None until it *)
(* is inserted; it is then live, soft deleted (is_deleted), or gone, when a  *)
(* DELETE took it.  Primary keys are random, so that a row that is gone      *)
(* keeps its key and a late UPDATE by that key changes nothing.              *)
(***************************************************************************)
EXTENDS FiniteSets

CONSTANTS
  Workers,  \* request handlers that may run at the same time
  None      \* null

ASSUME WorkersAssumption == IsFiniteSet(Workers) /\ Workers # {}

Lives == {"live", "deleted", "gone"}

IsLive(row) == row # None /\ row.life = "live"
IsDeleted(row) == row # None /\ row.life = "deleted"
Exists(row) == IsLive(row) \/ IsDeleted(row)

\* UPDATE ... SET is_deleted, by id: nothing happens to a row that is gone.
SetLife(row, life) == IF Exists(row) THEN [row EXCEPT !.life = life] ELSE row

=============================================================================
