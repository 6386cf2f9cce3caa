--------------------------------- MODULE Zones ---------------------------------
(***************************************************************************)
(* Regions and the zones they are divided into.  Names are checked among the   *)
(* live rows, the unique indexes are over all rows, the soft deleted ones too.  *)
(* A region that has live zones is not deleted: the zones are looked for before  *)
(* the UPDATE, as the region of a zone is before the zone is written.          *)
(***************************************************************************)
EXTENDS Tables, Naturals

CONSTANTS
  RegionIds,   \* primary keys of regions (bounds the inserts)
  ZoneIds,     \* primary keys of zones (bounds the inserts)
  PlaceNames,  \* names of regions and of zones
  ZoneScopes   \* a behaviour takes calls and new names from one of these

ZoneCalls == {"createRegion", "updateRegion", "removeRegion", "createZone", "updateZone", "removeZone"}

RegionData == [name : PlaceNames, life : {"live", "deleted"}]
ZoneData == [name : PlaceNames, region : RegionIds, life : {"live", "deleted"}]

ASSUME ZonesAssumption ==
  /\ RegionIds \subseteq Nat /\ ZoneIds \subseteq Nat
  /\ None \notin PlaceNames /\ None \notin RegionData /\ None \notin ZoneData
  /\ ZoneScopes \subseteq [calls : SUBSET ZoneCalls, names : SUBSET PlaceNames]

VARIABLES
  region,     \* table region
  zone,       \* table zone
  placing,    \* what each handler keeps across its awaits
  crossed,    \* regions that were being removed while a zone was being written in them
  zoneScope   \* the scope of this behaviour

zonesVars == <<region, zone, placing, crossed, zoneScope>>

-----------------------------------------------------------------------------
(* Reading *)

FindRegionByName(name, except) ==
  \E r \in RegionIds \ {except} : IsLive(region[r]) /\ region[r].name = name

FindZoneByRegionAndName(r, name, except) ==
  \E z \in ZoneIds \ {except} : IsLive(zone[z]) /\ zone[z].region = r /\ zone[z].name = name

FindActiveZoneByRegionId(r) == \E z \in ZoneIds : IsLive(zone[z]) /\ zone[z].region = r

\* region_name_uidx
RegionIndexHolds(table) ==
  \A r, q \in RegionIds : table[r] # None /\ table[q] # None /\ table[r].name = table[q].name => r = q

\* zone_regionId_name_uidx
ZoneIndexHolds(table) ==
  \A z, y \in ZoneIds :
    /\ table[z] # None /\ table[y] # None
    /\ table[z].region = table[y].region /\ table[z].name = table[y].name
    => z = y

-----------------------------------------------------------------------------
(* The steps of a handler *)

PlaceAt(w, op, step) == placing[w] # None /\ placing[w].op = op /\ placing[w].step = step
PlaceStarts(w, op) == placing[w] = None /\ op \in zoneScope.calls

\* id: the row to write, None to insert one; region, name: what it is to have;
\* sets: the columns a body names.
PlaceTask(op, step, id, r, name) ==
  [op |-> op, step |-> step, id |-> id, region |-> r, name |-> name, sets |-> {}]

Placing(w, task) == placing' = [placing EXCEPT ![w] = task] /\ UNCHANGED zoneScope

\* The region has been read, to be removed or to have a zone written in it.
Removing(r) == \E w \in Workers : placing[w] # None /\ placing[w].op = "removeRegion" /\ placing[w].id = r
SavingZone(r) ==
  \E w \in Workers :
    /\ placing[w] # None /\ placing[w].op \in {"createZone", "updateZone"}
    /\ placing[w].region = r /\ placing[w].step # "region"

ReadsPlace(w, task, crossing) ==
  /\ Placing(w, task)
  /\ crossed' = crossed \cup crossing
  /\ UNCHANGED <<region, zone>>

WritesRegion(w, table) ==
  /\ RegionIndexHolds(table)
  /\ region' = table
  /\ Placing(w, None)
  /\ UNCHANGED <<zone, crossed>>

WritesZone(w, table) ==
  /\ ZoneIndexHolds(table)
  /\ zone' = table
  /\ Placing(w, None)
  /\ UNCHANGED <<region, crossed>>

NextIds(table, ids) == {i \in ids : table[i] = None /\ \A j \in ids : j < i => table[j] # None}

SetZone(row, task) ==
  [row EXCEPT !.region = IF "region" \in task.sets THEN task.region ELSE @,
              !.name = IF "name" \in task.sets THEN task.name ELSE @]

-----------------------------------------------------------------------------
(* Regions *)

CreateRegion(w) ==
  \/ \E name \in zoneScope.names :
       /\ PlaceStarts(w, "createRegion")
       /\ ~ FindRegionByName(name, None)
       /\ ReadsPlace(w, PlaceTask("createRegion", "write", None, None, name), {})
  \/ /\ PlaceAt(w, "createRegion", "write")
     /\ \E r \in NextIds(region, RegionIds) :
          WritesRegion(w, [region EXCEPT ![r] = [name |-> placing[w].name, life |-> "live"]])

\* The UPDATE is by id, also of a region deleted since.
UpdateRegion(w) ==
  \/ \E r \in RegionIds, name \in zoneScope.names :
       /\ PlaceStarts(w, "updateRegion")
       /\ IsLive(region[r])
       /\ ReadsPlace(w, PlaceTask("updateRegion", "names", r, None, name), {})
  \/ /\ PlaceAt(w, "updateRegion", "names")
     /\ ~ FindRegionByName(placing[w].name, placing[w].id)
     /\ ReadsPlace(w, [placing[w] EXCEPT !.step = "write"], {})
  \/ /\ PlaceAt(w, "updateRegion", "write")
     /\ WritesRegion(w, [region EXCEPT ![placing[w].id].name = placing[w].name])

RemoveRegion(w) ==
  \/ \E r \in RegionIds :
       /\ PlaceStarts(w, "removeRegion")
       /\ IsLive(region[r])
       /\ ReadsPlace(w, PlaceTask("removeRegion", "zones", r, None, None), IF SavingZone(r) THEN {r} ELSE {})
  \/ /\ PlaceAt(w, "removeRegion", "zones")
     /\ ~ FindActiveZoneByRegionId(placing[w].id)
     /\ ReadsPlace(w, [placing[w] EXCEPT !.step = "write"], {})
  \/ /\ PlaceAt(w, "removeRegion", "write")
     /\ WritesRegion(w, [region EXCEPT ![placing[w].id] = SetLife(@, "deleted")])

-----------------------------------------------------------------------------
(* Zones *)

\* The region and the names are read together: here the region first.
ChecksZoneName(w, op) ==
  /\ PlaceAt(w, op, "names")
  /\ ~ FindZoneByRegionAndName(placing[w].region, placing[w].name, placing[w].id)
  /\ ReadsPlace(w, [placing[w] EXCEPT !.step = "write"], {})

ReadsRegionOf_Deleted(w, task) ==
  /\ region[task.region] # None
  /\ ReadsPlace(w, task, IF Removing(task.region) THEN {task.region} ELSE {})

\* findRegionById, of the region the zone is to be in.
ReadsRegionOf(w, task) ==
  /\ IsLive(region[task.region])
  /\ ReadsPlace(w, task, IF Removing(task.region) THEN {task.region} ELSE {})

CreateZone(w) ==
  \/ \E r \in RegionIds, name \in zoneScope.names :
       /\ PlaceStarts(w, "createZone")
       /\ ReadsRegionOf(w, PlaceTask("createZone", "names", None, r, name))
  \/ ChecksZoneName(w, "createZone")
  \/ /\ PlaceAt(w, "createZone", "write")
     /\ \E z \in NextIds(zone, ZoneIds) :
          WritesZone(w, [zone EXCEPT ![z] = [name |-> placing[w].name, region |-> placing[w].region,
                                             life |-> "live"]])

\* A body names a region, a name, both or none; for what it does not name the
\* checks take the zone as it was read, and the UPDATE leaves the column alone.
UpdateZone(w) ==
  \/ \E z \in ZoneIds, r \in RegionIds \cup {None}, name \in zoneScope.names \cup {None} :
       /\ PlaceStarts(w, "updateZone")
       /\ IsLive(zone[z])
       /\ ReadsPlace(w, [PlaceTask("updateZone", "region", z, IF r = None THEN zone[z].region ELSE r,
                                  IF name = None THEN zone[z].name ELSE name)
                          EXCEPT !.sets = (IF r = None THEN {} ELSE {"region"})
                                            \cup IF name = None THEN {} ELSE {"name"}],
                     {})
  \/ /\ PlaceAt(w, "updateZone", "region")
     /\ ReadsRegionOf(w, [placing[w] EXCEPT !.step = "names"])
  \/ ChecksZoneName(w, "updateZone")
  \/ /\ PlaceAt(w, "updateZone", "write")
     /\ WritesZone(w, [zone EXCEPT ![placing[w].id] = SetZone(@, placing[w])])

RemoveZone(w) ==
  \/ \E z \in ZoneIds :
       /\ PlaceStarts(w, "removeZone")
       /\ IsLive(zone[z])
       /\ ReadsPlace(w, PlaceTask("removeZone", "write", z, None, None), {})
  \/ /\ PlaceAt(w, "removeZone", "write")
     /\ WritesZone(w, [zone EXCEPT ![placing[w].id] = SetLife(@, "deleted")])

\* A statement fails: a unique index, most often.
AbandonPlace(w) ==
  /\ placing[w] # None
  /\ Placing(w, None)
  /\ UNCHANGED <<region, zone, crossed>>

-----------------------------------------------------------------------------
ZonesInit ==
  /\ region = [r \in RegionIds |-> None]
  /\ zone = [z \in ZoneIds |-> None]
  /\ placing = [w \in Workers |-> None]
  /\ crossed = {}
  /\ zoneScope \in ZoneScopes

ZonesNext ==
  \E w \in Workers :
    \/ CreateRegion(w) \/ UpdateRegion(w) \/ RemoveRegion(w)
    \/ CreateZone(w) \/ UpdateZone(w) \/ RemoveZone(w)
    \/ AbandonPlace(w)

ZonesSpec == ZonesInit /\ [][ZonesNext]_zonesVars

-----------------------------------------------------------------------------
(* Properties *)

\* The tables have their types, and the region of a zone is a row, deleted or not.
ZonesTypeOK ==
  /\ region \in [RegionIds -> {None} \cup RegionData]
  /\ zone \in [ZoneIds -> {None} \cup ZoneData]
  /\ crossed \subseteq RegionIds
  /\ \A z \in ZoneIds : zone[z] # None => region[zone[z].region] # None

\* "Cannot delete region while active zones exist": a live zone is in a deleted
\* region only if the zone was being written while the region was being removed.
LiveZonesHaveRegions ==
  \A z \in ZoneIds :
    IsLive(zone[z]) /\ IsDeleted(region[zone[z].region]) => zone[z].region \in crossed

=============================================================================
