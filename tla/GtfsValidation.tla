--------------------------- MODULE GtfsValidation ---------------------------
(***************************************************************************)
(* What validate_dataset accepts, and what the tables then take.           *)
(*                                                                         *)
(* A dataset maps each file of the archive to its rows and to complete,    *)
(* whether the required columns are there.  A row keeps the identifiers    *)
(* that keys and references are made of ("" is an empty one); of its other *)
(* fields it keeps bad: "required" when a mandatory one does not parse,    *)
(* "optional" when a number that may be left out is given and does not     *)
(* parse.  A stop_sequence has a number, which is the key of the table,    *)
(* and a text, which is what validation compares.                          *)
(***************************************************************************)
EXTENDS Naturals, Sequences

CONSTANT Datasets \* the archives examined

RequiredFiles == {"agency", "routes", "trips", "stops", "stop_times"}
ConditionalFiles == {"calendar", "calendar_dates", "shapes"}

VARIABLES archive, outcome

validationVars == <<archive, outcome>>

-----------------------------------------------------------------------------
(* Validation.  Warnings (no shapes, an unknown shape) do not block.       *)

FileRows(ds, f) == IF f \in DOMAIN ds THEN ds[f].rows ELSE <<>>
HasColumns(ds, f) == FileRows(ds, f) # <<>> /\ ds[f].complete
Lines(ds, f) == IF HasColumns(ds, f) THEN DOMAIN FileRows(ds, f) ELSE {}
Ids(ds, f) == {FileRows(ds, f)[i].id : i \in Lines(ds, f)} \ {""}
Services(ds) == Ids(ds, "calendar") \cup Ids(ds, "calendar_dates")

FilesPresent(ds) ==
  /\ RequiredFiles \subseteq DOMAIN ds
  /\ "calendar" \in DOMAIN ds \/ "calendar_dates" \in DOMAIN ds

FieldsParse(ds) ==
  \A f \in DOMAIN ds : \A i \in Lines(ds, f) : "required" \notin FileRows(ds, f)[i].bad

IdsGiven(ds) ==
  \A f \in DOMAIN ds \ {"agency", "stop_times"} :
    \A i \in Lines(ds, f) : FileRows(ds, f)[i].id # ""

\* Only routes, stops and trips are checked for duplicates.
IdsUnique(ds) ==
  \A f \in {"routes", "stops", "trips"} :
    \A i, j \in Lines(ds, f) : FileRows(ds, f)[i].id = FileRows(ds, f)[j].id => i = j

TripsResolve(ds) ==
  \A i \in Lines(ds, "trips") :
    LET trip == FileRows(ds, "trips")[i] IN
    /\ trip.route \in Ids(ds, "routes")
    /\ Services(ds) # {} => trip.service \in Services(ds)

StopTimesResolve(ds) ==
  LET rows == FileRows(ds, "stop_times") IN
  /\ \A i \in Lines(ds, "stop_times") :
       rows[i].trip \in Ids(ds, "trips") /\ rows[i].stop \in Ids(ds, "stops")
  /\ \A i, j \in Lines(ds, "stop_times") :
       rows[i].trip = rows[j].trip /\ rows[i].text = rows[j].text => i = j

Accepted(ds) ==
  /\ FilesPresent(ds)
  /\ \A f \in DOMAIN ds : HasColumns(ds, f)
  /\ FieldsParse(ds) /\ IdsGiven(ds) /\ IdsUnique(ds)
  /\ TripsResolve(ds) /\ StopTimesResolve(ds)

-----------------------------------------------------------------------------
(* The load: rows become typed columns, then the keys and the foreign keys *)
(* of the tables hold or the whole transaction is rolled back.             *)

AgencyId(row) == IF row.id = "" THEN "default" ELSE row.id
RouteAgency(ds, row) ==
  IF row.agency # "" THEN row.agency ELSE AgencyId(FileRows(ds, "agency")[1])

Key(f, row) ==
  CASE f = "agency" -> AgencyId(row)
    [] f = "calendar_dates" -> <<row.id, row.date>>
    [] f = "shapes" -> <<row.id, row.sequence>>
    [] f = "stop_times" -> <<row.trip, row.number>>
    [] OTHER -> row.id

RowsConvert(ds, f) == \A i \in DOMAIN FileRows(ds, f) : FileRows(ds, f)[i].bad = {}

KeysUnique(ds, f) ==
  \A i, j \in DOMAIN FileRows(ds, f) : Key(f, FileRows(ds, f)[i]) = Key(f, FileRows(ds, f)[j]) => i = j

Keys(ds, f) == {Key(f, FileRows(ds, f)[i]) : i \in DOMAIN FileRows(ds, f)}

AgenciesHold(ds) ==
  \A i \in DOMAIN FileRows(ds, "routes") :
    RouteAgency(ds, FileRows(ds, "routes")[i]) \in Keys(ds, "agency")

ReferencesHold(ds) ==
  /\ \A i \in DOMAIN FileRows(ds, "trips") : FileRows(ds, "trips")[i].route \in Keys(ds, "routes")
  /\ \A i \in DOMAIN FileRows(ds, "stop_times") :
       /\ FileRows(ds, "stop_times")[i].trip \in Keys(ds, "trips")
       /\ FileRows(ds, "stop_times")[i].stop \in Keys(ds, "stops")

Loads(ds) ==
  /\ \A f \in DOMAIN ds : RowsConvert(ds, f) /\ KeysUnique(ds, f)
  /\ AgenciesHold(ds) /\ ReferencesHold(ds)

-----------------------------------------------------------------------------
Init == archive \in Datasets /\ outcome = "unread"

\* validate_dataset, whether for validate_only or for a load.
Validate ==
  /\ outcome = "unread"
  /\ outcome' = IF Accepted(archive) THEN "accepted" ELSE "rejected"
  /\ UNCHANGED archive

\* The rows of an accepted archive are inserted, or the transaction fails.
Insert ==
  /\ outcome = "accepted"
  /\ outcome' = IF Loads(archive) THEN "loaded" ELSE "rolled back"
  /\ UNCHANGED archive

Next == Validate \/ Insert

Spec == Init /\ [][Next]_validationVars

\* An archive has files that the loader knows, and a field of a row is
\* mandatory or optional.
DatasetsFit ==
  \A ds \in Datasets :
    /\ DOMAIN ds \subseteq RequiredFiles \cup ConditionalFiles
    /\ \A f \in DOMAIN ds : \A i \in DOMAIN ds[f].rows : ds[f].rows[i].bad \subseteq {"required", "optional"}

TypeOK ==
  /\ DOMAIN archive \subseteq RequiredFiles \cup ConditionalFiles
  /\ outcome \in {"unread", "accepted", "rejected", "loaded", "rolled back"}

(***************************************************************************)
(* An archive that validation accepts loads, save for what validation does *)
(* not look at: a duplicate in agency, calendar, calendar_dates or shapes, *)
(* one stop_sequence spelled in two ways, a route of an unknown agency,    *)
(* an optional number that does not parse.  Those end in a database or     *)
(* conversion error instead of a line of the report.                       *)
(***************************************************************************)
SpelledTwice(ds) ==
  \E i, j \in DOMAIN FileRows(ds, "stop_times") :
    LET a == FileRows(ds, "stop_times")[i]  b == FileRows(ds, "stop_times")[j] IN
    a.trip = b.trip /\ a.number = b.number /\ a.text # b.text

Overlooked(ds) ==
  \/ \E f \in {"agency", "calendar", "calendar_dates", "shapes"} : ~KeysUnique(ds, f)
  \/ SpelledTwice(ds)
  \/ ~AgenciesHold(ds)
  \/ \E f \in DOMAIN ds : \E i \in DOMAIN FileRows(ds, f) : FileRows(ds, f)[i].bad = {"optional"}

AcceptedArchivesLoad == outcome = "rolled back" => Overlooked(archive)
=============================================================================
