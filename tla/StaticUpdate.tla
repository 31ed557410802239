---------------------------- MODULE StaticUpdate ----------------------------
(***************************************************************************)
(* Following DMRC's static feed: the daily job of the worker and the       *)
(* operator's commands (check-gtfs-update, load-static) around one set of  *)
(* static tables.                                                          *)
(*                                                                         *)
(* A published dataset is a number; its kind says what a load makes of it  *)
(* ("good"; "rejected" by validation; "unloadable", accepted and then      *)
(* refused by the tables, see GtfsValidation), and tagged whether the      *)
(* response carries an ETag.  Override stands for the archive an operator  *)
(* loads by hand.  Fetching, reading the last ETag, loading and recording  *)
(* the new ETag are four transactions, with anything in between.           *)
(***************************************************************************)
EXTENDS Naturals

CONSTANTS MaxPublished, \* datasets DMRC publishes
          MaxCrashes,   \* runs cut short
          MaxByHand     \* loads by hand

UpdateBounds == MaxPublished \in Nat \ {0} /\ MaxCrashes \in Nat /\ MaxByHand \in Nat

Feeds == 1..MaxPublished
Override == MaxPublished + 1
NoData == 0 \* no dataset, no ETag row, or a row that carries no ETag
Runs == {"job", "command"}
Idle == [pc |-> "idle", data |-> NoData]

VARIABLES
  remote,     \* the dataset DMRC serves now
  kind, tagged,
  tables,     \* the dataset in the tables, and its dataset_versions row
  etag,       \* the newest gtfs_static_remote_etag row
  run,        \* where each process is
  outdated,   \* processes whose transaction began before another's commit
  crashes, byHand,
  overlapped  \* two checks have run at once (history)

updateVars == <<remote, kind, tagged, tables, etag, run, outdated, crashes, byHand, overlapped>>

Init ==
  /\ remote = 1
  /\ kind \in [Feeds -> {"good", "rejected", "unloadable"}]
  /\ tagged \in [Feeds -> BOOLEAN]
  /\ tables = NoData /\ etag = NoData
  /\ run = [r \in Runs |-> Idle]
  /\ outdated = {}
  /\ crashes = 0 /\ byHand = 0
  /\ overlapped = FALSE

Publish ==
  /\ remote < MaxPublished
  /\ remote' = remote + 1
  /\ UNCHANGED <<kind, tagged, tables, etag, run, outdated, crashes, byHand, overlapped>>

Ends(r) == run' = [run EXCEPT ![r] = Idle]
Goes(r, pc) == run' = [run EXCEPT ![r].pc = pc]

\* The archive is downloaded first; a failed download changes nothing.
Fetch(r) ==
  /\ run[r].pc = "idle"
  /\ run' = [run EXCEPT ![r] = [pc |-> "fetched", data |-> remote]]
  /\ overlapped' = (overlapped \/ \E q \in Runs \ {r} : run[q].pc # "idle")
  /\ UNCHANGED <<remote, kind, tagged, tables, etag, outdated, crashes, byHand>>

Unchanged(r) == tagged[run[r].data] /\ etag = run[r].data

\* Then the last recorded ETag is read: nothing to do when it is the same.
Compare(r) ==
  /\ run[r].pc = "fetched"
  /\ IF Unchanged(r) THEN Ends(r) ELSE Goes(r, "changed")
  /\ UNCHANGED <<remote, kind, tagged, tables, etag, outdated, crashes, byHand, overlapped>>

\* Slip: the ETag is recorded as soon as the archive is known to have changed.
BeginLoadEtagFirst(r) ==
  /\ run[r].pc = "changed"
  /\ IF kind[run[r].data] = "rejected" THEN Ends(r) ELSE Goes(r, "loading")
  /\ etag' = IF tagged[run[r].data] THEN run[r].data ELSE NoData
  /\ outdated' = outdated \ {r}
  /\ UNCHANGED <<remote, kind, tagged, tables, crashes, byHand, overlapped>>

\* A rejected archive ends the check before the database is touched.
BeginLoad(r) ==
  /\ run[r].pc = "changed"
  /\ IF kind[run[r].data] = "rejected" THEN Ends(r) ELSE Goes(r, "loading")
  /\ outdated' = outdated \ {r}
  /\ UNCHANGED <<remote, kind, tagged, tables, etag, crashes, byHand, overlapped>>

\* load-static: the same transaction on another archive, and no ETag.
BeginByHand ==
  /\ run["command"].pc = "idle"
  /\ byHand < MaxByHand
  /\ byHand' = byHand + 1
  /\ run' = [run EXCEPT !["command"] = [pc |-> "loading", data |-> Override]]
  /\ outdated' = outdated \ {"command"}
  /\ UNCHANGED <<remote, kind, tagged, tables, etag, crashes, overlapped>>

\* The delete of a transaction that began before another's commit leaves the
\* rows of that commit, and the insert meets their keys: it rolls back.
CommitFails(r) == r \in outdated \/ (run[r].data # Override /\ kind[run[r].data] = "unloadable")

CommitLoad(r) ==
  /\ run[r].pc = "loading"
  /\ IF CommitFails(r)
       THEN Ends(r) /\ UNCHANGED <<tables, outdated>>
       ELSE /\ tables' = run[r].data
            /\ outdated' = outdated \cup {q \in Runs \ {r} : run[q].pc = "loading"}
            /\ IF run[r].data = Override THEN Ends(r) ELSE Goes(r, "loaded")
  /\ UNCHANGED <<remote, kind, tagged, etag, crashes, byHand, overlapped>>

\* Expired calendars are only reported; the ETag row comes last.
StoreEtag(r) ==
  /\ run[r].pc = "loaded"
  /\ etag' = IF tagged[run[r].data] THEN run[r].data ELSE NoData
  /\ Ends(r)
  /\ UNCHANGED <<remote, kind, tagged, tables, outdated, crashes, byHand, overlapped>>

\* The process dies, or a database error ends the run: an open transaction
\* is rolled back, committed ones stay.
Crash(r) ==
  /\ run[r].pc # "idle"
  /\ crashes < MaxCrashes
  /\ crashes' = crashes + 1
  /\ Ends(r)
  /\ UNCHANGED <<remote, kind, tagged, tables, etag, outdated, byHand, overlapped>>

Goon(r) == Compare(r) \/ BeginLoad(r) \/ CommitLoad(r) \/ StoreEtag(r)

Next ==
  \/ Publish
  \/ BeginByHand
  \/ \E r \in Runs : Fetch(r) \/ Goon(r) \/ Crash(r)

\* The job is scheduled for ever; a command, once started, goes on.
Fairness ==
  /\ WF_updateVars(Fetch("job"))
  /\ \A r \in Runs : WF_updateVars(Goon(r))

Spec == Init /\ [][Next]_updateVars /\ Fairness

TypeOK ==
  /\ remote \in Feeds
  /\ kind \in [Feeds -> {"good", "rejected", "unloadable"}]
  /\ tagged \in [Feeds -> BOOLEAN]
  /\ tables \in 0..Override /\ etag \in 0..MaxPublished
  /\ run \in [Runs -> [pc : {"idle", "fetched", "changed", "loading", "loaded"},
                       data : 0..Override]]
  /\ outdated \subseteq Runs
  /\ crashes \in 0..MaxCrashes /\ byHand \in 0..MaxByHand
  /\ overlapped \in BOOLEAN

(***************************************************************************)
(* The recorded ETag never runs ahead of the tables, or a check would find *)
(* "unchanged" and leave an old timetable for good: an ETag is that of the *)
(* dataset in the tables or of an earlier one (an override counts as the   *)
(* last), unless two checks have overlapped.                               *)
(***************************************************************************)
EtagIsLoaded == overlapped \/ etag <= tables

(***************************************************************************)
(* Whatever is published, interrupted or loaded by hand, the tables end up *)
(* with the dataset DMRC serves last, if that can be loaded, or with the   *)
(* operator's override: a crash between the load and its ETag row only     *)
(* repeats the load, and a bad archive in between is stepped over.  Two    *)
(* checks that overlap are the exception: the slower one may load an older *)
(* archive and the other then record the newer ETag.                       *)
(***************************************************************************)
FeedIsFollowed ==
  <>[](kind[remote] = "good" => tables \in {remote, Override} \/ overlapped)
=============================================================================
