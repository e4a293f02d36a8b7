----------------------------- MODULE RunFolder -----------------------------
(***************************************************************************)
(* One run folder over several runs: Snapchat_Auto.run with the parsers'     *)
(* main functions (scripts/ParseSnapchat_iOS.py, ParseSnapchat_Android.py),   *)
(* the extraction they share (scripts/data/extract_zip.py) and the refresh    *)
(* after a retrieval (scripts/cloud_refresh.py).  A run may be full, partial, *)
(* a dry run or a targeted refresh; a report may fail, which is logged and    *)
(* passed over; a run may raise or be killed at any step; and the next run    *)
(* may be another build's.                                                   *)
(*                                                                         *)
(* What a report holds is told by the run that wrote it: its pages, the       *)
(* manifests other reports link through, and the manifests it read itself.    *)
(***************************************************************************)
EXTENDS Integers, Sequences, FiniteSets

CONSTANTS
  Builds,       \* the versions of the tool that are run here
  MaxRuns,      \* bound: runs started
  MaxFaults     \* bound: reports that fail, runs that raise or are killed

ASSUME RunFolderAssumption ==
  /\ Builds \subseteq Nat \ {0}
  /\ MaxRuns \in Nat /\ MaxFaults \in Nat

VARIABLES
  os,           \* the platform of the folder's extraction
  flat,         \* Android: it holds the flat package folder an earlier version wrote
  evidence,     \* ExtractedData: "none", "part" of it, "whole"
  exmanifest,   \* its extraction_manifest.json is there
  settings,     \* Reports/run_settings.json: the build and its options, or NoSettings
  reports,      \* the reports in each of Folders
  unpruned,     \* what a folder holds of rows that no page may show (see Publishes)
  index,        \* each folder's index.html: which run it is about, and its legacy option
  run,          \* the run under way
  sound,        \* of each folder: no fault since its last run that wrote every report
  runs, faults

disk == <<os, flat, evidence, exmanifest, settings, reports, unpruned, index>>
vars == <<disk, run, sound, runs, faults>>

Folders == {"Reports", "extract"}    \* Reports_partial_<stamp> of the last partial run
Order == <<"Conversations", "Contacts", "Memories", "CacheMedia", "CacheController">>
Report == {Order[i] : i \in DOMAIN Order}

(* The reports whose manifests, or index in memory, a report reads. *)
Deps(r) ==
  CASE r = "Contacts" -> {"Conversations"}
    [] r = "CacheMedia" -> {"Conversations", "Memories"}
    [] r = "CacheController" -> {"Conversations", "Memories", "CacheMedia"}
    [] OTHER -> {}

(* The reports whose index half publishes what every row needs: chat attachments,
   decrypted media, copies of the database.  Rendering an extract prunes it. *)
Publishes == {"Conversations", "Memories", "CacheController"}

Absent == [pages |-> 0, manifest |-> 0, build |-> 0, whole |-> FALSE,
           saw |-> [d \in Report |-> 0]]
NoSettings == [build |-> 0, legacy |-> FALSE]
NoIndex == [run |-> 0, legacy |-> FALSE]
Idle == [mode |-> "idle", build |-> 0, legacy |-> FALSE, at |-> 1, failed |-> {}]

Init ==
  /\ os \in {"ios", "android"}
  /\ flat \in BOOLEAN /\ (flat => os = "android")
  /\ evidence \in (IF flat THEN {"part", "whole"} ELSE {"none"}) /\ exmanifest = FALSE
  /\ settings = NoSettings
  /\ reports = [f \in Folders |-> [r \in Report |-> Absent]]
  /\ unpruned = [f \in Folders |-> {}]
  /\ index = [f \in Folders |-> NoIndex]
  /\ run = Idle /\ sound = [f \in Folders |-> TRUE] /\ runs = 0 /\ faults = 0
-----------------------------------------------------------------------------
(* The steps of a run, in order. *)

Each(step, rs) == [i \in DOMAIN rs |-> <<step, rs[i]>>]
Once(steps) == [i \in DOMAIN steps |-> <<steps[i], "-">>]

FullOrder_CacheControllerFirst ==
  <<"Conversations", "Contacts", "Memories", "CacheController", "CacheMedia">>
FullOrder == Order

(* The three reports a retrieval changes. *)
RefreshOrder == <<"Memories", "CacheMedia", "CacheController">>

AndroidOrder == <<"Conversations", "Contacts", "Memories", "CacheController">>

Plan(mode) ==
  CASE mode = "targeted" -> Each("report", RefreshOrder) \o Once(<<"index">>)
    [] mode \in {"partial", "dry"} ->
         Once(<<"extract", "extracting", "check", "stage">>) \o Each("rows", Order)
           \o Once(<<"resolve">>) \o Each("render", Order) \o Once(<<"tidy", "index">>)
    [] mode = "full" /\ os = "ios" ->
         Once(<<"extract", "extracting", "settings", "stage">>)
           \o Each("report", SubSeq(FullOrder, 1, 2)) \o Once(<<"tidy">>)
           \o Each("report", SubSeq(FullOrder, 3, 5)) \o Once(<<"index">>)
    [] OTHER ->
         Once(<<"extract", "extracting", "stage">>) \o Each("report", AndroidOrder)
           \o Once(<<"tidy", "index">>)

At(step) == run.mode # "idle" /\ Plan(run.mode)[run.at][1] = step
Subject == Plan(run.mode)[run.at][2]
On(n) == run' = [run EXCEPT !.at = @ + n]
Isolated == run.mode \in {"partial", "dry"}

(* Where a run writes: a partial run has a folder of its own. *)
Folder_Shared == "Reports"
Folder == IF Isolated THEN "extract" ELSE "Reports"
-----------------------------------------------------------------------------
Start(mode, b, legacy) ==
  /\ run.mode = "idle" /\ runs < MaxRuns
  /\ runs' = runs + 1
  /\ run' = [Idle EXCEPT !.mode = mode, !.build = b, !.legacy = legacy]
  /\ IF mode \in {"partial", "dry"}
     THEN /\ reports' = [reports EXCEPT !["extract"] = [r \in Report |-> Absent]]
          /\ unpruned' = [unpruned EXCEPT !["extract"] = {}]
          /\ index' = [index EXCEPT !["extract"] = NoIndex]
     ELSE UNCHANGED <<reports, unpruned, index>>
  /\ UNCHANGED <<os, flat, evidence, exmanifest, settings, sound, faults>>

(* run(): a partial run is refused on Android. *)
StartRun(mode, b, legacy) ==
  /\ mode \in {"full", "partial", "dry"}
  /\ mode # "full" => os = "ios"
  /\ Start(mode, b, legacy)

(* cloud_download_existing(): the refresh the folder can take with this build. *)
RefreshMode(b, wanted) ==
  IF wanted = "full" \/ settings = NoSettings \/ settings.build # b THEN "full" ELSE "targeted"

StartRefresh(b, wanted) ==
  /\ RefreshMode(b, wanted) = "full" => evidence # "none" /\ settings # NoSettings
  /\ Start(RefreshMode(b, wanted), b, settings.legacy)

(* extract(): what is taken for an extraction done before.  An earlier version's flat
   folder is, on its name alone; this build never writes one. *)
Reusable_FolderOnly == evidence # "none"
Reusable == evidence # "none" /\ (os = "ios" \/ exmanifest \/ flat)

Reuse ==
  /\ At("extract") /\ Reusable
  /\ On(2)
  /\ UNCHANGED <<disk, sound, runs, faults>>

ExtractBegins ==
  /\ At("extract") /\ ~Reusable
  /\ evidence' = "part"
  /\ On(1)
  /\ UNCHANGED <<os, flat, exmanifest, settings, reports, unpruned, index, sound, runs, faults>>

(* The manifest is written last; failing to is only logged. *)
ExtractEnds ==
  /\ At("extracting")
  /\ evidence' = "whole"
  /\ \/ exmanifest' = TRUE /\ faults' = faults
     \/ exmanifest' = exmanifest /\ faults < MaxFaults /\ faults' = faults + 1
  /\ On(1)
  /\ UNCHANGED <<os, flat, settings, reports, unpruned, index, sound, runs>>

(* How the run is made, kept for a later refresh: before any report is. *)
WriteSettings ==
  /\ At("settings")
  /\ settings' = [build |-> run.build, legacy |-> run.legacy]
  /\ On(1)
  /\ UNCHANGED <<os, flat, evidence, exmanifest, reports, unpruned, index, sound, runs, faults>>

(* check_evidence lets the run go on. *)
Check ==
  /\ At("check")
  /\ On(1)
  /\ UNCHANGED <<disk, sound, runs, faults>>

(* The parser copies every chat attachment next to the reports. *)
Stage ==
  /\ At("stage")
  /\ unpruned' = [unpruned EXCEPT ![Folder] = @ \cup {"staging"}]
  /\ On(1)
  /\ UNCHANGED <<os, flat, evidence, exmanifest, settings, reports, index, sound, runs, faults>>

(* The manifests r finds: the full reports' (links_dir in a partial run), but for
   Contacts the index this run's Conversations handed over, if it came so far. *)
Seen(r, d) ==
  IF r # "Contacts" THEN reports["Reports"][d].manifest
  ELSE IF d \in run.failed THEN 0 ELSE runs

Written(r) ==
  [pages |-> runs, manifest |-> runs, build |-> run.build, whole |-> evidence = "whole",
   saw |-> [d \in Report |-> IF d \in Deps(r) THEN Seen(r, d) ELSE 0]]

Render(r) ==
  /\ reports' = [reports EXCEPT ![Folder][r] = Written(r)]
  /\ UNCHANGED <<os, flat, evidence, exmanifest, settings, index, sound, runs, faults>>

(* A report that raises is logged and the run goes on: nothing of it is written,
   or some pages are, with its manifests or without. *)
Fails(r) ==
  /\ faults < MaxFaults
  /\ faults' = faults + 1
  /\ LET old == reports[Folder][r]  new == Written(r)
     IN \E left \in {old, [new EXCEPT !.manifest = old.manifest], new} :
          reports' = [reports EXCEPT ![Folder][r] = left]
  /\ run' = [run EXCEPT !.at = @ + 1, !.failed = @ \cup {r}]
  /\ UNCHANGED <<os, flat, evidence, exmanifest, settings, unpruned, index, sound, runs>>

(* A full run or a refresh: index and render in one. *)
ReportDone ==
  /\ At("report")
  /\ Render(Subject)
  /\ unpruned' = unpruned
  /\ On(1)

ReportFails ==
  /\ At("report")
  /\ run.mode = "targeted" => Subject # "Memories"     \* that one is not caught there
  /\ Fails(Subject)

(* _index_stages: the rows of one report, read from the evidence. *)
Rows(done) ==
  /\ At("rows")
  /\ ~done => faults < MaxFaults
  /\ faults' = IF done THEN faults ELSE faults + 1
  /\ \E published \in IF done THEN {{Subject} \cap Publishes} ELSE {{}, {Subject} \cap Publishes} :
       unpruned' = [unpruned EXCEPT ![Folder] = @ \cup published]
  /\ run' = [run EXCEPT !.at = @ + 1, !.failed = IF done THEN @ ELSE @ \cup {Subject}]
  /\ UNCHANGED <<os, flat, evidence, exmanifest, settings, reports, index, sound, runs>>

(* resolve and expand; a dry run ends here. *)
Resolve ==
  /\ At("resolve")
  /\ run' = IF run.mode = "dry" THEN Idle ELSE [run EXCEPT !.at = @ + 1]
  /\ UNCHANGED <<disk, sound, runs, faults>>

(* _render_partial: one report of the extract, pruned to the rows it shows. *)
Pruned_None(r) == {}
Pruned(r) == {r}

RenderDone ==
  /\ At("render")
  /\ IF Subject \notin run.failed
     THEN /\ Render(Subject)
          /\ unpruned' = [unpruned EXCEPT ![Folder] = @ \ Pruned(Subject)]
     ELSE UNCHANGED <<disk, sound, runs, faults>>
  /\ On(1)

RenderFails == At("render") /\ Subject \notin run.failed /\ Fails(Subject)

(* The staging folder goes, unless the legacy report in it is wanted (on Android
   it has a folder of its own). *)
Staging == IF run.legacy /\ os = "ios" THEN {} ELSE {"staging"}

Tidy ==
  /\ At("tidy")
  /\ unpruned' = [unpruned EXCEPT ![Folder] = @ \ Staging]
  /\ On(1)
  /\ UNCHANGED <<os, flat, evidence, exmanifest, settings, reports, index, sound, runs, faults>>

(* write_index, the last step; one that rendered every report without a fault makes
   the folder sound. *)
Index ==
  /\ At("index")
  /\ index' = [index EXCEPT ![Folder] = [run |-> runs, legacy |-> run.legacy]]
  /\ sound' = [sound EXCEPT ![Folder] = (run.mode # "targeted" \/ @) /\ run.failed = {}]
  /\ run' = Idle
  /\ UNCHANGED <<os, flat, evidence, exmanifest, settings, reports, unpruned, runs, faults>>

(* An exception that nothing below run() catches, or the program is killed. *)
Ends ==
  /\ run.mode # "idle" /\ faults < MaxFaults
  /\ faults' = faults + 1
  /\ run' = Idle
  /\ sound' = [sound EXCEPT ![Folder] = FALSE]
  /\ UNCHANGED <<disk, runs>>

Step ==
  \/ Reuse \/ ExtractBegins \/ ExtractEnds \/ WriteSettings \/ Check \/ Stage
  \/ ReportDone \/ ReportFails \/ (\E done \in BOOLEAN : Rows(done)) \/ Resolve
  \/ RenderDone \/ RenderFails \/ Tidy \/ Index

(* Every run there was room for is over. *)
Finished == run.mode = "idle" /\ runs = MaxRuns /\ UNCHANGED vars

Next ==
  \/ \E b \in Builds, legacy \in BOOLEAN, mode \in {"full", "partial", "dry"} :
       StartRun(mode, b, legacy)
  \/ \E b \in Builds, wanted \in {"full", "targeted"} : StartRefresh(b, wanted)
  \/ Step \/ Ends \/ Finished

Spec == Init /\ [][Next]_vars
-----------------------------------------------------------------------------
Reported == {r \in Report : reports["Reports"][r].pages # 0}

(* The types of the state. *)
Types ==
  /\ os \in {"ios", "android"} /\ flat \in BOOLEAN /\ (flat => os = "android")
  /\ evidence \in {"none", "part", "whole"}
  /\ exmanifest \in BOOLEAN /\ sound \in [Folders -> BOOLEAN]
  /\ settings \in [build : {0} \cup Builds, legacy : BOOLEAN]
  /\ reports \in [Folders -> [Report -> [pages : Nat, manifest : Nat, build : {0} \cup Builds,
                                        whole : BOOLEAN, saw : [Report -> Nat]]]]
  /\ unpruned \in [Folders -> SUBSET (Report \cup {"staging"})]
  /\ index \in [Folders -> [run : Nat, legacy : BOOLEAN]]
  /\ run \in [mode : {"idle", "full", "partial", "dry", "targeted"}, build : {0} \cup Builds,
              legacy : BOOLEAN, at : Nat \ {0}, failed : SUBSET Report]
  /\ runs \in Nat /\ faults \in Nat

(* A run is always at one of its steps. *)
TypeOK == Types /\ (run.mode # "idle" => run.at \in DOMAIN Plan(run.mode))

(* "Two-way links" between the reports, and no two builds' reports side by side:
   between runs, when no report failed since a full run, every report links to
   pages that are there now, and one build wrote them all, also after a refresh of
   three of them. *)
LinksHold ==
  run.mode = "idle" /\ sound["Reports"] =>
    \A r, d \in Reported :
      /\ d \in Deps(r) => reports["Reports"][r].saw[d] = reports["Reports"][d].pages
      /\ reports["Reports"][r].build = reports["Reports"][d].build

(* "never over the reports the selection was made in": no step of a partial or a
   dry run changes the full reports, their settings, their index or what lies
   beside them. *)
FullReportsKept ==
  [][Isolated => /\ settings' = settings /\ reports'["Reports"] = reports["Reports"]
                 /\ index'["Reports"] = index["Reports"]
                 /\ unpruned'["Reports"] = unpruned["Reports"]]_vars

(* "Leaving those behind would put decrypted media of unselected Memories into a
   disclosure folder": an extract that was finished, and in which no report
   failed, holds no attachment, decrypted file or database copy but those of its
   rows, and the staging folder only when the legacy reports are part of it. *)
ExtractFinished == index["extract"] # NoIndex
Wanted == IF index["extract"].legacy THEN {"staging"} ELSE {}

ExtractClean == ExtractFinished /\ sound["extract"] => unpruned["extract"] \subseteq Wanted

(* No report was made from an Android extraction of this build's that was cut off:
   what was written before the cut is never taken for the whole.  It says nothing of
   a flat folder found there, which is read as it was left, whole or not. *)
EvidenceWhole ==
  os = "android" /\ ~flat => \A r \in Reported : reports["Reports"][r].whole
=============================================================================
