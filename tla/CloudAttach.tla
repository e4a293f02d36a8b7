---------------------------- MODULE CloudAttach ----------------------------
(***************************************************************************)
(* The reports of a run folder beside its retrievals: attach() of             *)
(* scripts/cloud_memories.py, which every run of the Memories report calls     *)
(* (memories_media_report.index), with or without a retrieval before it and    *)
(* while another process may be at one.  It reads the manifest once, and        *)
(* publishes the newest decrypted file of each job under media/cloud/.          *)
(***************************************************************************)
EXTENDS CloudEngine

CONSTANTS
  MaxReports,    \* bound: reports begun
  MaxCuts        \* bound: reports killed in the middle of a copy

ASSUME AttachAssumption == MaxReports \in Nat /\ MaxCuts \in Nat

VARIABLES
  published,     \* the files in media/cloud: name, and the bytes (a line; 0: part of a copy)
  shown,         \* the line each job's file in the report is about (0: none)
  report,        \* the report being written
  reports, cuts

attachVars == <<published, shown, report, reports, cuts>>

NoReport == [pc |-> "idle", latest |-> [j \in Jobs |-> 0], at |-> 1]

AttachInit ==
  /\ Init
  /\ published = {} /\ shown = [j \in Jobs |-> 0]
  /\ report = NoReport
  /\ reports = 0 /\ cuts = 0
-----------------------------------------------------------------------------
(* The lines attach() takes for a job: retrieved, and decrypted into a file. *)
Attachable(j) == {n \in DOMAIN manifest : IsOk(n, j) /\ manifest[n].stored # 0}

Newest_First(lines) == IF lines = {} THEN 0 ELSE CHOOSE n \in lines : \A m \in lines : n <= m
Newest(lines) == IF lines = {} THEN 0 ELSE CHOOSE n \in lines : \A m \in lines : m <= n

(* The name carries the number of the encrypted file. *)
Name_NoNumber(j, n) == <<j>>
Name(j, n) == <<j, manifest[n].seq>>
Exists(name) == \E f \in published : f.name = name

(* records() raises on a damaged line, and the report fails: nothing changes. *)
BeginReport ==
  /\ report.pc = "idle" /\ reports < MaxReports
  /\ Readable
  /\ reports' = reports + 1
  /\ report' = [pc |-> "publishing", at |-> 1, latest |-> [j \in Jobs |-> Newest(Attachable(j))]]
  /\ UNCHANGED <<vars, published, shown, cuts>>

(* The file the record names; it is not looked into. *)
Source(j, n) == {f \in dec : f.job = j /\ f.seq = manifest[n].stored}

Attached(j) == report.latest[j] # 0 /\ Source(j, report.latest[j]) # {}

Publish ==
  /\ report.pc = "publishing" /\ report.at \in Jobs
  /\ LET j == report.at  name == Name(j, report.latest[j])
     IN published' = IF Attached(j) /\ ~Exists(name)
                     THEN published \cup {[name |-> name, line |-> f.line] :
                                            f \in Source(j, report.latest[j])}
                     ELSE published
  /\ report' = [report EXCEPT !.at = @ + 1]
  /\ UNCHANGED <<vars, shown, reports, cuts>>

(* Each Memory has its retrieved files, and the pages are written. *)
EndReport ==
  /\ report.pc = "publishing" /\ report.at \notin Jobs
  /\ shown' = [j \in Jobs |-> IF Attached(j) THEN report.latest[j] ELSE 0]
  /\ report' = NoReport
  /\ UNCHANGED <<vars, published, reports, cuts>>

(* The process is killed, perhaps in a copy (where the volume has no hard links). *)
CutReport ==
  /\ report.pc = "publishing" /\ cuts < MaxCuts
  /\ cuts' = cuts + 1
  /\ \/ published' = published
     \/ /\ report.at \in Jobs /\ Attached(report.at)
        /\ ~Exists(Name(report.at, report.latest[report.at]))
        /\ published' = published \cup {[name |-> Name(report.at, report.latest[report.at]), line |-> 0]}
  /\ report' = NoReport
  /\ UNCHANGED <<vars, shown, reports>>

AttachStep == BeginReport \/ Publish \/ EndReport \/ CutReport

AttachNext == (Next /\ UNCHANGED attachVars) \/ AttachStep

AttachSpec == AttachInit /\ [][AttachNext]_<<vars, attachVars>>
-----------------------------------------------------------------------------
(* What a report says of a retrieved file, it says of the file it links to: the
   published file holds the bytes of the very line whose hashes, authority and times
   are shown, also after the job was retrieved again and after failed decryptions have
   set the two numbers apart (or it is a copy that was cut off, which no later report
   replaces). *)
ShownRight ==
  \A j \in Jobs : shown[j] # 0 =>
    \E f \in published : f.name = Name(j, shown[j]) /\ f.line \in {0, shown[j]}

(* A report never goes back: what it shows of a job is never older than what an
   earlier one showed (and so nothing shown disappears), and when it begins it misses
   nothing that was recorded. *)
ShowsLatest ==
  [][\A j \in Jobs :
       /\ shown'[j] >= shown[j]
       /\ BeginReport => \A n \in Attachable(j) : n <= report'.latest[j]]_<<vars, attachVars>>
=============================================================================
