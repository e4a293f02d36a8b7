---------------------------- MODULE CloudEngine ----------------------------
(***************************************************************************)
(* One run folder's retrievals: Engine.run and _run_job over the Store       *)
(* (scripts/cloud_download.py), by several processes one after another or    *)
(* at once, each of which may be stopped, fail on an exception or be killed. *)
(*                                                                         *)
(* On disk are the lock file, the manifest and the files.  A manifest line   *)
(* is told from every other by its number, which stands for its SHA-256; a   *)
(* file is told by the line that was to record it, which stands for its      *)
(* bytes.  Time is left to CloudPace: here _pace_wait lets a request through *)
(* or reports the stop, and after a stop lets at most one more through       *)
(* (CloudPace!StopActs).                                                     *)
(***************************************************************************)
EXTENDS Integers, Sequences, FiniteSets

CONSTANTS
  Proc,          \* the processes that can write to the run folder
  Urls,          \* the number of recorded addresses of each job, in job order
  Retries,       \* Pace.retries: attempts per address
  MaxFailures,   \* Pace.max_failures
  MaxRefusals,   \* Pace.max_refusals
  MayTear,       \* whether a failed or killed append can leave part of a line
  MaxSessions,   \* bound: retrievals started
  MaxCrashes,    \* bound: retrievals killed
  MaxErrors      \* bound: retrievals ended by an exception

ASSUME EngineAssumption ==
  /\ Urls \in Seq(Nat \ {0})
  /\ Retries \in Nat \ {0} /\ MaxFailures \in Nat \ {0} /\ MaxRefusals \in Nat \ {0}
  /\ MayTear \in BOOLEAN
  /\ MaxSessions \in Nat /\ MaxCrashes \in Nat /\ MaxErrors \in Nat

Jobs == 1 .. Len(Urls)
Seqs == 1 .. MaxSessions    \* a retrieval adds at most one file per job and folder

VARIABLES
  \* on disk, in <run>/CloudDownloads
  lockfile,      \* .lock exists
  manifest,      \* the lines of cloud_manifest.jsonl
  torn,          \* its last line is incomplete: no newline follows it
  enc,           \* every file ever put into encrypted/
  dec,           \* every file ever put into decrypted/ (line 0: half written)
  parts,         \* the .part files a killed process left behind
  \* in memory, one per process: Engine.run's and _run_job's locals,
  \* Store._prev and the Control's stop
  eng,
  \* bounds
  sessions, crashes, errors

disk == <<lockfile, manifest, torn, enc, dec, parts>>
bounds == <<sessions, crashes, errors>>
vars == <<disk, eng, bounds>>

None == -1
Lost == -2                  \* the hash of a line the manifest does not hold as written
Junk == [kind |-> "junk"]

Idle ==
  [pc |-> "idle", session |-> 0, redo |-> FALSE, stopped |-> FALSE, late |-> FALSE, prev |-> None,
   job |-> 1, addr |-> 1, attempt |-> 1, seq |-> 0, stored |-> 0,
   done |-> 0, failed |-> 0, skipped |-> 0, transient |-> 0, refused |-> 0, stop |-> "completed"]

Init ==
  /\ lockfile = FALSE
  /\ manifest = <<>>
  /\ torn = FALSE
  /\ enc = {} /\ dec = {} /\ parts = {}
  /\ eng = [p \in Proc |-> Idle]
  /\ sessions = 0 /\ crashes = 0 /\ errors = 0
-----------------------------------------------------------------------------
(* The Store. *)

(* record(): one line is appended, carrying the hash of the line before it:
   the cached one, or the last line's when this Store has written none yet.
   After an incomplete line the new one runs into it. *)
Prev_Stale(p) == IF eng[p].prev = None THEN 0 ELSE eng[p].prev
Prev(p) == IF eng[p].prev = None THEN Len(manifest) ELSE eng[p].prev

Line(p, kind) == [kind |-> kind, session |-> eng[p].session, prev |-> Prev(p)]
Stored_SameNumber(p) == eng[p].seq
Stored(p) == eng[p].stored
Request(p, result) ==
  [kind |-> "request", session |-> eng[p].session, prev |-> Prev(p),
   job |-> eng[p].job, addr |-> eng[p].addr, attempt |-> eng[p].attempt, result |-> result,
   seq |-> eng[p].seq, stored |-> IF result = "ok" THEN Stored(p) ELSE 0,
   redo |-> eng[p].redo]
End(p) ==
  [kind |-> "end", session |-> eng[p].session, prev |-> Prev(p), done |-> eng[p].done,
   failed |-> eng[p].failed, skipped |-> eng[p].skipped, stop |-> eng[p].stop]

Append1(line) ==
  /\ manifest' = Append(manifest, IF torn THEN Junk ELSE line)
  /\ torn' = FALSE

(* records() raises on a line that is not JSON. *)
Readable == ~torn /\ \A n \in DOMAIN manifest : manifest[n] # Junk

IsRequest(n) == manifest[n].kind = "request"
IsOk(n, j) == IsRequest(n) /\ manifest[n].job = j /\ manifest[n].result = "ok"

(* latest(): the job was retrieved, in this or an earlier run. *)
Latest_Decrypted(j) == \E n \in DOMAIN manifest : IsOk(n, j) /\ manifest[n].stored # 0
Latest(j) == \E n \in DOMAIN manifest : IsOk(n, j)

(* next_path(): the first number no file of the job in the folder has. *)
Taken(files, j, s) == \E f \in files : f.job = j /\ f.seq = s
FirstFree_Recorded(files, j, s) == s = 1 + Cardinality({n \in DOMAIN manifest : IsOk(n, j)})
FirstFree(files, j, s) ==
  ~Taken(files, j, s) /\ \A t \in Seqs : t < s => Taken(files, j, t)
-----------------------------------------------------------------------------
(* Engine.run. *)

(* store.lock(): the file is created or the retrieval is refused (and nothing
   changes).  `redo` is the examiner's redownload choice. *)
LockFree_Ignored == TRUE
LockFree == ~lockfile

Start(p, redo) ==
  /\ eng[p].pc = "idle"
  /\ sessions < MaxSessions
  /\ LockFree
  /\ lockfile' = TRUE
  /\ sessions' = sessions + 1
  /\ eng' = [eng EXCEPT ![p] =
               [Idle EXCEPT !.pc = "session", !.session = sessions + 1, !.redo = redo]]
  /\ UNCHANGED <<manifest, torn, enc, dec, parts, crashes, errors>>

(* lock() itself fails once the file exists (a full disk, writing the process
   number or the read-me): that is before run()'s try, so the file stays. *)
LockFails ==
  /\ sessions < MaxSessions /\ errors < MaxErrors
  /\ LockFree
  /\ lockfile' = TRUE
  /\ sessions' = sessions + 1
  /\ errors' = errors + 1
  /\ UNCHANGED <<manifest, torn, enc, dec, parts, eng, crashes>>

(* A line is written and its hash, as it was meant, kept for the next one. *)
Recorded(p, next) ==
  eng' = [eng EXCEPT ![p] = [next EXCEPT !.prev = IF torn THEN Lost ELSE Len(manifest) + 1]]

RecordSession(p) ==
  /\ eng[p].pc = "session"
  /\ Append1(Line(p, "session"))
  /\ Recorded(p, [eng[p] EXCEPT !.pc = "loop"])
  /\ UNCHANGED <<lockfile, enc, dec, parts, bounds>>

(* The head of the loop over the jobs. *)
Loop(p) ==
  LET e == eng[p]
  IN /\ e.pc = "loop"
     /\ eng' = [eng EXCEPT ![p] =
          CASE e.job \notin Jobs -> [e EXCEPT !.pc = "end"]
            [] e.job \in Jobs /\ e.stopped -> [e EXCEPT !.pc = "end", !.stop = "examiner"]
            [] e.job \in Jobs /\ ~e.stopped /\ ~e.redo /\ ~Readable -> [e EXCEPT !.pc = "unlock"]
            [] e.job \in Jobs /\ ~e.stopped /\ ~e.redo /\ Readable /\ Latest(e.job) ->
                 [e EXCEPT !.job = @ + 1, !.skipped = @ + 1]
            [] OTHER -> [e EXCEPT !.pc = "pace", !.addr = 1, !.attempt = 1]]
     /\ UNCHANGED <<disk, bounds>>

(* _run_job's outcome, counted; both limits are read after every job. *)
Counted_RefusedApart(e, outcome) ==
  CASE outcome = "done"    -> [e EXCEPT !.done = @ + 1, !.transient = 0, !.refused = 0]
    [] outcome = "refused" -> [e EXCEPT !.refused = @ + 1]
    [] outcome = "failed"  -> [e EXCEPT !.failed = @ + 1, !.transient = @ + 1]
Counted(e, outcome) ==
  CASE outcome = "done"    -> [e EXCEPT !.done = @ + 1, !.transient = 0, !.refused = 0]
    [] outcome = "refused" -> [e EXCEPT !.failed = @ + 1, !.refused = @ + 1]
    [] outcome = "failed"  -> [e EXCEPT !.failed = @ + 1, !.transient = @ + 1]

TooMany_Exceeded(n, limit) == n > limit
TooMany(n, limit) == n >= limit

JobOver(e, outcome) ==
  LET c == Counted(e, outcome)
  IN CASE TooMany(c.transient, MaxFailures) -> [c EXCEPT !.pc = "end", !.stop = "failures"]
       [] ~TooMany(c.transient, MaxFailures) /\ TooMany(c.refused, MaxRefusals) ->
            [c EXCEPT !.pc = "end", !.stop = "refused"]
       [] OTHER -> [c EXCEPT !.pc = "loop", !.job = @ + 1]

(* _pace_wait, or a back-off, saw the stop. *)
StopSeen(p) ==
  /\ eng[p].pc \in {"pace", "backoff"}
  /\ eng[p].stopped
  /\ eng' = [eng EXCEPT ![p].pc = "end", ![p].stop = "examiner"]
  /\ UNCHANGED <<disk, bounds>>

(* _pace_wait let the request through: next_path, and the request is out. *)
Send(p, s) ==
  /\ eng[p].pc = "pace"
  /\ ~eng[p].late
  /\ FirstFree(enc \cup parts, eng[p].job, s)
  /\ eng' = [eng EXCEPT ![p].pc = "fetch", ![p].seq = s, ![p].late = eng[p].stopped]
  /\ UNCHANGED <<disk, bounds>>

(* The bytes are in: the .part file becomes the numbered one. *)
Fetched(p) ==
  /\ eng[p].pc = "fetch"
  /\ enc' = enc \cup {[job |-> eng[p].job, seq |-> eng[p].seq, line |-> Len(manifest) + 1]}
  /\ eng' = [eng EXCEPT ![p].pc = "fetched"]
  /\ UNCHANGED <<lockfile, manifest, torn, dec, parts, bounds>>

(* A FetchError is recorded; a permanent one, or the last attempt, ends the
   address, and the last address ends the job. *)
LastAttempt(e) == e.attempt >= Retries

AfterError_RetryRefused(e, permanent) ==
  IF ~LastAttempt(e) THEN [e EXCEPT !.pc = "backoff"] ELSE JobOver(e, "failed")

AfterError(e, permanent) ==
  LET outcome == IF permanent THEN "refused" ELSE "failed"
  IN CASE ~permanent /\ ~LastAttempt(e) -> [e EXCEPT !.pc = "backoff"]
       [] (permanent \/ LastAttempt(e)) /\ e.addr < Urls[e.job] ->
            [e EXCEPT !.pc = "pace", !.addr = @ + 1, !.attempt = 1]
       [] OTHER -> JobOver(e, outcome)

FetchFailed(p, permanent) ==
  /\ eng[p].pc = "fetch"
  /\ Append1(Request(p, IF permanent THEN "refused" ELSE "failed"))
  /\ Recorded(p, AfterError(eng[p], permanent))
  /\ UNCHANGED <<lockfile, enc, dec, parts, bounds>>

(* The back-off is over, in full or cut short by a pace change. *)
BackedOff(p) ==
  /\ eng[p].pc = "backoff"
  /\ eng' = [eng EXCEPT ![p].pc = "pace", ![p].attempt = @ + 1]
  /\ UNCHANGED <<disk, bounds>>

(* The bytes are decrypted; when that gives media, it is stored under the next
   number of decrypted/, which is not that of encrypted/. *)
Decrypted(p, s) ==
  /\ eng[p].pc = "fetched"
  /\ FirstFree(dec, eng[p].job, s)
  /\ dec' = dec \cup {[job |-> eng[p].job, seq |-> s, line |-> Len(manifest) + 1]}
  /\ eng' = [eng EXCEPT ![p].pc = "decrypted", ![p].stored = s]
  /\ UNCHANGED <<lockfile, manifest, torn, enc, parts, bounds>>

NotDecrypted(p) ==
  /\ eng[p].pc = "fetched"
  /\ eng' = [eng EXCEPT ![p].pc = "decrypted", ![p].stored = 0]
  /\ UNCHANGED <<disk, bounds>>

RecordFile(p) ==
  /\ eng[p].pc = "decrypted"
  /\ Append1(Request(p, "ok"))
  /\ Recorded(p, JobOver(eng[p], "done"))
  /\ UNCHANGED <<lockfile, enc, dec, parts, bounds>>

RecordEnd(p) ==
  /\ eng[p].pc = "end"
  /\ Append1(End(p))
  /\ Recorded(p, [eng[p] EXCEPT !.pc = "unlock"])
  /\ UNCHANGED <<lockfile, enc, dec, parts, bounds>>

(* The finally clause: unlock(), and run() returns or raises. *)
Unlock(p) ==
  /\ eng[p].pc = "unlock"
  /\ lockfile' = FALSE
  /\ eng' = [eng EXCEPT ![p] = Idle]
  /\ UNCHANGED <<manifest, torn, enc, dec, parts, bounds>>

Step(p) ==
  \/ RecordSession(p) \/ Loop(p) \/ StopSeen(p) \/ Fetched(p) \/ BackedOff(p)
  \/ NotDecrypted(p) \/ RecordFile(p) \/ RecordEnd(p) \/ Unlock(p)
  \/ \E s \in Seqs : Send(p, s) \/ Decrypted(p, s)
  \/ \E permanent \in BOOLEAN : FetchFailed(p, permanent)
-----------------------------------------------------------------------------
(* What happens to a retrieval from outside. *)

(* The examiner's stop. *)
Stop(p) ==
  /\ eng[p].pc # "idle" /\ ~eng[p].stopped
  /\ eng' = [eng EXCEPT ![p].stopped = TRUE]
  /\ UNCHANGED <<disk, bounds>>

Appending == {"session", "fetch", "decrypted", "end"}

(* What an interrupted step can leave on disk: part of a line, part of a
   decrypted file; and, when the process is killed, a .part file. *)
Interrupted(p) ==
  /\ torn' \in IF MayTear /\ eng[p].pc \in Appending THEN {torn, TRUE} ELSE {torn}
  /\ \/ dec' = dec
     \/ /\ eng[p].pc = "fetched"
        /\ \E s \in Seqs : /\ FirstFree(dec, eng[p].job, s)
                          /\ dec' = dec \cup {[job |-> eng[p].job, seq |-> s, line |-> 0]}

(* An exception (a full disk, an error while decrypting): the finally clause
   is next, and no end line. *)
AfterRaise_NoFinally == "idle"
AfterRaise == "unlock"
Raise(p) ==
  /\ eng[p].pc \notin {"idle", "unlock"}
  /\ errors < MaxErrors
  /\ errors' = errors + 1
  /\ Interrupted(p)
  /\ eng' = [eng EXCEPT ![p].pc = AfterRaise]
  /\ UNCHANGED <<lockfile, manifest, enc, parts, sessions, crashes>>

(* The process is killed, or ends itself when the run window is closed: the
   lock file stays. *)
Crash(p) ==
  /\ eng[p].pc # "idle"
  /\ crashes < MaxCrashes
  /\ crashes' = crashes + 1
  /\ Interrupted(p)
  /\ parts' \in IF eng[p].pc = "fetch"
                THEN {parts, parts \cup {[job |-> eng[p].job, seq |-> eng[p].seq, line |-> 0]}}
                ELSE {parts}
  /\ eng' = [eng EXCEPT ![p] = Idle]
  /\ UNCHANGED <<lockfile, manifest, enc, sessions, errors>>

(* "remove the file if none is": the examiner does so when no retrieval runs. *)
RemoveStaleLock ==
  /\ lockfile
  /\ \A p \in Proc : eng[p].pc = "idle"
  /\ lockfile' = FALSE
  /\ UNCHANGED <<manifest, torn, enc, dec, parts, eng, bounds>>

Environment ==
  \/ RemoveStaleLock
  \/ LockFails
  \/ \E p \in Proc : Stop(p) \/ Raise(p) \/ Crash(p) \/ \E redo \in BOOLEAN : Start(p, redo)

(* Every retrieval there was room for has ended. *)
Finished ==
  /\ sessions = MaxSessions /\ ~lockfile /\ \A p \in Proc : eng[p].pc = "idle"
  /\ UNCHANGED vars

Next == (\E p \in Proc : Step(p)) \/ Environment \/ Finished

Spec == Init /\ [][Next]_vars

(* A retrieval's thread is scheduled and its requests end; nothing makes the
   examiner start, stop or clean up after one. *)
FairSpec == Spec /\ \A p \in Proc : WF_vars(Step(p))
-----------------------------------------------------------------------------
Lines ==
  [kind : {"session"}, session : Nat, prev : Nat \cup {Lost}]
  \cup [kind : {"request"}, session : Nat, prev : Nat \cup {Lost}, job : Nat, addr : Nat,
        attempt : Nat, result : {"ok", "refused", "failed"}, seq : Nat, stored : Nat,
        redo : BOOLEAN]
  \cup [kind : {"end"}, session : Nat, prev : Nat \cup {Lost}, done : Nat, failed : Nat,
        skipped : Nat, stop : {"completed", "examiner", "failures", "refused"}]
  \cup {Junk}

Files == [job : Nat, seq : Nat, line : Nat]

Locals ==
  [pc : {"idle", "session", "loop", "pace", "fetch", "fetched", "decrypted", "backoff", "end",
         "unlock"},
   session : Nat, redo : BOOLEAN, stopped : BOOLEAN, late : BOOLEAN, prev : Nat \cup {None, Lost},
   job : 1 .. Len(Urls) + 1, addr : Nat, attempt : 1 .. Retries,
   seq : Nat, stored : Nat,
   done : Nat, failed : Nat, skipped : Nat,
   transient : Nat, refused : Nat,
   stop : {"completed", "examiner", "failures", "refused"}]

(* The types of the state; an attempt never exceeds Retries. *)
TypeOK ==
  /\ lockfile \in BOOLEAN /\ torn \in BOOLEAN
  /\ manifest \in Seq(Lines)
  /\ enc \subseteq Files /\ dec \subseteq Files /\ parts \subseteq Files
  /\ eng \in [Proc -> Locals]
  /\ sessions \in Nat /\ crashes \in Nat /\ errors \in Nat

(* "the lock: one process writes at a time". *)
OneWriter == \A p, q \in Proc : eng[p].pc # "idle" /\ eng[q].pc # "idle" => p = q

(* The chain: every record carries the hash of the line before it, across
   sessions, exceptions and kills, so verify() finds nothing to report (up to
   the first line an interrupted append spoilt). *)
Whole(n) == \A m \in 1 .. n : manifest[m] # Junk
ChainHolds == \A n \in DOMAIN manifest : Whole(n) => manifest[n].prev = n - 1

(* "Nothing there is ever overwritten": no number is ever written twice, in
   either folder, whatever an interrupted retrieval left behind. *)
NeverOverwritten ==
  \A files \in {enc, dec} : \A f, g \in files : f.job = g.job /\ f.seq = g.seq => f = g

(* A record names the files that hold the bytes it describes. *)
RecordedFilesKept ==
  \A n \in DOMAIN manifest : \A j \in Jobs : IsOk(n, j) =>
    /\ [job |-> j, seq |-> manifest[n].seq, line |-> n] \in enc
    /\ manifest[n].stored # 0 => [job |-> j, seq |-> manifest[n].stored, line |-> n] \in dec

(* "A file already retrieved is not requested again unless the examiner asks":
   of two successful requests for a job, the later one was a redownload. *)
RetrievedOnce ==
  \A m, n \in DOMAIN manifest : \A j \in Jobs :
    m < n /\ IsOk(m, j) /\ IsOk(n, j) => manifest[n].redo

(* The attempts at a job within a session: addresses in their order, each tried
   at most Retries times, numbered upwards, and none after the file came. *)
AttemptsInOrder ==
  \A m, n \in DOMAIN manifest :
    /\ m < n /\ IsRequest(m) /\ IsRequest(n)
    /\ manifest[m].session = manifest[n].session /\ manifest[m].job = manifest[n].job
    => /\ manifest[m].result # "ok"
       /\ manifest[n].attempt <= Retries
       /\ \/ manifest[m].addr < manifest[n].addr
          \/ /\ manifest[m].addr = manifest[n].addr
             /\ manifest[m].attempt < manifest[n].attempt
             /\ manifest[m].result = "failed"

(* The jobs a session's request lines are about, and those that succeeded. *)
AskedIn(x) ==
  {manifest[m].job : m \in {m \in DOMAIN manifest : IsRequest(m) /\ manifest[m].session = x}}
DoneIn(x) ==
  {j \in Jobs : \E m \in DOMAIN manifest : IsOk(m, j) /\ manifest[m].session = x}

(* The totals of an end line are those of the request lines before it: done is
   what succeeded, failed what was asked for in vain (a job cut off by the stop
   is neither), and a completed retrieval accounts for every job. *)
EndAccounts ==
  \A n \in DOMAIN manifest : manifest[n].kind = "end" =>
    LET end == manifest[n]
        vain == Cardinality(AskedIn(end.session)) - end.done
    IN /\ end.done = Cardinality(DoneIn(end.session))
       /\ vain \in IF end.stop = "examiner" THEN {end.failed, end.failed + 1} ELSE {end.failed}
       /\ end.stop = "completed" => end.done + end.failed + end.skipped = Len(Urls)

(* The job's last line in its session: its outcome. *)
Outcome(m, result) ==
  /\ IsRequest(m) /\ manifest[m].result = result
  /\ \A k \in DOMAIN manifest :
       IsRequest(k) /\ manifest[k].session = manifest[m].session
         /\ manifest[k].job = manifest[m].job => k <= m

(* "The run stops after 5 transient failures in a row, or 25 refused addresses",
   at neither one more nor one less: since the last file that came, no more jobs
   were given up than the limit, a retrieval that says it stopped for them had
   reached it, and one that went on to its last job had not. *)
GivesUp ==
  \A n \in DOMAIN manifest : manifest[n].kind = "end" =>
    LET x == manifest[n].session
        Streak(result) ==
          {m \in DOMAIN manifest :
             /\ Outcome(m, result) /\ manifest[m].session = x
             /\ \A k \in m .. n : \A j \in Jobs : manifest[k].session = x => ~IsOk(k, j)}
        Count(result) == Cardinality(Streak(result))
    IN /\ Count("failed") <= MaxFailures /\ Count("refused") <= MaxRefusals
       /\ manifest[n].stop = "failures" => Count("failed") = MaxFailures
       /\ manifest[n].stop = "refused" => Count("refused") = MaxRefusals
       /\ manifest[n].stop = "completed" =>
            Count("failed") < MaxFailures /\ Count("refused") < MaxRefusals

(* A retrieval under way ends and gives the lock back, also after an exception
   (a killed process leaves the file, and so does lock() when it fails itself:
   only the examiner removes it then). *)
LockReleased == \A p \in Proc : (eng[p].pc # "idle") ~> ~lockfile
-----------------------------------------------------------------------------
(* The run folder as Retrievals sees it. *)

(* A job's copies: the lines that say it came, and the numbers they name. *)
CopiesOf(j) ==
  {[came |-> n, number |-> manifest[n].seq] : n \in {n \in DOMAIN manifest : IsOk(n, j)}}

Writer ==
  CASE \A p \in Proc : eng[p].pc = "idle" -> "none"
    [] \E p \in Proc : eng[p].pc # "idle" /\ eng[p].redo -> "again"
    [] OTHER -> "missing"

Promise == INSTANCE Retrievals WITH
  Job <- Jobs, Number <- Seqs, copies <- [j \in Jobs |-> CopiesOf(j)], writer <- Writer

(* Every step of the engine, a crash and an exception included, is a step of the
   abstract specification or leaves it as it is: nothing retrieved is ever lost from
   the manifest or numbered twice, and only a redownload adds to what is there. *)
KeepsPromise == Promise!Spec
=============================================================================
