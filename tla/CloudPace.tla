----------------------------- MODULE CloudPace -----------------------------
(***************************************************************************)
(* How the cloud retrieval spaces its requests, and how the examiner's      *)
(* window steers it while it runs (scripts/cloud_download.py, Control and   *)
(* Engine._wait / _pace_wait; scripts/cloud_gui.py, progress_runner).       *)
(*                                                                         *)
(* Two threads share the Control: the window's thread pauses, resumes,      *)
(* stops and changes the pace; the engine's thread reads the pace, waits in *)
(* slices and sends one request after another.  Every read the engine makes *)
(* of the Control is a step of its own, so the window's actions fall        *)
(* between any two of them.  The jobs are not told apart here: CloudEngine  *)
(* models them.  A request's outcome decides only whether a back-off, the   *)
(* next address or the next job follows.                                    *)
(***************************************************************************)
EXTENDS Integers, Sequences, FiniteSets

CONSTANTS
  Paces,        \* the [delay, jitter, cap] records the window can apply (Pace)
  MaxCap,       \* the largest max_per_min among them
  MinDelay,     \* the smallest delay_s among them
  Minute,       \* the length of the cap's window (60 s), in clock ticks
  Backoffs,     \* what a back-off can last: the doubling wait, or Retry-After,
                \* whose date may already be past
  MaxSent,      \* bound: the attempts the job list can come to
  MaxVersion,   \* bound: pace changes in a run
  Horizon       \* bound: the clock stops here

ASSUME PaceAssumption ==
  /\ MaxCap \in Nat \ {0} /\ MinDelay \in Nat /\ Minute \in Nat \ {0}
  /\ Paces # {}
  /\ \A p \in Paces : /\ p.delay \in Nat /\ p.jitter \in Nat /\ p.cap \in Nat
                      /\ p.delay >= MinDelay /\ p.cap >= 1 /\ p.cap <= MaxCap
  /\ Backoffs \subseteq Int
  /\ MaxSent \in Nat /\ MaxVersion \in Nat /\ Horizon \in Nat

VARIABLES
  clock,        \* time.monotonic(), in ticks
  pace,         \* Control._pace: the three fields the window can change
  version,      \* Control.version: bumped by every accepted update
  paused,       \* Control._paused
  stopped,      \* Control._stopped
  window,       \* the progress window: "open", "joining" the engine thread, "closed"
  pc,           \* where the engine's thread is
  kind,         \* what _wait is waiting for: "pace" or "backoff"
  secs,         \* the seconds _wait was called with
  end,          \* _wait's end
  seen,         \* _wait's version
  sent,         \* Engine._sent: the clock at each request
  \* history, read by no action of the program
  late,         \* requests begun since stop
  owed          \* the last back-off: until when, and the version then

control == <<pace, version, paused, stopped>>
waiting == <<kind, secs, end, seen>>
vars == <<clock, control, window, pc, waiting, sent, late, owed>>

PaceFields == [delay : Nat, jitter : Nat, cap : Nat]
MaxOf(a, b) == IF a >= b THEN a ELSE b

(* The request the delay is measured from, and a faulty variant. *)
Last_First == sent[1]
Last == sent[Len(sent)]

(* The requests the cap counts at time t: `window` in _pace_wait. *)
InWindow(t) == {i \in DOMAIN sent : t - sent[i] < Minute}
Oldest(t) == CHOOSE i \in InWindow(t) : \A j \in InWindow(t) : i <= j

CapReached_Exceeded(p) == Cardinality(InWindow(clock)) > p.cap
CapReached(p) == Cardinality(InWindow(clock)) >= p.cap

Init ==
  /\ clock = 0
  /\ pace \in Paces
  /\ version = 0
  /\ paused = FALSE
  /\ stopped = FALSE
  /\ window = "open"
  /\ pc = "loop"
  /\ kind = "pace" /\ secs = 0 /\ end = 0 /\ seen = 0
  /\ sent = <<>>
  /\ late = 0
  /\ owed = [until |-> 0, version |-> 0]

-----------------------------------------------------------------------------
(* The clock: time passes at any point of either thread. *)
Tick ==
  /\ clock < Horizon
  /\ clock' = clock + 1
  /\ UNCHANGED <<control, window, pc, waiting, sent, late, owed>>

(* A sleep of one slice; at the horizon the clock stands still. *)
Slept == clock' = IF clock < Horizon THEN clock + 1 ELSE clock

(* A call of _wait, and its return: its arguments and locals are gone. *)
Call(what, seconds) == pc' = "enter" /\ kind' = what /\ secs' = seconds
Return(to) == pc' = to /\ kind' = "pace" /\ secs' = 0 /\ end' = 0 /\ seen' = 0

-----------------------------------------------------------------------------
(* The window's thread (progress_runner's event loop). *)

(* "apply": Control.update with the three fields; the window sends no others. *)
Update(p) ==
  /\ window = "open"
  /\ version < MaxVersion
  /\ pace' = p
  /\ version' = version + 1
  /\ UNCHANGED <<clock, paused, stopped, window, pc, waiting, sent, late, owed>>

(* "pause": the button toggles between Control.pause and Control.resume. *)
TogglePause ==
  /\ window = "open"
  /\ paused' = ~paused
  /\ UNCHANGED <<clock, pace, version, stopped, window, pc, waiting, sent, late, owed>>

(* "stop". *)
Stop ==
  /\ window = "open"
  /\ ~stopped
  /\ stopped' = TRUE
  /\ UNCHANGED <<clock, pace, version, paused, window, pc, waiting, sent, late, owed>>

(* Closing the window: control.stop() and thread.join(). *)
Close ==
  /\ window = "open"
  /\ window' = "joining"
  /\ stopped' = TRUE
  /\ UNCHANGED <<clock, pace, version, paused, pc, waiting, sent, late, owed>>

Joined ==
  /\ window = "joining"
  /\ pc = "done"
  /\ window' = "closed"
  /\ UNCHANGED <<clock, control, pc, waiting, sent, late, owed>>

Window == (\E p \in Paces : Update(p)) \/ TogglePause \/ Stop \/ Close \/ Joined
-----------------------------------------------------------------------------
(* The engine's thread. *)

(* The head of run()'s loop over the jobs: stop, the next job, or the end. *)
NextJob ==
  /\ pc = "loop"
  /\ pc' \in IF stopped \/ Len(sent) = MaxSent THEN {"done"} ELSE {"pace", "done"}
  /\ UNCHANGED <<clock, control, window, waiting, sent, late, owed>>

(* How long _pace_wait asks to wait; `gap` is the delay with its jitter. *)
PaceWait(p, gap) ==
  LET apart == IF sent = <<>> THEN 0 ELSE MaxOf(0, gap - (clock - Last))
  IN IF CapReached(p) THEN MaxOf(apart, Minute - (clock - sent[Oldest(clock)]))
                      ELSE apart

(* Nothing to wait for: `return not self.control.stopped`. *)
Proceed_Unchecked == "send"
Proceed == IF stopped THEN "done" ELSE "send"

ReadPace ==
  /\ pc = "pace"
  /\ \E gap \in pace.delay .. (pace.delay + pace.jitter) :
       IF PaceWait(pace, gap) > 0
       THEN Call("pace", PaceWait(pace, gap)) /\ UNCHANGED <<end, seen>>
       ELSE pc' = Proceed /\ UNCHANGED waiting
  /\ UNCHANGED <<clock, control, window, sent, late, owed>>

(* _wait is entered: only now does it note the end and the version. *)
WaitEnd_FromRequest == Last + secs
WaitEnd == clock + secs

EnterWait ==
  /\ pc = "enter"
  /\ end' = WaitEnd
  /\ seen' = version
  /\ pc' = "stopped?"
  /\ UNCHANGED <<clock, control, window, kind, secs, sent, late, owed>>

(* One pass of _wait's loop reads, in this order: stopped, paused, version, clock. *)
CheckStopped ==
  /\ pc = "stopped?"
  /\ IF stopped THEN Return("done") ELSE pc' = "paused?" /\ UNCHANGED waiting
  /\ UNCHANGED <<clock, control, window, sent, late, owed>>

AfterNap_StillPaused == "paused?"
AfterNap == "stopped?"

CheckPaused ==
  /\ pc = "paused?"
  /\ IF paused THEN /\ Slept
                    /\ end' = end + (clock' - clock)
                    /\ pc' = AfterNap
               ELSE /\ pc' = "version?"
                    /\ UNCHANGED <<clock, end>>
  /\ UNCHANGED <<control, window, kind, secs, seen, sent, late, owed>>

(* A changed version ends the wait: _pace_wait recomputes, and so does the
   attempt loop of _run_job, which goes on with the next attempt. *)
CheckVersion ==
  /\ pc = "version?"
  /\ IF version # seen THEN Return("pace") ELSE pc' = "left?" /\ UNCHANGED waiting
  /\ UNCHANGED <<clock, control, window, sent, late, owed>>

CheckLeft ==
  /\ pc = "left?"
  /\ IF end <= clock THEN /\ Return(IF kind = "pace" THEN "send" ELSE "pace")
                          /\ UNCHANGED clock
                     ELSE /\ pc' = "stopped?"
                          /\ Slept
                          /\ UNCHANGED waiting
  /\ UNCHANGED <<control, window, sent, late, owed>>

(* _pace_wait returned True: the request is noted and goes out. *)
Send ==
  /\ pc = "send"
  /\ sent' = Append(sent, clock)
  /\ late' = late + (IF stopped THEN 1 ELSE 0)
  /\ owed' = [until |-> 0, version |-> 0]
  /\ pc' = "fetch"
  /\ UNCHANGED <<clock, control, window, waiting>>

(* The request ends: with the file, the last attempt or a refusal (the next
   job, or the next recorded address), or with a failure to try again. *)
FetchEnds ==
  /\ pc = "fetch"
  /\ pc' \in IF Len(sent) < MaxSent THEN {"loop", "pace"} ELSE {"loop"}
  /\ UNCHANGED <<clock, control, window, waiting, sent, late, owed>>

BackoffWait_Unclamped(b) == b
BackoffWait(b) == MaxOf(0, b)

FetchFails(b) ==
  /\ pc = "fetch"
  /\ Len(sent) < MaxSent
  /\ Call("backoff", BackoffWait(b))
  /\ owed' = [until |-> clock + BackoffWait(b), version |-> version]
  /\ UNCHANGED <<clock, control, window, end, seen, sent, late>>

Engine ==
  \/ NextJob \/ ReadPace \/ EnterWait
  \/ CheckStopped \/ CheckPaused \/ CheckVersion \/ CheckLeft
  \/ Send \/ FetchEnds \/ \E b \in Backoffs : FetchFails(b)

(* The run is over and its window is closed. *)
Finished ==
  /\ pc = "done" /\ window = "closed"
  /\ UNCHANGED vars

Next == Tick \/ Window \/ Engine \/ Finished

Spec == Init /\ [][Next]_vars

(* The engine's thread is scheduled, and a request ends: the fetcher sets a
   socket timeout and a size limit.  The window joins a finished thread.
   Nothing makes the examiner act. *)
FairSpec == Spec /\ WF_vars(Engine) /\ WF_vars(Joined)
-----------------------------------------------------------------------------
(* The types of the state; the wait asked for is never negative. *)
TypeOK ==
  /\ clock \in 0 .. Horizon
  /\ pace \in Paces
  /\ version \in Nat
  /\ paused \in BOOLEAN /\ stopped \in BOOLEAN
  /\ window \in {"open", "joining", "closed"}
  /\ pc \in {"loop", "pace", "enter", "stopped?", "paused?", "version?", "left?",
             "send", "fetch", "done"}
  /\ kind \in {"pace", "backoff"} /\ secs \in Nat /\ end \in Nat /\ seen \in Nat
  /\ sent \in Seq(Nat)
  /\ late \in Nat
  /\ owed \in [until : Nat, version : Nat]

(* max_per_min: whatever the window changes and when, any Minute of the run
   holds at most as many requests as the largest cap ever in force.  With one
   cap that is the cap itself ("at most this many requests in any 60 seconds").
   _pace_wait waits for the oldest request only and does not count again after
   the wait, so it takes every earlier wait for this to hold. *)
MinuteCap ==
  \A i \in DOMAIN sent : i + MaxCap \in DOMAIN sent => sent[i + MaxCap] - sent[i] >= Minute

(* delay_s: two requests are never closer than the smallest delay in force,
   pauses, back-offs, pace changes and failed attempts between them or not. *)
Spacing ==
  \A i \in DOMAIN sent : i + 1 \in DOMAIN sent => sent[i + 1] - sent[i] >= MinDelay

(* Stop: at most one request begins after it, the one _pace_wait had already
   let through. *)
StopActs == late <= 1

(* After a transient failure the next request waits out Retry-After or the
   back-off, counted from the answer, unless the pace was changed meanwhile. *)
BackoffHonoured ==
  pc = "send" => clock >= owed.until \/ version # owed.version

(* Closing the window ends: the join always returns, also of a paused engine. *)
CloseReturns == window = "joining" ~> window = "closed"
=============================================================================
