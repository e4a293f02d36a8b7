----------------------------- MODULE PosterPool -----------------------------
(***************************************************************************)
(* One thumbnail pass: run_jobs hands videos to a few worker processes, one  *)
(* each at a time, kills a worker that does not answer in time and puts      *)
(* another in its place (scripts/data/poster_worker.py).                     *)
(*                                                                         *)
(* The parent's loop, the workers and the pipes between them run at their    *)
(* own speed.  The deadline of a file counts from its hand-over, so whenever *)
(* the parent looks at the clock it may have passed, whatever the worker has *)
(* come to.  A worker may also die on its own at any point.  What decides    *)
(* the verdict on a video is its nature: it decodes, it does not, or it      *)
(* hangs the decoder.                                                        *)
(***************************************************************************)
EXTENDS Integers, Sequences, FiniteSets

CONSTANTS
  Jobs,        \* the videos of the pass, numbered in their order
  Contents,    \* the distinct bytes among them
  Content,     \* each job's bytes
  Hashed,      \* the jobs whose bytes could be hashed (none without a cache)
  Slots,       \* the workers, numbered
  Tries,       \* failed hand-overs after which a job is given up (3)
  MaxDeaths,   \* bound: workers that die on their own
  MayFail      \* what else may fail: "spawn", "import", "decoder", "copy"

ASSUME PoolAssumption ==
  /\ IsFiniteSet(Jobs) /\ Jobs = 1 .. Cardinality(Jobs)
  /\ IsFiniteSet(Slots) /\ Slots = 1 .. Cardinality(Slots) /\ Slots # {}
  /\ Content \in [Jobs -> Contents]
  /\ Hashed \subseteq Jobs
  /\ Tries \in Nat \ {0} /\ MaxDeaths \in Nat
  /\ MayFail \subseteq {"spawn", "import", "decoder", "copy"}

VARIABLES
  \* the world
  nature,      \* what the decoder does with each content
  decoder,     \* OpenCV can be loaded
  frame,       \* per job: "none", "torn" (begun) or "whole", what its dst holds
  cache,       \* the contents with a frame in the thumbnail cache
  skip,        \* the run window's Skip, or the budget is used up
  \* run_jobs
  results,     \* "yes", "no", or "absent" from the dictionary
  pending,     \* the jobs to decode: neither reused nor followers
  todo,        \* queue_, the next one first
  tries,       \* failed hand-overs
  stopped, fatal,
  slot,        \* per slot: its process (0: none) and its job (0: none)
  pc, at,      \* where the loop is, and at which slot
  \* the workers, in the order they were started, and the queue of their lines
  child, lines,
  deaths,
  \* history, read by no action of the program
  said,        \* the answers the workers gave
  expired,     \* the jobs whose deadline the parent acted on
  uncopied     \* the followers whose copy failed

world == <<nature, decoder, skip>>
history == <<said, expired, uncopied>>
vars == <<world, frame, cache, results, pending, todo, tries, stopped, fatal, slot, pc, at,
          child, lines, deaths, history>>

NoSlot == [proc |-> 0, job |-> 0]

(* The first of the jobs with the same bytes, among those not reused. *)
Leader(rest, j) ==
  IF j \in Hashed
  THEN CHOOSE k \in rest \cap Hashed :
         /\ Content[k] = Content[j]
         /\ \A i \in rest \cap Hashed : Content[i] = Content[j] => k <= i
  ELSE j

(* Before the loop: frames copied from the cache, the same bytes put together. *)
Init ==
  /\ nature \in [Contents -> {"decodes", "fails", "hangs"}]
  /\ decoder \in BOOLEAN /\ ("decoder" \notin MayFail => decoder)
  /\ cache \in SUBSET {c \in Contents : nature[c] = "decodes"}
  /\ skip = FALSE
  /\ \E reused \in SUBSET {j \in Hashed : Content[j] \in cache} :
       /\ "copy" \notin MayFail => reused = {j \in Hashed : Content[j] \in cache}
       /\ frame = [j \in Jobs |-> IF j \in reused THEN "whole" ELSE "none"]
       /\ results = [j \in Jobs |-> IF j \in reused THEN "yes" ELSE "absent"]
       /\ pending = {j \in Jobs \ reused : Leader(Jobs \ reused, j) = j}
  /\ todo \in [1 .. Cardinality(pending) -> pending]
  /\ \A i, k \in DOMAIN todo : i < k => todo[i] < todo[k]
  /\ tries = [j \in Jobs |-> 0]
  /\ stopped = FALSE /\ fatal = FALSE
  /\ slot = [s \in Slots |-> NoSlot]
  /\ pc = "check" /\ at = 1
  /\ child = <<>> /\ lines = <<>>
  /\ deaths = 0
  /\ said = {} /\ expired = {} /\ uncopied = {}
-----------------------------------------------------------------------------
(* The parent: one turn of the loop is check, hand out, get. *)
Busy == {s \in Slots : slot[s].job # 0}

(* The next slot from i on to hand out to; only this thread changes what is asked. *)
Free(i) == {s \in Slots : s >= i /\ slot'[s].job = 0}
HandTo(i) ==
  IF ~stopped' /\ todo' # <<>> /\ Free(i) # {}
  THEN pc' = "hand" /\ at' = CHOOSE s \in Free(i) : \A t \in Free(i) : s <= t
  ELSE pc' = "get" /\ at' = 1

Check ==
  /\ pc = "check"
  /\ stopped' = (stopped \/ fatal \/ skip)
  /\ UNCHANGED <<world, frame, cache, results, pending, todo, tries, fatal, slot, child, lines,
                 deaths, history>>
  /\ HandTo(1)

Spawn ==
  /\ pc = "hand"
  /\ slot[at].proc = 0
  /\ child' = Append(child, [state |-> "starting", job |-> 0, slot |-> at])
  /\ slot' = [slot EXCEPT ![at].proc = Len(child) + 1]
  /\ UNCHANGED <<world, frame, cache, results, pending, todo, tries, stopped, fatal, pc, at, lines,
                 deaths, history>>

SpawnFails ==
  /\ "spawn" \in MayFail
  /\ pc = "hand"
  /\ slot[at].proc = 0
  /\ stopped' = TRUE /\ fatal' = TRUE
  /\ pc' = "get" /\ at' = 1
  /\ UNCHANGED <<world, frame, cache, results, pending, todo, tries, slot, child, lines, deaths,
                 history>>

Kill(procs) ==
  child' = [p \in DOMAIN child |->
              IF p \in procs THEN [child[p] EXCEPT !.state = "dead", !.job = 0] ELSE child[p]]

(* The job is written to the worker's pipe; its time runs from here. *)
HandOver ==
  /\ pc = "hand"
  /\ slot[at].proc # 0 /\ child[slot[at].proc].state # "dead"
  /\ child' = [child EXCEPT ![slot[at].proc].job = Head(todo)]
  /\ slot' = [slot EXCEPT ![at].job = Head(todo)]
  /\ todo' = Tail(todo)
  /\ UNCHANGED <<world, frame, cache, results, pending, tries, stopped, fatal, lines, deaths,
                 history>>
  /\ HandTo(at + 1)

(* The worker died on its own: the job is first in line again, but not for ever. *)
MayRetry(failed) == failed < Tries

Requeued_Lost(j, failed) == Tail(todo)
Requeued(j, failed) == IF MayRetry(failed) THEN todo ELSE Tail(todo)

HandOverFails ==
  /\ pc = "hand"
  /\ slot[at].proc # 0 /\ child[slot[at].proc].state = "dead"
  /\ slot' = [slot EXCEPT ![at] = NoSlot]
  /\ LET j == Head(todo)
     IN /\ tries' = [tries EXCEPT ![j] = @ + 1]
        /\ todo' = Requeued(j, tries[j] + 1)
  /\ UNCHANGED <<world, frame, cache, results, pending, stopped, fatal, child, lines, deaths,
                 history>>
  /\ HandTo(at + 1)

(* The loop ends when nothing is under way and nothing more is to be handed out. *)
LoopOver_AtOnce == stopped \/ (Busy = {} /\ todo = <<>>)
LoopOver == Busy = {} /\ (stopped \/ todo = <<>>)

(* All workers are then stopped, and the queue of their lines goes with them. *)
Leave ==
  /\ pc = "get"
  /\ LoopOver
  /\ child' = <<>> /\ lines' = <<>>
  /\ slot' = [s \in Slots |-> NoSlot]
  /\ pc' = "finish"
  /\ UNCHANGED <<world, frame, cache, results, pending, todo, tries, stopped, fatal, at, deaths,
                 history>>

(* A line is for a slot if it comes from the process the slot has now. *)
For_Slot(s, l) == child[l.proc].slot = s
For(s, l) == slot[s].proc = l.proc

Answers(ls) == {l \in ls : l.text \in {"OK", "NO"}}
Ends(ls) == Answers(ls) \cup {l \in ls : l.text = "FATAL"}

(* What the lines read (one or none) end for the busy slots: an answer is its
   file's verdict, FATAL leaves it without one, and otherwise the clock is looked
   at.  Of the files of the slots in late the time is up: the verdict is "no" and
   the worker is killed, also when its answer is the next line in the queue. *)
TimedOut_Waited(ls, late) == {}
TimedOut(ls, late) == {s \in late : \A l \in Ends(ls) : ~For(s, l)}

Match(ls, late) ==
  LET heard == {s \in Busy : \E l \in Ends(ls) : For(s, l)}
      answered == {s \in Busy : \E l \in Answers(ls) : For(s, l)}
      over == TimedOut(ls, late)
      yes == {slot[s].job : s \in {s \in answered : \E l \in ls : For(s, l) /\ l.text = "OK"}}
      no == {slot[s].job : s \in answered \cup over} \ yes
  IN /\ results' = [j \in Jobs |-> IF j \in yes THEN "yes" ELSE IF j \in no THEN "no" ELSE results[j]]
     /\ slot' = [s \in Slots |-> IF s \in over THEN NoSlot
                                 ELSE IF s \in heard THEN [slot[s] EXCEPT !.job = 0]
                                 ELSE slot[s]]
     /\ Kill({slot[s].proc : s \in over})
     /\ expired' = expired \cup {slot[s].job : s \in over}
     /\ fatal' = (fatal \/ \E s \in heard : s \notin answered)
     /\ stopped' = (stopped \/ fatal')
     /\ pc' = "check"

(* The wait is over: a line came, or else a deadline passed or no slot is busy. *)
Get ==
  /\ pc = "get"
  /\ ~LoopOver
  /\ \E late \in SUBSET Busy :
       \/ lines # <<>> /\ Match({Head(lines)}, late) /\ lines' = Tail(lines)
       \/ /\ lines = <<>> /\ (Busy = {} \/ late # {})
          /\ Match({}, late) /\ UNCHANGED lines
  /\ UNCHANGED <<world, frame, cache, pending, todo, tries, at, deaths, said, uncopied>>

(* After the loop: new frames go into the cache, and a follower gets its
   leader's verdict, with a copy of its frame. *)
Cacheable_Tried(j) == results[j] # "absent"
Cacheable(j) == results[j] = "yes"

Verdict(leader, copied) ==
  IF results[leader] = "absent" THEN "absent"
  ELSE IF results[leader] = "yes" /\ copied THEN "yes" ELSE "no"

Follows(j, k) == j # k /\ j \notin pending /\ k \in pending \cap Hashed
                 /\ results[j] = "absent" /\ j \in Hashed /\ Content[j] = Content[k]

Finish ==
  /\ pc = "finish"
  /\ LET new == {Content[j] : j \in {j \in pending \cap Hashed : Cacheable(j)}}
         followers == {j \in Jobs : \E k \in pending : Follows(j, k)}
         LeaderOf(j) == CHOOSE k \in pending : Follows(j, k)
     IN \E copied \in SUBSET followers, stored \in SUBSET new :
          /\ "copy" \notin MayFail => copied = followers /\ stored = new
          /\ cache' = cache \cup stored
          /\ results' = [j \in Jobs |-> IF j \in followers THEN Verdict(LeaderOf(j), j \in copied)
                                        ELSE results[j]]
          /\ frame' = [j \in Jobs |-> IF j \in copied /\ results[LeaderOf(j)] = "yes" THEN "whole"
                                      ELSE frame[j]]
          /\ uncopied' = followers \ copied
  /\ pc' = "done"
  /\ UNCHANGED <<world, pending, todo, tries, stopped, fatal, slot, at, child, lines, deaths,
                 said, expired>>

Parent ==
  \/ Check \/ Spawn \/ SpawnFails \/ HandOver \/ HandOverFails
  \/ Leave \/ Get \/ Finish
-----------------------------------------------------------------------------
(* The workers (main, the child half). *)
Say(p, text) == lines' = Append(lines, [proc |-> p, text |-> text])

unmoved == <<world, cache, results, pending, todo, tries, stopped, fatal, slot, pc, at>>

(* The interpreter is up and the decoder imported. *)
Ready(p) ==
  /\ child[p].state = "starting"
  /\ child' = [child EXCEPT ![p].state = "idle"]
  /\ UNCHANGED <<unmoved, frame, lines, deaths, history>>

ImportFails(p) ==
  /\ "import" \in MayFail
  /\ child[p].state = "starting"
  /\ child' = [child EXCEPT ![p] = [@ EXCEPT !.state = "dead", !.job = 0]]
  /\ Say(p, "FATAL")
  /\ UNCHANGED <<unmoved, frame, deaths, history>>

(* The file is announced before it is opened: generate_poster loads OpenCV
   itself, so that a worker without it still announces and answers. *)
Open(p) ==
  /\ child[p].state = "idle" /\ child[p].job # 0
  /\ child' = [child EXCEPT ![p].state = "opened"]
  /\ Say(p, "START")
  /\ UNCHANGED <<unmoved, frame, deaths, said, expired, uncopied>>

Decodes(j) == decoder /\ nature[Content[j]] = "decodes"
Hangs(j) == decoder /\ nature[Content[j]] = "hangs"

(* The frame is written in place: killed meanwhile, a worker leaves a part of it. *)
Cut(p) ==
  /\ child[p].state = "opened" /\ Decodes(child[p].job)
  /\ frame' = [frame EXCEPT ![child[p].job] = "torn"]
  /\ child' = [child EXCEPT ![p].state = "writing"]
  /\ UNCHANGED <<unmoved, lines, deaths, history>>

(* A video that hangs the decoder is never answered for. *)
Answer(p) ==
  LET j == child[p].job
      ok == Decodes(j)
  IN /\ child[p].state \in {"opened", "writing"}
     /\ ok => child[p].state = "writing"
     /\ ~Hangs(j)
     /\ frame' = IF ok THEN [frame EXCEPT ![j] = "whole"] ELSE frame
     /\ Say(p, IF ok THEN "OK" ELSE "NO")
     /\ said' = said \cup {<<j, IF ok THEN "yes" ELSE "no">>}
     /\ child' = [child EXCEPT ![p] = [@ EXCEPT !.state = "idle", !.job = 0]]
     /\ UNCHANGED <<unmoved, deaths, expired, uncopied>>

(* The worker dies on its own: killed by the system, crashed in the decoder. *)
Die(p) ==
  /\ child[p].state # "dead"
  /\ deaths < MaxDeaths
  /\ deaths' = deaths + 1
  /\ child' = [child EXCEPT ![p] = [@ EXCEPT !.state = "dead", !.job = 0]]
  /\ UNCHANGED <<unmoved, frame, lines, history>>

Child(p) == Ready(p) \/ ImportFails(p) \/ Open(p) \/ Cut(p) \/ Answer(p)

(* Skip thumbnails is pressed, or the budget is used up (once stopped, a pass
   does not ask again). *)
Skip ==
  /\ ~skip /\ ~stopped /\ pc \notin {"finish", "done"}
  /\ skip' = TRUE
  /\ UNCHANGED <<nature, decoder, frame, cache, results, pending, todo, tries, stopped, fatal, slot, pc, at,
                 child, lines, deaths, history>>

Done == pc = "done" /\ UNCHANGED vars

Next ==
  \/ Parent
  \/ \E p \in DOMAIN child : Child(p) \/ Die(p)
  \/ Skip \/ Done

Spec == Init /\ [][Next]_vars

(* The parent's thread runs and time passes; nothing is asked of the workers. *)
FairSpec == Spec /\ WF_vars(Parent)
-----------------------------------------------------------------------------
(* The types of the state; a job is handed over in vain at most Tries times. *)
TypeOK ==
  /\ nature \in [Contents -> {"decodes", "fails", "hangs"}]
  /\ decoder \in BOOLEAN
  /\ frame \in [Jobs -> {"none", "torn", "whole"}] /\ cache \subseteq Contents /\ pending \subseteq Jobs
  /\ skip \in BOOLEAN /\ stopped \in BOOLEAN /\ fatal \in BOOLEAN
  /\ results \in [Jobs -> {"yes", "no", "absent"}]
  /\ todo \in Seq(Jobs)
  /\ tries \in [Jobs -> 0 .. Tries]
  /\ slot \in [Slots -> [proc : 0 .. Len(child), job : Jobs \cup {0}]]
  /\ pc \in {"check", "hand", "get", "finish", "done"} /\ at \in Nat
  /\ child \in Seq([state : {"starting", "idle", "opened", "writing", "dead"}, job : Jobs \cup {0},
                    slot : Slots])
  /\ lines \in Seq([proc : DOMAIN child, text : {"START", "OK", "NO", "FATAL"}])

(* The verdict on a video is the one some worker gave on it (or on the same
   bytes): never that of another file, of a killed worker's late line or of a
   successor in its slot.  "no" may also mean that its time ran out, or that its
   copy of the frame could not be written. *)
SameBytes(j, k) == j = k \/ (j \in Hashed /\ k \in Hashed /\ Content[j] = Content[k])

VerdictsRight ==
  \A j \in Jobs :
    /\ results[j] = "yes" => frame[j] = "whole" /\ nature[Content[j]] = "decodes"
    /\ results[j] = "no" =>
         \/ j \in uncopied
         \/ \E k \in Jobs : SameBytes(j, k) /\ (<<k, "no">> \in said \/ k \in expired)

(* Nothing is lost: when a pass that was not stopped is over, every video has
   its verdict but those given up after Tries failed hand-overs. *)
Accounted ==
  pc = "done" /\ ~stopped =>
    \A j \in Jobs : \/ results[j] # "absent"
                    \/ \E k \in Jobs : SameBytes(j, k) /\ tries[k] = Tries

(* What a worker answered is recorded unless its time was up, also when the pass
   is stopped meanwhile. *)
AnswersKept ==
  pc = "done" => \A a \in said : results[a[1]] = a[2] \/ a[1] \in expired

(* The cache holds only frames of videos that decode: a hang is decided afresh
   by each run. *)
CacheSound == \A c \in cache : nature[c] = "decodes"

(* The pass ends, whatever hangs, dies or is skipped. *)
PassEnds == <>(pc = "done")
=============================================================================
