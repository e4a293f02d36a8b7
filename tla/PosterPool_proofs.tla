------------------------- MODULE PosterPool_proofs -------------------------
(***************************************************************************)
(* Theorems about PosterPool, for any number of videos, workers and tries: a  *)
(* verdict is that video's own, an answer given is recorded, and nothing is    *)
(* lost.                                                                       *)
(***************************************************************************)
EXTENDS PosterPool, SequenceTheorems, FiniteSetTheorems, WellFoundedInduction, TLAPS

(* Sequences and the numbers of the jobs. *)
LEMMA SeqFun ==
  ASSUME NEW S, NEW n \in Nat, NEW f \in [1 .. n -> S]
  PROVE  f \in Seq(S) /\ Len(f) = n /\ DOMAIN f = 1 .. n
  OBVIOUS

LEMMA Appended ==
  ASSUME NEW S, NEW q \in Seq(S), NEW x \in S
  PROVE  /\ Append(q, x) \in Seq(S) /\ Len(Append(q, x)) = Len(q) + 1
         /\ Len(q) \in Nat /\ DOMAIN q = 1 .. Len(q) /\ DOMAIN Append(q, x) = 1 .. Len(q) + 1
         /\ \A i \in DOMAIN q : Append(q, x)[i] = q[i]
         /\ Append(q, x)[Len(q) + 1] = x
  <1>1. Len(q) \in Nat /\ DOMAIN q = 1 .. Len(q)
    BY LenProperties
  <1>2. Append(q, x) \in Seq(S) /\ Len(Append(q, x)) = Len(q) + 1
    OBVIOUS
  <1>3. DOMAIN Append(q, x) = 1 .. Len(q) + 1
    BY <1>2, LenProperties
  <1>4. \A i \in 1 .. Len(q) : Append(q, x)[i] = q[i]
    BY <1>1
  <1>5. Append(q, x)[Len(q) + 1] = x
    BY <1>1
  <1> QED
    BY <1>1, <1>2, <1>3, <1>4, <1>5

LEMMA Popped ==
  ASSUME NEW S, NEW q \in Seq(S), q # <<>>
  PROVE  /\ Head(q) = q[1] /\ 1 \in DOMAIN q /\ Tail(q) \in Seq(S)
         /\ \A i \in DOMAIN Tail(q) : i \in Nat /\ i + 1 \in DOMAIN q /\ Tail(q)[i] = q[i + 1]
         /\ \A i \in DOMAIN q : i = 1 \/ \E k \in DOMAIN Tail(q) : Tail(q)[k] = q[i]
  <1>1. Len(q) \in Nat \ {0} /\ DOMAIN q = 1 .. Len(q)
    BY LenProperties, EmptySeq
  <1>2. /\ Tail(q) \in Seq(S) /\ Len(Tail(q)) = Len(q) - 1
        /\ \A i \in 1 .. Len(Tail(q)) : Tail(q)[i] = q[i + 1]
    BY HeadTailProperties
  <1>3. DOMAIN Tail(q) = 1 .. Len(q) - 1
    BY <1>2, LenProperties
  <1>4. ASSUME NEW i \in DOMAIN q, i # 1
        PROVE  \E k \in DOMAIN Tail(q) : Tail(q)[k] = q[i]
    <2>1. i - 1 \in 1 .. Len(q) - 1 /\ (i - 1) + 1 = i
      BY <1>1, <1>4
    <2> QED
      BY <1>1, <1>2, <1>3, <2>1
  <1>5. Head(q) = q[1]
    OBVIOUS
  <1> QED
    BY <1>1, <1>2, <1>3, <1>4, <1>5

LEMMA Numbers == Jobs \subseteq Nat \ {0} /\ Slots \subseteq Nat \ {0}
  <1>1. Cardinality(Jobs) \in Nat /\ Cardinality(Slots) \in Nat
    BY PoolAssumption, FS_CardinalityType
  <1> QED
    BY <1>1, PoolAssumption

LEMMA HasLeast ==
  ASSUME NEW S \in SUBSET Nat, S # {}
  PROVE  \E m \in S : \A n \in S : m <= n
  <1> DEFINE R == {ss \in Nat \X Nat : ss[1] < ss[2]}
  <1>1. R = OpToRel(<, Nat)
    BY DEF OpToRel
  <1>2. IsWellFoundedOn(R, Nat)
    BY <1>1, NatLessThanWellFounded
  <1> HIDE DEF R
  <1>3. \E m \in S : \A n \in S : ~(<<n, m>> \in R)
    BY <1>2, WFMin
  <1>4. \A m, n \in S : <<n, m>> \in R <=> n < m
    BY DEF R
  <1>5. PICK m \in S : \A n \in S : ~(n < m)
    BY <1>3, <1>4
  <1> QED
    BY <1>5
-----------------------------------------------------------------------------
(* The inductive invariant. *)

(* The outcomes a line can tell. *)
Outcome(text) == IF text = "OK" THEN "yes" ELSE "no"
AnEnd(text) == text \in {"OK", "NO", "FATAL"}

(* Where the parent is: a slot to hand a job to is free, and after the loop nothing
   is under way. *)
Turn ==
  /\ pc = "hand" => at \in Slots /\ slot[at].job = 0 /\ todo # <<>>
  /\ pc \in {"finish", "done"} =>
       /\ child = <<>> /\ lines = <<>>
       /\ \A s \in Slots : slot[s] = NoSlot
       /\ ~stopped => todo = <<>>
  /\ pc # "done" => uncopied = {}

(* A job in line is there once, and nothing has come of it. *)
Waiting(j) ==
  /\ j \in pending /\ results[j] = "absent" /\ tries[j] < Tries
  /\ \A s \in Slots : slot[s].job # j
  /\ \A v \in {"yes", "no"} : <<j, v>> \notin said

InLine ==
  /\ \A i, k \in DOMAIN todo : todo[i] = todo[k] => i = k
  /\ \A i \in DOMAIN todo : Waiting(todo[i])

(* A job handed over is one slot's. *)
UnderWay ==
  \A s \in Slots : slot[s].job # 0 =>
    /\ slot[s].proc # 0
    /\ slot[s].job \in pending /\ results[slot[s].job] = "absent"
    /\ \A t \in Slots : slot[t].job = slot[s].job => t = s

(* A process works for one slot, on the job of that slot, and says how it ended
   when it is done with it. *)
Working(p) ==
  LET c == child[p]
  IN /\ c.job # 0 => /\ slot[c.slot] = [proc |-> p, job |-> c.job]
                     /\ \A v \in {"yes", "no"} : <<c.job, v>> \notin said
     /\ c.state = "dead" => c.job = 0
     /\ c.state \in {"opened", "writing"} => c.job # 0
     /\ c.state = "writing" => Decodes(c.job)

Workers ==
  /\ \A s \in Slots : slot[s].proc # 0 => child[slot[s].proc].slot = s
  /\ \A p \in DOMAIN child : Working(p)

(* The unread line of a slot's process that ends its job: there is one such line,
   and the process said so of that job. *)
Pending(i) ==
  LET p == lines[i].proc
      s == child[p].slot
  IN AnEnd(lines[i].text) /\ slot[s].proc = p =>
       /\ child[p].job = 0 /\ child[p].state # "starting"
       /\ lines[i].text = "FATAL" => child[p].state = "dead"
       /\ lines[i].text # "FATAL" =>
            slot[s].job # 0 /\ <<slot[s].job, Outcome(lines[i].text)>> \in said
       /\ \A k \in DOMAIN lines : lines[k].proc = p /\ AnEnd(lines[k].text) => k = i

Unread == \A i \in DOMAIN lines : Pending(i)

(* What was said is recorded, or too late, or still to be read. *)
Recorded(j, v) ==
  \/ results[j] = v \/ j \in expired
  \/ \E s \in Slots, i \in DOMAIN lines :
       /\ slot[s].job = j /\ lines[i].proc = slot[s].proc
       /\ lines[i].text = IF v = "yes" THEN "OK" ELSE "NO"

Told ==
  /\ said \subseteq pending \X {"yes", "no"}
  /\ \A j \in pending, v \in {"yes", "no"} : <<j, v>> \in said =>
       /\ v = "yes" => frame[j] = "whole" /\ nature[Content[j]] = "decodes"
       /\ Recorded(j, v)

(* A job that does not wait to be decoded has its frame, or the bytes of one that does. *)
Followed(j) ==
  \/ results[j] # "absent"
  \/ \E k \in pending : /\ j # k /\ {j, k} \subseteq Hashed /\ Content[j] = Content[k]
                        /\ pc = "done" => results[k] = "absent"

Led == \A j \in Jobs \ pending : /\ Followed(j)
                                 /\ pc # "done" => results[j] # "no"

(* Unless the pass is stopped, each job is decided, given up, under way or in line. *)
Placed ==
  ~stopped => \A j \in pending :
    \/ results[j] # "absent" \/ tries[j] = Tries
    \/ \E s \in Slots : slot[s].job = j
    \/ \E i \in DOMAIN todo : todo[i] = j

Inv == TypeOK /\ Turn /\ InLine /\ UnderWay /\ Workers /\ Unread /\ Told /\ VerdictsRight
       /\ CacheSound /\ Led /\ Placed
-----------------------------------------------------------------------------
(* What the types say of each process, slot, line and job in line. *)
States == {"starting", "idle", "opened", "writing", "dead"}
Worker == [state : States, job : Jobs \cup {0}, slot : Slots]
Texts == {"START", "OK", "NO", "FATAL"}

LEMMA Facts ==
  ASSUME TypeOK
  PROVE  /\ child \in Seq(Worker) /\ Len(child) \in Nat /\ DOMAIN child = 1 .. Len(child)
         /\ \A p \in DOMAIN child : child[p] \in Worker
         /\ lines \in Seq([proc : DOMAIN child, text : Texts])
         /\ \A i \in DOMAIN lines : lines[i].proc \in DOMAIN child /\ lines[i].text \in Texts
         /\ todo \in Seq(Jobs) /\ \A i \in DOMAIN todo : todo[i] \in Jobs
         /\ \A s \in Slots : slot[s].proc # 0 => slot[s].proc \in DOMAIN child
         /\ \A s \in Slots : slot[s] \in [proc : 0 .. Len(child), job : Jobs \cup {0}]
         /\ 0 \notin Jobs /\ 0 \notin Slots /\ 0 \notin DOMAIN child
  <1>1. child \in Seq(Worker) /\ Len(child) \in Nat /\ DOMAIN child = 1 .. Len(child)
    <2>1. child \in Seq(Worker)
      BY DEF TypeOK, Worker, States
    <2> QED
      BY <2>1, LenProperties
  <1>2. \A p \in DOMAIN child : child[p] \in Worker
    BY <1>1, ElementOfSeq
  <1>3. lines \in Seq([proc : DOMAIN child, text : Texts])
    BY DEF TypeOK, Texts
  <1>4. \A i \in DOMAIN lines : lines[i] \in [proc : DOMAIN child, text : Texts]
    BY <1>3, ElementOfSeq, LenProperties
  <1>5. \A i \in DOMAIN lines : lines[i].proc \in DOMAIN child /\ lines[i].text \in Texts
    BY <1>4
  <1>6. todo \in Seq(Jobs)
    BY DEF TypeOK
  <1>7. \A i \in DOMAIN todo : todo[i] \in Jobs
    BY <1>6, ElementOfSeq, LenProperties
  <1>8. \A s \in Slots : slot[s] \in [proc : 0 .. Len(child), job : Jobs \cup {0}]
    BY DEF TypeOK
  <1>9. \A s \in Slots : slot[s].proc # 0 => slot[s].proc \in DOMAIN child
    BY <1>1, <1>8
  <1>10. 0 \notin Jobs /\ 0 \notin Slots /\ 0 \notin DOMAIN child
    BY <1>1, Numbers
  <1> QED
    BY <1>1, <1>2, <1>3, <1>5, <1>6, <1>7, <1>8, <1>9, <1>10

(* The process of a slot is no other slot's. *)
LEMMA OwnProcess ==
  ASSUME TypeOK, Workers, NEW s \in Slots, NEW t \in Slots,
         slot[s].proc # 0, slot[t].proc = slot[s].proc
  PROVE  s = t
  BY DEF Workers
-----------------------------------------------------------------------------

(* Each job that was not reused has a leader with the same bytes. *)
LEMMA LeaderFound ==
  ASSUME NEW rest \in SUBSET Jobs, NEW j \in rest
  PROVE  /\ Leader(rest, j) \in rest /\ Leader(rest, Leader(rest, j)) = Leader(rest, j)
         /\ Leader(rest, j) # j => /\ {j, Leader(rest, j)} \subseteq Hashed
                                   /\ Content[j] = Content[Leader(rest, j)]
  <1>1. CASE j \notin Hashed
    BY <1>1 DEF Leader
  <1>2. CASE j \in Hashed
    <2> DEFINE same == {k \in rest \cap Hashed : Content[k] = Content[j]}
               First(k) == k \in same /\ \A i \in same : k <= i
    <2>1. same \in SUBSET Nat /\ j \in same
      BY <1>2, Numbers
    <2>2. PICK m \in same : \A n \in same : m <= n
      BY <2>1, HasLeast
    <2>3. \A i \in same : Leader(rest, i) = CHOOSE k \in rest \cap Hashed : First(k)
      BY <1>2 DEF Leader
    <2>4. m \in rest \cap Hashed /\ First(m)
      BY <2>2
    <2>5. \A k \in rest \cap Hashed : First(k) => k = m
      BY <2>1, <2>2
    <2>6. (CHOOSE k \in rest \cap Hashed : First(k)) = m
      BY <2>4, <2>5
    <2>7. Leader(rest, j) = m /\ Leader(rest, m) = m
      BY <2>1, <2>2, <2>3, <2>6
    <2> QED
      BY <1>2, <2>2, <2>7
  <1> QED
    BY <1>1, <1>2

(* A line of jobs as long as the set of them has each of them once. *)
LEMMA AllInLine ==
  ASSUME NEW S \in SUBSET Jobs, NEW f \in [1 .. Cardinality(S) -> S],
         \A i, k \in DOMAIN f : i < k => f[i] < f[k]
  PROVE  /\ f \in Seq(Jobs) /\ \A i \in DOMAIN f : f[i] \in S
         /\ \A i, k \in DOMAIN f : f[i] = f[k] => i = k
         /\ \A j \in S : \E i \in DOMAIN f : f[i] = j
  <1>1. IsFiniteSet(S)
    BY PoolAssumption, FS_Subset
  <1>2. PICK n \in Nat : n = Cardinality(S)
    BY <1>1, FS_CardinalityType
  <1>3. f \in [1 .. n -> S] /\ DOMAIN f = 1 .. n /\ S \subseteq Nat
    BY <1>2, Numbers
  <1>4. f \in Seq(Jobs)
    BY <1>3, SeqFun, ZenonT(60)
  <1>5. ASSUME NEW i \in DOMAIN f, NEW k \in DOMAIN f, f[i] = f[k]
        PROVE  i = k
    <2>0. i \in 1 .. n /\ k \in 1 .. n /\ f[i] \in S /\ f[k] \in S
      BY <1>3
    <2>1. i \in Int /\ k \in Int
      BY <2>0
    <2>11. f[i] \in Nat /\ f[k] \in Nat
      BY <2>0, Numbers, Zenon
    <2>2. ~(i < k) /\ ~(k < i)
      BY <1>5, <2>11
    <2> QED
      BY <2>1, <2>2
  <1>6. f \in Injection(1 .. n, S)
    BY <1>3, <1>5 DEF Injection, IsInjective
  <1>7. Cardinality(1 .. n) = n
    <2>1. Cardinality(1 .. n) = IF 1 > n THEN 0 ELSE n - 1 + 1
      BY FS_Interval
    <2> QED
      BY <2>1
  <1>8. f \in Surjection(1 .. n, S)
    BY <1>1, <1>2, <1>6, <1>7, FS_Injection
  <1> QED
    BY <1>3, <1>4, <1>5, <1>8 DEF Surjection

LEMMA InvInit == Init => Inv
  <1> SUFFICES ASSUME Init
               PROVE  Inv
    OBVIOUS
  <1>0. /\ nature \in [Contents -> {"decodes", "fails", "hangs"}]
        /\ decoder \in BOOLEAN /\ skip = FALSE /\ stopped = FALSE /\ fatal = FALSE
        /\ cache \in SUBSET {c \in Contents : nature[c] = "decodes"}
        /\ tries = [j \in Jobs |-> 0] /\ slot = [s \in Slots |-> NoSlot]
        /\ pc = "check" /\ at = 1 /\ child = <<>> /\ lines = <<>>
        /\ said = {} /\ expired = {} /\ uncopied = {}
    BY DEF Init
  <1>1. PICK reused \in SUBSET {j \in Hashed : Content[j] \in cache} :
          /\ frame = [j \in Jobs |-> IF j \in reused THEN "whole" ELSE "none"]
          /\ results = [j \in Jobs |-> IF j \in reused THEN "yes" ELSE "absent"]
          /\ pending = {j \in Jobs \ reused : Leader(Jobs \ reused, j) = j}
    BY DEF Init
  <1>2. pending \in SUBSET Jobs /\ \A j \in pending : j \notin reused
    BY <1>1
  <1>3. /\ todo \in Seq(Jobs) /\ \A i \in DOMAIN todo : todo[i] \in pending
        /\ \A i, k \in DOMAIN todo : todo[i] = todo[k] => i = k
        /\ \A j \in pending : \E i \in DOMAIN todo : todo[i] = j
    BY <1>2, AllInLine DEF Init
  <1>4. \A s \in Slots : slot[s] = NoSlot /\ slot[s].job = 0 /\ slot[s].proc = 0
    BY <1>0 DEF NoSlot
  <1>5. \A j \in Jobs : tries[j] = 0 /\ 0 \in 0 .. Tries /\ 0 < Tries
    BY <1>0, PoolAssumption
  <1>6. child \in Seq(Worker) /\ lines \in Seq([proc : DOMAIN child, text : Texts])
        /\ DOMAIN child = {} /\ DOMAIN lines = {}
    BY <1>0
  <1>7. TypeOK
    <2>1. frame \in [Jobs -> {"none", "torn", "whole"}] /\ results \in [Jobs -> {"yes", "no", "absent"}]
      BY <1>1
    <2>2. tries \in [Jobs -> 0 .. Tries]
      BY <1>0, <1>5
    <2>3. slot \in [Slots -> [proc : 0 .. Len(child), job : Jobs \cup {0}]]
      <3>1. Len(child) = 0
        BY <1>0
      <3>2. NoSlot \in [proc : 0 .. Len(child), job : Jobs \cup {0}]
        BY <3>1 DEF NoSlot
      <3> QED
        BY <1>0, <3>2
    <2>4. cache \subseteq Contents /\ pc \in {"check", "hand", "get", "finish", "done"} /\ at \in Nat
      BY <1>0
    <2>5. skip \in BOOLEAN /\ stopped \in BOOLEAN /\ fatal \in BOOLEAN
      BY <1>0, Zenon
    <2>6. /\ nature \in [Contents -> {"decodes", "fails", "hangs"}] /\ decoder \in BOOLEAN
          /\ pending \subseteq Jobs /\ todo \in Seq(Jobs)
      BY <1>0, <1>2, <1>3
    <2> QED
      BY <1>6, <2>1, <2>2, <2>3, <2>4, <2>5, <2>6 DEF TypeOK, Worker, States, Texts
  <1>8. Turn
    BY <1>0 DEF Turn
  <1>9. InLine
    <2>1. ASSUME NEW i \in DOMAIN todo
          PROVE  Waiting(todo[i])
      <3>1. PICK j \in pending : j = todo[i]
        BY <1>3
      <3>2. results[j] = "absent" /\ tries[j] < Tries /\ j # 0
        BY <1>1, <1>2, <1>5, Numbers, PoolAssumption
      <3> QED
        BY <1>0, <1>4, <3>1, <3>2 DEF Waiting
    <2> QED
      BY <1>3, <2>1 DEF InLine
  <1>10. UnderWay /\ Workers /\ Unread
    BY <1>4, <1>6 DEF UnderWay, Workers, Unread
  <1>11. Told
    BY <1>0 DEF Told
  <1>12. \A j \in reused \cap Jobs : nature[Content[j]] = "decodes"
    BY <1>0, PoolAssumption
  <1>13. VerdictsRight /\ CacheSound
    BY <1>0, <1>1, <1>12 DEF VerdictsRight, CacheSound
  <1>14. Led
    <2>1. ASSUME NEW j \in Jobs \ pending
          PROVE  Followed(j) /\ results[j] # "no"
      <3>1. CASE j \in reused
        BY <1>1, <3>1 DEF Followed
      <3>2. CASE j \notin reused
        <4>1. PICK k : k = Leader(Jobs \ reused, j)
          OBVIOUS
        <4>2. /\ k \in pending /\ k # j /\ {j, k} \subseteq Hashed /\ Content[j] = Content[k]
          BY <1>1, <3>2, <4>1, LeaderFound
        <4> QED
          BY <1>0, <1>1, <3>2, <4>2 DEF Followed
      <3> QED
        BY <3>1, <3>2
    <2> QED
      BY <2>1 DEF Led
  <1>15. Placed
    BY <1>3 DEF Placed
  <1> QED
    BY <1>7, <1>8, <1>9, <1>10, <1>11, <1>13, <1>14, <1>15 DEF Inv
-----------------------------------------------------------------------------
(* The steps that hand nothing over and take nothing back. *)
core == <<nature, decoder, frame, cache, results, pending, todo, tries, slot, child, lines, history>>

LEMMA QuietKeeps ==
  ASSUME Inv, UNCHANGED core, stopped => stopped', TypeOK', Turn',
         (pc' = "done") <=> (pc = "done")
  PROVE  Inv'
  <1> USE DEF core, history
  <1>1. InLine'
    BY DEF Inv, InLine, Waiting
  <1>2. UnderWay' /\ Workers'
    BY DEF Inv, UnderWay, Workers, Working, Decodes
  <1>3. Unread'
    BY DEF Inv, Unread, Pending
  <1>4. Told'
    BY DEF Inv, Told, Recorded
  <1>5. VerdictsRight'
    BY DEF Inv, VerdictsRight
  <1>6. CacheSound'
    BY DEF Inv, CacheSound
  <1>7. Led'
    BY DEF Inv, Led, Followed
  <1>8. Placed'
    BY DEF Inv, Placed
  <1> QED
    BY <1>1, <1>2, <1>3, <1>4, <1>5, <1>6, <1>7, <1>8 DEF Inv

(* The next slot to hand out to is a free one. *)
LEMMA Handing ==
  ASSUME NEW i \in Nat, HandTo(i)
  PROVE  /\ pc' \in {"hand", "get"} /\ at' \in Nat
         /\ pc' = "hand" => at' \in Slots /\ slot'[at'].job = 0 /\ todo' # <<>>
  <1>1. CASE ~stopped' /\ todo' # <<>> /\ Free(i) # {}
    <2>1. Free(i) \in SUBSET Nat /\ Free(i) \in SUBSET Slots
      BY Numbers DEF Free
    <2>2. \E s \in Free(i) : \A t \in Free(i) : s <= t
      BY <1>1, <2>1, HasLeast
    <2>3. at' = CHOOSE s \in Free(i) : \A t \in Free(i) : s <= t
      BY <1>1 DEF HandTo
    <2>4. at' \in Free(i)
      BY <2>2, <2>3
    <2> QED
      BY <1>1, <2>1, <2>4 DEF HandTo, Free
  <1>2. CASE ~(~stopped' /\ todo' # <<>> /\ Free(i) # {})
    BY <1>2 DEF HandTo
  <1> QED
    BY <1>1, <1>2

LEMMA CheckKeeps == Inv /\ Check => Inv'
  <1> SUFFICES ASSUME Inv, Check
               PROVE  Inv'
    OBVIOUS
  <1>1. UNCHANGED core /\ UNCHANGED <<fatal, skip>> /\ stopped' = (stopped \/ fatal \/ skip) /\ HandTo(1)
    BY DEF Check, core, world
  <1>2. /\ pc' \in {"hand", "get"} /\ at' \in Nat
        /\ pc' = "hand" => at' \in Slots /\ slot'[at'].job = 0 /\ todo' # <<>>
    BY <1>1, Handing
  <1>3. TypeOK'
    BY <1>1, <1>2 DEF Inv, TypeOK, core, history
  <1>4. Turn'
    BY <1>1, <1>2 DEF Inv, Turn, core, history, Check
  <1>5. pc = "check"
    BY DEF Check
  <1> QED
    BY <1>1, <1>2, <1>3, <1>4, <1>5, QuietKeeps

LEMMA SpawnFailsKeeps == Inv /\ SpawnFails => Inv'
  <1> SUFFICES ASSUME Inv, SpawnFails
               PROVE  Inv'
    OBVIOUS
  <1>1. /\ UNCHANGED core /\ UNCHANGED skip /\ stopped' = TRUE /\ fatal' = TRUE
        /\ pc = "hand" /\ pc' = "get" /\ at' = 1
    BY DEF SpawnFails, core, world
  <1>2. TypeOK'
    BY <1>1 DEF Inv, TypeOK, core, history
  <1>3. Turn'
    BY <1>1 DEF Inv, Turn, core, history
  <1> QED
    BY <1>1, <1>2, <1>3, QuietKeeps

LEMMA SkipKeeps == Inv /\ Skip => Inv'
  <1> SUFFICES ASSUME Inv, Skip
               PROVE  Inv'
    OBVIOUS
  <1>1. UNCHANGED core /\ UNCHANGED <<pc, at, stopped, fatal>> /\ skip' = TRUE
    BY DEF Skip, core
  <1>2. TypeOK'
    BY <1>1 DEF Inv, TypeOK, core, history
  <1>3. Turn'
    BY <1>1 DEF Inv, Turn, core, history
  <1> QED
    BY <1>1, <1>2, <1>3, QuietKeeps

LEMMA StutterKeeps == Inv /\ UNCHANGED vars => Inv'
  <1> SUFFICES ASSUME Inv, UNCHANGED vars
               PROVE  Inv'
    OBVIOUS
  <1>1. UNCHANGED core /\ UNCHANGED <<pc, at, stopped, fatal, skip>>
    BY DEF vars, core, world
  <1>2. TypeOK'
    BY <1>1 DEF Inv, TypeOK, core, history
  <1>3. Turn'
    BY <1>1 DEF Inv, Turn, core, history
  <1> QED
    BY <1>1, <1>2, <1>3, QuietKeeps
-----------------------------------------------------------------------------
(* A process is started for a slot without one. *)
LEMMA SpawnKeeps == Inv /\ Spawn => Inv'
  <1> SUFFICES ASSUME Inv, Spawn
               PROVE  Inv'
    OBVIOUS
  <1>0. TypeOK /\ Turn /\ InLine /\ UnderWay /\ Workers /\ Unread /\ Told /\ VerdictsRight
        /\ CacheSound /\ Led /\ Placed
    BY DEF Inv
  <1>1. /\ pc = "hand" /\ at \in Slots /\ slot[at].proc = 0 /\ slot[at].job = 0
        /\ UNCHANGED <<nature, decoder, frame, cache, results, pending, todo, tries, lines,
                       said, expired, uncopied, skip, stopped, fatal, pc, at>>
    BY <1>0 DEF Turn, Spawn, world, history
  <1>2. PICK n \in Nat : n = Len(child) + 1
    BY <1>0, Facts
  <1>3. PICK w \in Worker : w = [state |-> "starting", job |-> 0, slot |-> at]
    BY <1>1 DEF Worker, States
  <1>4. child' = Append(child, w) /\ slot' = [slot EXCEPT ![at].proc = n]
    BY <1>2, <1>3 DEF Spawn
  <1>5. /\ child' \in Seq(Worker) /\ Len(child') = n /\ DOMAIN child' = 1 .. n
        /\ n \notin DOMAIN child /\ DOMAIN child \subseteq DOMAIN child' /\ n \in DOMAIN child'
        /\ \A p \in DOMAIN child' : p = n \/ p \in DOMAIN child
        /\ \A p \in DOMAIN child : child'[p] = child[p]
        /\ child'[n] = w
    <2>1. child \in Seq(Worker) /\ Len(child) \in Nat /\ DOMAIN child = 1 .. Len(child)
      BY <1>0, Facts
    <2>2. /\ child' \in Seq(Worker) /\ Len(child') = Len(child) + 1
          /\ DOMAIN child' = 1 .. Len(child) + 1
          /\ \A p \in DOMAIN child : child'[p] = child[p]
          /\ child'[Len(child) + 1] = w
      BY <1>4, <2>1, Appended
    <2> QED
      BY <1>2, <2>1, <2>2
  <1>6. \A p \in DOMAIN child : p # n
    BY <1>5
  <1>7. /\ slot' \in [Slots -> [proc : 0 .. n, job : Jobs \cup {0}]]
        /\ slot'[at].proc = n /\ \A s \in Slots : slot'[s].job = slot[s].job
        /\ \A s \in Slots : s # at => slot'[s] = slot[s]
    <2>1. slot \in [Slots -> [proc : 0 .. n, job : Jobs \cup {0}]]
      <3>1. slot \in [Slots -> [proc : 0 .. Len(child), job : Jobs \cup {0}]]
        BY <1>0 DEF TypeOK
      <3>2. \A k \in 0 .. Len(child) : k \in 0 .. n
        BY <1>0, <1>2, Facts
      <3> QED
        BY <3>1, <3>2
    <2>2. n \in 0 .. n
      BY <1>2
    <2> QED
      BY <1>1, <1>4, <2>1, <2>2
  <1>8. TypeOK'
    <2>1. lines' \in Seq([proc : DOMAIN child', text : Texts])
      <3>1. lines \in Seq([proc : DOMAIN child, text : Texts])
        BY <1>0, Facts
      <3>2. [proc : DOMAIN child, text : Texts] \subseteq [proc : DOMAIN child', text : Texts]
        BY <1>5
      <3> QED
        BY <1>1, <3>1, <3>2, SeqMonotonic
    <2>2. slot' \in [Slots -> [proc : 0 .. Len(child'), job : Jobs \cup {0}]]
      BY <1>5, <1>7
    <2>3. child' \in Seq([state : {"starting", "idle", "opened", "writing", "dead"}, job : Jobs \cup {0},
                          slot : Slots])
      BY <1>5 DEF Worker, States
    <2> QED
      BY <1>0, <1>1, <2>1, <2>2, <2>3 DEF TypeOK, Texts
  <1>9. Turn'
    BY <1>0, <1>1, <1>7 DEF Turn
  <1>10. InLine'
    BY <1>0, <1>1, <1>7 DEF InLine, Waiting
  <1>11. UnderWay'
    BY <1>0, <1>1, <1>7 DEF UnderWay
  <1>12. Workers'
    <2>1. \A s \in Slots : slot'[s].proc # 0 => child'[slot'[s].proc].slot = s
      <3> SUFFICES ASSUME NEW s \in Slots, slot'[s].proc # 0
                   PROVE  child'[slot'[s].proc].slot = s
        OBVIOUS
      <3>1. CASE s = at
        BY <1>3, <1>5, <1>7, <3>1
      <3>2. CASE s # at
        <4>1. slot[s].proc \in DOMAIN child /\ child[slot[s].proc].slot = s
          BY <1>0, <1>7, <3>2, Facts DEF Workers
        <4> QED
          BY <1>5, <1>7, <3>2, <4>1
      <3> QED
        BY <3>1, <3>2
    <2>2. ASSUME NEW p \in DOMAIN child'
          PROVE  Working(p)'
      <3>1. CASE p = n
        BY <1>3, <1>5, <3>1 DEF Working
      <3>2. CASE p \in DOMAIN child
        <4>1. Working(p) /\ child'[p] = child[p]
          BY <1>0, <1>5, <3>2 DEF Workers
        <4>2. child[p].job # 0 => child[p].slot # at \/ slot[at].proc = p
          BY <4>1 DEF Working
        <4>3. child[p].slot \in Slots /\ p # 0
          BY <1>0, <3>2, Facts DEF Worker
        <4>4. child[p].job # 0 => slot'[child[p].slot] = slot[child[p].slot]
          BY <1>1, <1>7, <4>2, <4>3
        <4> QED
          BY <1>1, <4>1, <4>4 DEF Working, Decodes
      <3> QED
        BY <1>5, <3>1, <3>2
    <2> QED
      BY <2>1, <2>2 DEF Workers
  <1>13. Unread'
    <2>1. ASSUME NEW i \in DOMAIN lines
          PROVE  Pending(i)'
      <3>1. PICK p \in DOMAIN child : p = lines[i].proc
        BY <1>0, Facts
      <3>2. PICK s \in Slots : s = child[p].slot /\ s = child'[p].slot
        BY <1>0, <1>5, Facts DEF Worker
      <3>3. slot'[s].proc = p => slot'[s] = slot[s]
        BY <1>6, <1>7
      <3>4. Pending(i)
        BY <1>0 DEF Unread
      <3>5. child'[p] = child[p]
        BY <1>5
      <3> QED
        BY <1>1, <3>1, <3>2, <3>3, <3>4, <3>5 DEF Pending
    <2> QED
      BY <1>1, <2>1 DEF Unread
  <1>14. Told'
    <2>1. ASSUME NEW j \in pending, NEW v \in {"yes", "no"}, Recorded(j, v)
          PROVE  Recorded(j, v)'
      <3>1. \A s \in Slots : slot[s].job = j => slot'[s] = slot[s]
        <4>1. j # 0
          BY <1>0, Facts DEF TypeOK
        <4> QED
          BY <1>1, <1>7, <4>1
      <3> QED
        BY <1>1, <2>1, <3>1 DEF Recorded
    <2> QED
      BY <1>0, <1>1, <2>1 DEF Told
  <1>15. VerdictsRight' /\ CacheSound'
    BY <1>0, <1>1 DEF VerdictsRight, CacheSound
  <1>16. Led'
    BY <1>0, <1>1 DEF Led, Followed
  <1>17. Placed'
    BY <1>0, <1>1, <1>7 DEF Placed
  <1> QED
    BY <1>8, <1>9, <1>10, <1>11, <1>12, <1>13, <1>14, <1>15, <1>16, <1>17 DEF Inv
-----------------------------------------------------------------------------
(* What a change of one process does. *)
LEMMA Changed ==
  ASSUME TypeOK, NEW p \in DOMAIN child, NEW w \in Worker, child' = [child EXCEPT ![p] = w]
  PROVE  /\ child' \in Seq(Worker) /\ Len(child') = Len(child) /\ DOMAIN child' = DOMAIN child
         /\ child'[p] = w /\ \A q \in DOMAIN child : q # p => child'[q] = child[q]
  <1>1. PICK n \in Nat : n = Len(child) /\ DOMAIN child = 1 .. n /\ child \in [1 .. n -> Worker]
    BY Facts, LenProperties
  <1>2. child' \in [1 .. n -> Worker]
    BY <1>1
  <1>3. child' \in Seq(Worker) /\ Len(child') = n /\ DOMAIN child' = 1 .. n
    BY <1>2, SeqFun
  <1> QED
    BY <1>1, <1>3

(* The first job in line is written to a slot's process. *)
LEMMA HandOverKeeps == Inv /\ HandOver => Inv'
  <1> SUFFICES ASSUME Inv, HandOver
               PROVE  Inv'
    OBVIOUS
  <1>0. TypeOK /\ Turn /\ InLine /\ UnderWay /\ Workers /\ Unread /\ Told /\ VerdictsRight
        /\ CacheSound /\ Led /\ Placed
    BY DEF Inv
  <1>1. /\ pc = "hand" /\ at \in Slots /\ slot[at].proc # 0 /\ slot[at].job = 0 /\ todo # <<>>
        /\ UNCHANGED <<nature, decoder, frame, cache, results, pending, tries, lines,
                       said, expired, uncopied, skip, stopped, fatal>>
    BY <1>0 DEF Turn, HandOver, world, history
  <1>2. PICK p \in DOMAIN child : p = slot[at].proc /\ child[p].slot = at /\ child[p].state # "dead"
    BY <1>0, <1>1, Facts DEF Workers, HandOver
  <1>3. PICK j \in Jobs : j = todo[1] /\ 1 \in DOMAIN todo /\ j = Head(todo) /\ Waiting(j)
    BY <1>0, <1>1, Facts, Popped DEF InLine
  <1>4. /\ todo' \in Seq(Jobs)
        /\ \A i \in DOMAIN todo' : i \in Nat /\ i + 1 \in DOMAIN todo /\ todo'[i] = todo[i + 1]
        /\ \A i \in DOMAIN todo : todo[i] = j \/ \E k \in DOMAIN todo' : todo'[k] = todo[i]
    <2>1. todo \in Seq(Jobs) /\ todo' = Tail(todo)
      BY <1>0, Facts DEF HandOver
    <2> QED
      BY <1>1, <1>3, <2>1, Popped
  <1>5. \A i \in DOMAIN todo' : todo'[i] # j
    <2>1. ASSUME NEW i \in DOMAIN todo', todo'[i] = j
          PROVE  FALSE
      <3>1. i + 1 \in DOMAIN todo /\ todo[i + 1] = todo[1] /\ i \in Nat
        BY <1>3, <1>4, <2>1
      <3>2. i + 1 = 1
        BY <1>0, <1>3, <3>1 DEF InLine
      <3>3. i \in 1 .. Len(todo')
        BY <1>4, LenProperties
      <3> QED
        BY <3>1, <3>2, <3>3
    <2> QED
      BY <2>1
  <1>6. PICK w \in Worker : w = [child[p] EXCEPT !.job = j]
    BY <1>0, <1>3, Facts DEF Worker
  <1>7. w.state = child[p].state /\ w.job = j /\ w.slot = at
    BY <1>0, <1>2, <1>6, Facts DEF Worker
  <1>8. /\ child' \in Seq(Worker) /\ Len(child') = Len(child) /\ DOMAIN child' = DOMAIN child
        /\ child'[p] = w /\ \A q \in DOMAIN child : q # p => child'[q] = child[q]
    <2>1. child' = [child EXCEPT ![p] = w]
      BY <1>2, <1>3, <1>6 DEF HandOver
    <2> QED
      BY <1>0, <2>1, Changed
  <1>9. /\ slot' \in [Slots -> [proc : 0 .. Len(child), job : Jobs \cup {0}]]
        /\ slot'[at] = [proc |-> p, job |-> j] /\ \A s \in Slots : s # at => slot'[s] = slot[s]
    <2>1. slot' = [slot EXCEPT ![at].job = j]
      BY <1>3 DEF HandOver
    <2>2. slot \in [Slots -> [proc : 0 .. Len(child), job : Jobs \cup {0}]]
      BY <1>0 DEF TypeOK
    <2> QED
      BY <1>1, <1>2, <2>1, <2>2
  <1>10. /\ pc' \in {"hand", "get"} /\ at' \in Nat
         /\ pc' = "hand" => at' \in Slots /\ slot'[at'].job = 0 /\ todo' # <<>>
    <2>1. HandTo(at + 1) /\ at + 1 \in Nat
      BY <1>1, Numbers DEF HandOver
    <2> QED
      BY <2>1, Handing
  <1>11. j # 0 /\ j \in pending /\ results[j] = "absent" /\ tries[j] < Tries
         /\ (\A s \in Slots : slot[s].job # j) /\ \A v \in {"yes", "no"} : <<j, v>> \notin said
    BY <1>0, <1>3, Facts DEF Waiting
  <1>12. TypeOK'
    <2>1. child' \in Seq([state : {"starting", "idle", "opened", "writing", "dead"}, job : Jobs \cup {0},
                          slot : Slots])
      BY <1>8 DEF Worker, States
    <2> QED
      BY <1>0, <1>1, <1>4, <1>8, <1>9, <1>10, <2>1 DEF TypeOK
  <1>13. Turn'
    BY <1>0, <1>1, <1>10 DEF Turn
  <1>14. InLine'
    <2>1. ASSUME NEW i \in DOMAIN todo', NEW k \in DOMAIN todo', todo'[i] = todo'[k]
          PROVE  i = k
      <3>1. i + 1 = k + 1
        BY <1>0, <1>4, <2>1 DEF InLine
      <3> QED
        BY <1>4, <3>1
    <2>3. ASSUME NEW i \in DOMAIN todo'
          PROVE  Waiting(todo[i])'
      <3>1. PICK k \in Jobs : k = todo'[i] /\ k = todo[i + 1] /\ k # j /\ Waiting(k)
        BY <1>0, <1>4, <1>5, Facts DEF InLine
      <3>2. \A s \in Slots : slot'[s].job # k
        BY <1>9, <3>1 DEF Waiting
      <3> QED
        BY <1>1, <3>1, <3>2 DEF Waiting
    <2> QED
      BY <2>1, <2>3 DEF InLine
  <1>15. UnderWay'
    <2>1. ASSUME NEW s \in Slots, slot'[s].job # 0
          PROVE  /\ slot'[s].proc # 0 /\ slot'[s].job \in pending /\ results[slot'[s].job] = "absent"
                 /\ \A t \in Slots : slot'[t].job = slot'[s].job => t = s
      <3>1. CASE s = at
        <4>1. p # 0
          BY <1>0, Facts
        <4>2. slot'[s].proc = p /\ slot'[s].job = j
          BY <1>9, <3>1
        <4>3. \A t \in Slots : t # at => slot'[t].job # j
          BY <1>9, <1>11
        <4> QED
          BY <1>11, <3>1, <4>1, <4>2, <4>3
      <3>2. CASE s # at
        BY <1>0, <1>9, <1>11, <2>1, <3>2, SMTT(30) DEF UnderWay
      <3> QED
        BY <3>1, <3>2
    <2> QED
      BY <1>1, <2>1 DEF UnderWay
  <1>16. Workers'
    <2>1. \A s \in Slots : slot'[s].proc # 0 => child'[slot'[s].proc].slot = s
      <3> SUFFICES ASSUME NEW s \in Slots, slot'[s].proc # 0
                   PROVE  child'[slot'[s].proc].slot = s
        OBVIOUS
      <3>1. slot'[s].proc = slot[s].proc
        BY <1>2, <1>9
      <3>2. slot[s].proc \in DOMAIN child /\ child[slot[s].proc].slot = s
        BY <1>0, <3>1, Facts DEF Workers
      <3>3. child'[slot[s].proc].slot = child[slot[s].proc].slot
        BY <1>2, <1>7, <1>8, <3>2
      <3> QED
        BY <3>1, <3>2, <3>3
    <2>2. ASSUME NEW q \in DOMAIN child
          PROVE  Working(q)'
      <3>1. CASE q = p
        <4>1. Working(p)
          BY <1>0 DEF Workers
        <4>2. child[p].job = 0
          <5>1. child[p].job # 0 => slot[at] = [proc |-> p, job |-> child[p].job]
            BY <1>2, <4>1 DEF Working
          <5> QED
            BY <1>1, <5>1
        <4>3. w.state # "writing" /\ w.state # "dead"
          BY <1>2, <1>7, <4>1, <4>2 DEF Working
        <4> QED
          BY <1>1, <1>7, <1>8, <1>9, <1>11, <3>1, <4>3 DEF Working
      <3>2. CASE q # p
        <4>1. Working(q) /\ child'[q] = child[q]
          BY <1>0, <1>8, <3>2 DEF Workers
        <4>2. child[q].slot \in Slots
          BY <1>0, Facts DEF Worker
        <4>3. child[q].job # 0 => slot'[child[q].slot] = slot[child[q].slot]
          BY <1>2, <1>9, <3>2, <4>1, <4>2 DEF Working
        <4> QED
          BY <1>1, <4>1, <4>3 DEF Working, Decodes
      <3> QED
        BY <3>1, <3>2
    <2> QED
      BY <1>8, <2>1, <2>2 DEF Workers
  <1>17. Unread'
    <2>1. ASSUME NEW i \in DOMAIN lines
          PROVE  Pending(i)'
      <3>1. PICK q \in DOMAIN child : q = lines[i].proc
        BY <1>0, Facts
      <3>2. Pending(i)
        BY <1>0 DEF Unread
      <3>3. CASE q = p
        <4>1. ~AnEnd(lines[i].text)
          <5>1. child[p].slot = at /\ slot[at].proc = p
            BY <1>2
          <5> QED
            BY <1>1, <1>2, <3>1, <3>2, <3>3, <5>1 DEF Pending
        <4> QED
          BY <1>1, <4>1 DEF Pending
      <3>4. CASE q # p
        <4>1. PICK s \in Slots : s = child[q].slot /\ s = child'[q].slot
          BY <1>0, <1>8, <3>4, Facts DEF Worker
        <4>2. slot'[s].proc = q => slot'[s] = slot[s]
          BY <1>9, <3>4
        <4>3. child'[q] = child[q]
          BY <1>8, <3>4
        <4> QED
          BY <1>1, <3>1, <3>2, <4>1, <4>2, <4>3 DEF Pending
      <3> QED
        BY <3>3, <3>4
    <2> QED
      BY <1>1, <2>1 DEF Unread
  <1>18. Told'
    <2>1. ASSUME NEW k \in pending, NEW v \in {"yes", "no"}, Recorded(k, v)
          PROVE  Recorded(k, v)'
      <3>1. \A s \in Slots : slot[s].job = k => slot'[s] = slot[s]
        <4>1. k # 0
          BY <1>0, Facts DEF TypeOK
        <4> QED
          BY <1>1, <1>9, <4>1
      <3> QED
        BY <1>1, <2>1, <3>1 DEF Recorded
    <2> QED
      BY <1>0, <1>1, <2>1 DEF Told
  <1>19. VerdictsRight' /\ CacheSound'
    BY <1>0, <1>1 DEF VerdictsRight, CacheSound
  <1>20. Led'
    BY <1>0, <1>1, <1>10 DEF Led, Followed
  <1>21. Placed'
    <2>1. ASSUME NEW k \in pending,
                 (\E s \in Slots : slot[s].job = k) \/ \E i \in DOMAIN todo : todo[i] = k
          PROVE  (\E s \in Slots : slot'[s].job = k) \/ \E i \in DOMAIN todo' : todo'[i] = k
      <3>1. CASE k = j
        BY <1>1, <1>9, <3>1
      <3>2. CASE \E i \in DOMAIN todo : todo[i] = k /\ k # j
        BY <1>4, <3>2
      <3>3. ASSUME NEW s \in Slots, slot[s].job = k
            PROVE  slot'[s].job = k
        <4>1. k # 0
          BY <1>0, Facts DEF TypeOK
        <4> QED
          BY <1>1, <1>9, <3>3, <4>1
      <3> QED
        BY <2>1, <3>1, <3>2, <3>3
    <2> QED
      BY <1>0, <1>1, <2>1 DEF Placed
  <1> QED
    BY <1>12, <1>13, <1>14, <1>15, <1>16, <1>17, <1>18, <1>19, <1>20, <1>21 DEF Inv
-----------------------------------------------------------------------------
(* The process died before the job could be written: its slot is emptied, and the
   job is first in line again or given up. *)
LEMMA HandOverFailsKeeps == Inv /\ HandOverFails => Inv'
  <1> SUFFICES ASSUME Inv, HandOverFails
               PROVE  Inv'
    OBVIOUS
  <1>0. TypeOK /\ Turn /\ InLine /\ UnderWay /\ Workers /\ Unread /\ Told /\ VerdictsRight
        /\ CacheSound /\ Led /\ Placed
    BY DEF Inv
  <1>1. /\ pc = "hand" /\ at \in Slots /\ slot[at].proc # 0 /\ slot[at].job = 0 /\ todo # <<>>
        /\ UNCHANGED <<nature, decoder, frame, cache, results, pending, lines, child,
                       said, expired, uncopied, skip, stopped, fatal>>
    BY <1>0 DEF Turn, HandOverFails, world, history
  <1>2. PICK p \in DOMAIN child : p = slot[at].proc /\ child[p].slot = at /\ child[p].state = "dead"
    BY <1>0, <1>1, Facts DEF Workers, HandOverFails
  <1>3. PICK j \in Jobs : j = todo[1] /\ 1 \in DOMAIN todo /\ j = Head(todo) /\ Waiting(j)
    BY <1>0, <1>1, Facts, Popped DEF InLine
  <1>4. slot' = [slot EXCEPT ![at] = NoSlot]
    BY DEF HandOverFails
  <1>5. /\ slot' \in [Slots -> [proc : 0 .. Len(child), job : Jobs \cup {0}]]
        /\ slot'[at] = NoSlot /\ \A s \in Slots : s # at => slot'[s] = slot[s]
        /\ \A s \in Slots : slot'[s].job = slot[s].job
    <2>1. Len(child) \in Nat
      BY <1>0, Facts
    <2>2. NoSlot \in [proc : 0 .. Len(child), job : Jobs \cup {0}] /\ NoSlot.job = 0
      BY <2>1 DEF NoSlot
    <2>3. slot \in [Slots -> [proc : 0 .. Len(child), job : Jobs \cup {0}]]
      BY <1>0 DEF TypeOK
    <2> QED
      BY <1>1, <1>4, <2>2, <2>3
  <1>6. PICK n \in 0 .. Tries : n = tries[j] + 1 /\ tries' = [tries EXCEPT ![j] = n]
                                /\ todo' = IF n < Tries THEN todo ELSE Tail(todo)
    <2>1. tries[j] \in 0 .. Tries /\ tries[j] < Tries /\ Tries \in Nat
      BY <1>0, <1>3, PoolAssumption DEF TypeOK, Waiting
    <2>2. tries[j] + 1 \in 0 .. Tries
      BY <2>1
    <2>3. /\ tries' = [tries EXCEPT ![j] = @ + 1]
          /\ todo' = IF tries[j] + 1 < Tries THEN todo ELSE Tail(todo)
      BY <1>3 DEF HandOverFails, Requeued, MayRetry
    <2> QED
      BY <2>2, <2>3
  <1>7. /\ tries' \in [Jobs -> 0 .. Tries] /\ tries'[j] = n
        /\ \A k \in Jobs : k # j => tries'[k] = tries[k]
    BY <1>0, <1>6 DEF TypeOK
  <1>8. ASSUME ~(n < Tries)
        PROVE  /\ todo' \in Seq(Jobs)
               /\ \A i \in DOMAIN todo' : i \in Nat \ {0} /\ i + 1 \in DOMAIN todo /\ todo'[i] = todo[i + 1]
               /\ \A i \in DOMAIN todo : todo[i] = j \/ \E k \in DOMAIN todo' : todo'[k] = todo[i]
    <2>1. todo \in Seq(Jobs) /\ todo' = Tail(todo)
      BY <1>0, <1>6, <1>8, Facts
    <2>2. /\ todo' \in Seq(Jobs)
          /\ \A i \in DOMAIN todo' : i \in Nat /\ i + 1 \in DOMAIN todo /\ todo'[i] = todo[i + 1]
          /\ \A i \in DOMAIN todo : i = 1 \/ \E k \in DOMAIN todo' : todo'[k] = todo[i]
      BY <1>1, <2>1, Popped
    <2>3. \A i \in DOMAIN todo' : i \in 1 .. Len(todo') /\ Len(todo') \in Nat
      BY <2>2, LenProperties
    <2> QED
      BY <1>3, <2>2, <2>3
  <1>9. todo' \in Seq(Jobs)
    BY <1>0, <1>6, <1>8, Facts
  <1>10. /\ pc' \in {"hand", "get"} /\ at' \in Nat
         /\ pc' = "hand" => at' \in Slots /\ slot'[at'].job = 0 /\ todo' # <<>>
    <2>1. HandTo(at + 1) /\ at + 1 \in Nat
      BY <1>1, Numbers DEF HandOverFails
    <2> QED
      BY <2>1, Handing
  <1>11. TypeOK'
    BY <1>0, <1>1, <1>5, <1>7, <1>9, <1>10 DEF TypeOK
  <1>12. Turn'
    BY <1>0, <1>1, <1>10 DEF Turn
  <1>13. InLine'
    <2>1. ASSUME NEW k \in Jobs, Waiting(k), k # j \/ n < Tries
          PROVE  Waiting(k)'
      <3>1. tries'[k] < Tries
        BY <1>7, <2>1 DEF Waiting
      <3>2. \A s \in Slots : slot'[s].job # k
        BY <1>5, <2>1 DEF Waiting
      <3> QED
        BY <1>1, <2>1, <3>1, <3>2 DEF Waiting
    <2>2. CASE n < Tries
      <3>1. todo' = todo
        BY <1>6, <2>2
      <3>2. ASSUME NEW i \in DOMAIN todo
            PROVE  Waiting(todo[i])'
        <4>1. PICK k \in Jobs : k = todo[i] /\ Waiting(k)
          BY <1>0, Facts DEF InLine
        <4>2. Waiting(k)'
          BY <2>1, <2>2, <4>1
        <4>3. k = todo'[i]
          BY <3>1, <4>1
        <4> QED
          BY <3>1, <4>1, <4>2, <4>3 DEF Waiting
      <3> QED
        BY <1>0, <3>1, <3>2 DEF InLine
    <2>3. CASE ~(n < Tries)
      <3>1. ASSUME NEW i \in DOMAIN todo', NEW k \in DOMAIN todo', todo'[i] = todo'[k]
            PROVE  i = k
        <4>1. i + 1 = k + 1
          BY <1>0, <1>8, <2>3, <3>1 DEF InLine
        <4> QED
          BY <1>8, <2>3, <4>1
      <3>2. ASSUME NEW i \in DOMAIN todo'
            PROVE  Waiting(todo[i])'
        <4>1. i \in Nat \ {0} /\ i + 1 \in DOMAIN todo /\ todo'[i] = todo[i + 1]
          BY <1>8, <2>3
        <4>2. PICK k \in Jobs : k = todo'[i] /\ Waiting(k)
          BY <1>0, <4>1, Facts DEF InLine
        <4>3. i + 1 # 1
          BY <4>1
        <4>4. k # j
          BY <1>0, <1>3, <4>1, <4>2, <4>3 DEF InLine
        <4>5. Waiting(k)'
          BY <2>1, <4>2, <4>4
        <4> QED
          BY <4>2, <4>5 DEF Waiting
      <3> QED
        BY <3>1, <3>2 DEF InLine
    <2> QED
      BY <2>2, <2>3
  <1>14. UnderWay'
    <2>1. \A s \in Slots : slot'[s].job # 0 => s # at
      BY <1>1, <1>5
    <2> QED
      BY <1>0, <1>1, <1>5, <2>1 DEF UnderWay
  <1>15. Workers'
    <2>1. \A s \in Slots : slot'[s].proc # 0 => child[slot'[s].proc].slot = s
      BY <1>0, <1>5 DEF Workers, NoSlot
    <2>2. ASSUME NEW q \in DOMAIN child
          PROVE  Working(q)'
      <3>1. Working(q) /\ child[q].slot \in Slots
        BY <1>0, Facts DEF Workers, Worker
      <3>2. child[q].job # 0 => slot'[child[q].slot] = slot[child[q].slot]
        BY <1>1, <1>5, <3>1 DEF Working
      <3> QED
        BY <1>1, <3>1, <3>2 DEF Working, Decodes
    <2> QED
      BY <1>1, <2>1, <2>2 DEF Workers
  <1>16. Unread'
    <2>1. ASSUME NEW i \in DOMAIN lines
          PROVE  Pending(i)'
      <3>1. PICK q \in DOMAIN child : q = lines[i].proc /\ q # 0
        BY <1>0, Facts
      <3>2. Pending(i)
        BY <1>0 DEF Unread
      <3>3. child[q].slot \in Slots
        BY <1>0, Facts DEF Worker
      <3>4. slot'[child[q].slot].proc = q => slot'[child[q].slot] = slot[child[q].slot]
        BY <1>5, <3>1, <3>3 DEF NoSlot
      <3> QED
        BY <1>1, <3>1, <3>2, <3>4 DEF Pending
    <2> QED
      BY <1>1, <2>1 DEF Unread
  <1>17. Told'
    <2>1. ASSUME NEW k \in pending, NEW v \in {"yes", "no"}, Recorded(k, v)
          PROVE  Recorded(k, v)'
      <3>1. \A s \in Slots : slot[s].job = k => slot'[s] = slot[s]
        <4>1. k # 0
          BY <1>0, Facts DEF TypeOK
        <4> QED
          BY <1>1, <1>5, <4>1
      <3> QED
        BY <1>1, <2>1, <3>1 DEF Recorded
    <2> QED
      BY <1>0, <1>1, <2>1 DEF Told
  <1>18. VerdictsRight' /\ CacheSound'
    BY <1>0, <1>1 DEF VerdictsRight, CacheSound
  <1>19. Led'
    BY <1>0, <1>1, <1>10 DEF Led, Followed
  <1>20. Placed'
    <2>1. ASSUME NEW k \in pending,
                 \/ tries[k] = Tries \/ \E s \in Slots : slot[s].job = k
                 \/ \E i \in DOMAIN todo : todo[i] = k
          PROVE  \/ tries'[k] = Tries \/ \E s \in Slots : slot'[s].job = k
                 \/ \E i \in DOMAIN todo' : todo'[i] = k
      <3>1. CASE k = j
        <4>1. CASE n < Tries
          BY <1>3, <1>6, <3>1, <4>1
        <4>2. CASE ~(n < Tries)
          BY <1>7, <3>1, <4>2, PoolAssumption
        <4> QED
          BY <4>1, <4>2
      <3>2. CASE tries[k] = Tries /\ k # j
        BY <1>0, <1>7, <3>2 DEF TypeOK
      <3>3. CASE \E s \in Slots : slot[s].job = k
        BY <1>5, <3>3
      <3>4. CASE \E i \in DOMAIN todo : todo[i] = k /\ k # j
        <4>1. CASE n < Tries
          BY <1>6, <3>4, <4>1
        <4>2. CASE ~(n < Tries)
          BY <1>8, <3>4, <4>2
        <4> QED
          BY <4>1, <4>2
      <3> QED
        BY <2>1, <3>1, <3>2, <3>3, <3>4
    <2> QED
      BY <1>0, <1>1, <2>1 DEF Placed
  <1> QED
    BY <1>11, <1>12, <1>13, <1>14, <1>15, <1>16, <1>17, <1>18, <1>19, <1>20 DEF Inv

(* The loop is over: the processes are stopped. *)
LEMMA LeaveKeeps == Inv /\ Leave => Inv'
  <1> SUFFICES ASSUME Inv, Leave
               PROVE  Inv'
    OBVIOUS
  <1>0. TypeOK /\ Turn /\ InLine /\ UnderWay /\ Workers /\ Unread /\ Told /\ VerdictsRight
        /\ CacheSound /\ Led /\ Placed
    BY DEF Inv
  <1>1. /\ pc = "get" /\ pc' = "finish" /\ child' = <<>> /\ lines' = <<>>
        /\ slot' = [s \in Slots |-> NoSlot]
        /\ UNCHANGED <<nature, decoder, frame, cache, results, pending, todo, tries,
                       said, expired, uncopied, skip, stopped, fatal, at>>
    BY DEF Leave, world, history
  <1>2. \A s \in Slots : slot[s].job = 0 /\ slot'[s] = NoSlot /\ NoSlot.job = 0 /\ NoSlot.proc = 0
    BY <1>1 DEF Leave, LoopOver, Busy, NoSlot
  <1>3. ~stopped => todo = <<>>
    BY DEF Leave, LoopOver
  <1>4. child' \in Seq(Worker) /\ Len(child') = 0 /\ DOMAIN child' = {} /\ DOMAIN lines' = {}
        /\ lines' \in Seq([proc : DOMAIN child', text : Texts])
    BY <1>1
  <1>5. TypeOK'
    <2>1. NoSlot \in [proc : 0 .. Len(child'), job : Jobs \cup {0}]
      BY <1>4 DEF NoSlot
    <2>2. slot' \in [Slots -> [proc : 0 .. Len(child'), job : Jobs \cup {0}]]
      BY <1>1, <2>1
    <2>3. child' \in Seq([state : {"starting", "idle", "opened", "writing", "dead"}, job : Jobs \cup {0},
                          slot : Slots])
      BY <1>4 DEF Worker, States
    <2>4. lines' \in Seq([proc : DOMAIN child', text : {"START", "OK", "NO", "FATAL"}])
      BY <1>4 DEF Texts
    <2>5. pc' \in {"check", "hand", "get", "finish", "done"}
      BY <1>1
    <2>6. UNCHANGED <<nature, decoder, frame, cache, results, pending, todo, tries, skip, stopped,
                      fatal, at>>
      BY <1>1
    <2> HIDE <1>1
    <2> QED
      BY <1>0, <2>2, <2>3, <2>4, <2>5, <2>6 DEF TypeOK
  <1>6. Turn'
    BY <1>0, <1>1, <1>2, <1>3 DEF Turn
  <1>7. InLine'
    <2>1. ASSUME NEW i \in DOMAIN todo
          PROVE  Waiting(todo[i])'
      <3>1. PICK k \in Jobs : k = todo[i] /\ Waiting(k)
        BY <1>0, Facts DEF InLine
      <3>2. \A s \in Slots : slot'[s].job # k
        BY <1>0, <1>2, Facts
      <3> QED
        BY <1>1, <3>1, <3>2 DEF Waiting
    <2> QED
      BY <1>0, <1>1, <2>1 DEF InLine
  <1>8. UnderWay' /\ Workers' /\ Unread'
    BY <1>2, <1>4 DEF UnderWay, Workers, Unread
  <1>9. Told'
    <2>1. ASSUME NEW k \in pending, NEW v \in {"yes", "no"}, Recorded(k, v)
          PROVE  Recorded(k, v)'
      <3>1. k # 0
        BY <1>0, Facts DEF TypeOK
      <3> QED
        BY <1>1, <1>2, <2>1, <3>1 DEF Recorded
    <2> QED
      BY <1>0, <1>1, <2>1 DEF Told
  <1>10. VerdictsRight' /\ CacheSound'
    BY <1>0, <1>1 DEF VerdictsRight, CacheSound
  <1>11. Led'
    BY <1>0, <1>1 DEF Led, Followed
  <1>12. Placed'
    <2>1. \A k \in pending : k # 0
      BY <1>0, Facts DEF TypeOK
    <2> QED
      BY <1>0, <1>1, <1>2, <2>1 DEF Placed
  <1> QED
    BY <1>5, <1>6, <1>7, <1>8, <1>9, <1>10, <1>11, <1>12 DEF Inv
-----------------------------------------------------------------------------
(* The followers of a job get its verdict, and new frames go into the cache. *)
LEMMA FinishKeeps == Inv /\ Finish => Inv'
  <1> SUFFICES ASSUME Inv, Finish
               PROVE  Inv'
    OBVIOUS
  <1>0. TypeOK /\ Turn /\ InLine /\ UnderWay /\ Workers /\ Unread /\ Told /\ VerdictsRight
        /\ CacheSound /\ Led /\ Placed
    BY DEF Inv
  <1>1. /\ pc = "finish" /\ pc' = "done"
        /\ UNCHANGED <<nature, decoder, skip, pending, todo, tries, stopped, fatal, slot, at, child,
                       lines, said, expired>>
    BY DEF Finish, world
  <1> DEFINE F == {j \in Jobs : \E k \in pending : Follows(j, k)}
             LeaderOf(j) == CHOOSE k \in pending : Follows(j, k)
             new == {Content[j] : j \in {j \in pending \cap Hashed : Cacheable(j)}}
  <1>2. PICK copied \in SUBSET F, stored \in SUBSET new :
          /\ cache' = cache \cup stored
          /\ results' = [j \in Jobs |-> IF j \in F THEN Verdict(LeaderOf(j), j \in copied)
                                        ELSE results[j]]
          /\ frame' = [j \in Jobs |-> IF j \in copied /\ results[LeaderOf(j)] = "yes" THEN "whole"
                                      ELSE frame[j]]
          /\ uncopied' = F \ copied
    BY DEF Finish
  <1>3. \A j \in F : LeaderOf(j) \in pending /\ Follows(j, LeaderOf(j))
    OBVIOUS
  <1>4. \A j \in Jobs \ F : results'[j] = results[j] /\ frame'[j] = frame[j]
    BY <1>2
  <1>5. ASSUME NEW j \in F
        PROVE  \E k \in pending :
                 /\ Follows(j, k)
                 /\ results'[j] = Verdict(k, j \in copied)
                 /\ frame'[j] = IF j \in copied /\ results[k] = "yes" THEN "whole" ELSE frame[j]
    <2>1. PICK k \in pending : k = LeaderOf(j) /\ Follows(j, k)
      BY <1>3
    <2>2. j \in Jobs
      OBVIOUS
    <2>3. results'[j] = Verdict(k, j \in copied)
      BY <1>2, <2>1, <2>2
    <2>4. frame'[j] = IF j \in copied /\ results[k] = "yes" THEN "whole" ELSE frame[j]
      BY <1>2, <2>1, <2>2
    <2> QED
      BY <2>1, <2>3, <2>4
  <1>6. \A j \in pending : j \in Jobs \ F
    BY <1>0 DEF TypeOK, Follows
  <1>7. \A c \in stored : \E j \in pending : c = Content[j] /\ results[j] = "yes"
    BY DEF Cacheable
  <1>8. /\ results' \in [Jobs -> {"yes", "no", "absent"}] /\ frame' \in [Jobs -> {"none", "torn", "whole"}]
        /\ cache' \subseteq Contents
    <2>1. \A k \in pending, c \in BOOLEAN : Verdict(k, c) \in {"yes", "no", "absent"}
      BY DEF Verdict
    <2>2. \A j \in Jobs : results[j] \in {"yes", "no", "absent"} /\ frame[j] \in {"none", "torn", "whole"}
      BY <1>0 DEF TypeOK
    <2>3. ASSUME NEW j \in Jobs
          PROVE  (IF j \in F THEN Verdict(LeaderOf(j), j \in copied) ELSE results[j])
                   \in {"yes", "no", "absent"}
      <3>1. CASE j \in F
        <4>1. LeaderOf(j) \in pending /\ (j \in copied) \in BOOLEAN
          BY <1>3, <3>1
        <4>2. Verdict(LeaderOf(j), j \in copied) \in {"yes", "no", "absent"}
          BY <2>1, <4>1
        <4> QED
          BY <3>1, <4>2
      <3>2. CASE j \notin F
        BY <2>2, <3>2
      <3> QED
        BY <3>1, <3>2
    <2>4. results' \in [Jobs -> {"yes", "no", "absent"}]
      <3> HIDE DEF F, LeaderOf
      <3> QED
        BY <1>2, <2>3
    <2>5. frame' \in [Jobs -> {"none", "torn", "whole"}]
      <3> HIDE DEF F, LeaderOf
      <3> QED
        BY <1>2, <2>2
    <2>6. \A j \in pending : Content[j] \in Contents
      BY <1>6, PoolAssumption
    <2>7. cache' \subseteq Contents
      <3>1. cache \subseteq Contents
        BY <1>0 DEF TypeOK
      <3>2. cache' = cache \cup stored
        BY <1>2
      <3> HIDE DEF new
      <3> QED
        BY <1>7, <2>6, <3>1, <3>2
    <2> QED
      BY <2>4, <2>5, <2>7
  <1> HIDE DEF F, LeaderOf, new
  <1>9. TypeOK'
    BY <1>0, <1>1, <1>8 DEF TypeOK
  <1>10. Turn'
    BY <1>0, <1>1 DEF Turn
  <1>11. InLine'
    <2>1. ASSUME NEW i \in DOMAIN todo
          PROVE  Waiting(todo[i])'
      <3>1. PICK k \in pending : k = todo[i] /\ Waiting(k)
        BY <1>0 DEF InLine, Waiting
      <3>2. results'[k] = results[k]
        BY <1>4, <1>6
      <3> QED
        BY <1>1, <3>1, <3>2 DEF Waiting
    <2> QED
      BY <1>0, <1>1, <2>1 DEF InLine
  <1>12. UnderWay' /\ Workers' /\ Unread'
    <2>1. DOMAIN child = {} /\ DOMAIN lines = {} /\ \A s \in Slots : slot[s].job = 0 /\ slot[s].proc = 0
      BY <1>0, <1>1 DEF Turn, NoSlot
    <2> QED
      BY <1>1, <2>1 DEF UnderWay, Workers, Unread
  <1>13. Told'
    <2>1. ASSUME NEW k \in pending, NEW v \in {"yes", "no"}, Recorded(k, v)
          PROVE  Recorded(k, v)'
      <3>1. results'[k] = results[k]
        BY <1>4, <1>6
      <3> QED
        BY <1>1, <2>1, <3>1 DEF Recorded
    <2>2. \A k \in pending : frame'[k] = frame[k]
      BY <1>4, <1>6
    <2> QED
      BY <1>0, <1>1, <2>1, <2>2 DEF Told
  <1>14. VerdictsRight'
    <2>1. ASSUME NEW j \in Jobs
          PROVE  /\ results'[j] = "yes" => frame'[j] = "whole" /\ nature[Content[j]] = "decodes"
                 /\ results'[j] = "no" =>
                      \/ j \in uncopied'
                      \/ \E k \in Jobs : SameBytes(j, k) /\ (<<k, "no">> \in said \/ k \in expired)
      <3>1. CASE j \notin F
        <4>1. uncopied = {}
          BY <1>0, <1>1 DEF Turn
        <4> QED
          BY <1>0, <1>4, <3>1, <4>1 DEF VerdictsRight
      <3>2. CASE j \in F
        <4>1. PICK k \in pending :
                /\ Follows(j, k)
                /\ results'[j] = Verdict(k, j \in copied)
                /\ frame'[j] = IF j \in copied /\ results[k] = "yes" THEN "whole" ELSE frame[j]
          BY <1>5, <3>2
        <4>2. k \in Jobs /\ k \in Hashed /\ j \in Hashed /\ Content[j] = Content[k]
          BY <1>6, <4>1 DEF Follows
        <4>3. CASE results'[j] = "yes"
          <5>1. results[k] = "yes" /\ j \in copied
            BY <4>1, <4>3 DEF Verdict
          <5> QED
            BY <1>0, <4>1, <4>2, <4>3, <5>1 DEF VerdictsRight
        <4>4. CASE results'[j] = "no"
          <5>1. CASE j \notin copied
            <6>1. uncopied' = F \ copied
              BY <1>2
            <6> QED
              BY <3>2, <4>4, <5>1, <6>1
          <5>2. CASE j \in copied
            <6>1. results[k] = "no"
              <7>1. results[k] \in {"yes", "no", "absent"}
                BY <1>0, <4>2 DEF TypeOK
              <7> QED
                BY <4>1, <4>4, <5>2, <7>1 DEF Verdict
            <6>2. uncopied = {}
              BY <1>0, <1>1 DEF Turn
            <6>3. PICK i \in Jobs : SameBytes(k, i) /\ (<<i, "no">> \in said \/ i \in expired)
              BY <1>0, <4>2, <6>1, <6>2 DEF VerdictsRight
            <6>4. SameBytes(j, i)
              BY <4>2, <6>3 DEF SameBytes
            <6> QED
              BY <4>4, <6>3, <6>4
          <5> QED
            BY <5>1, <5>2
        <4> QED
          BY <4>3, <4>4
      <3> QED
        BY <3>1, <3>2
    <2> QED
      BY <1>1, <2>1 DEF VerdictsRight
  <1>15. CacheSound'
    <2>1. \A c \in stored : nature[c] = "decodes"
      BY <1>0, <1>6, <1>7 DEF VerdictsRight
    <2> QED
      BY <1>0, <1>1, <1>2, <2>1 DEF CacheSound
  <1>16. Led'
    <2>1. ASSUME NEW j \in Jobs \ pending
          PROVE  Followed(j)'
      <3>1. CASE j \in F
        <4>1. PICK k \in pending : Follows(j, k) /\ results'[j] = Verdict(k, j \in copied)
          BY <1>5, <3>1
        <4>2. results'[k] = results[k]
          BY <1>4, <1>6
        <4>3. results'[j] = "absent" => results[k] = "absent"
          BY <4>1 DEF Verdict
        <4> QED
          BY <1>1, <4>1, <4>2, <4>3 DEF Followed, Follows
      <3>2. CASE j \notin F
        <4>1. results[j] # "absent"
          <5>1. SUFFICES ASSUME results[j] = "absent"
                         PROVE  FALSE
            OBVIOUS
          <5>2. PICK k \in pending : j # k /\ {j, k} \subseteq Hashed /\ Content[j] = Content[k]
            BY <1>0, <5>1 DEF Led, Followed
          <5>3. Follows(j, k)
            BY <5>1, <5>2 DEF Follows
          <5> QED
            BY <3>2, <5>3 DEF F
        <4> QED
          BY <1>4, <3>2, <4>1 DEF Followed
      <3> QED
        BY <3>1, <3>2
    <2> QED
      BY <1>1, <2>1 DEF Led
  <1>17. Placed'
    <2>1. \A k \in pending : results'[k] = results[k]
      BY <1>4, <1>6
    <2> QED
      BY <1>0, <1>1, <2>1 DEF Placed
  <1> QED
    BY <1>9, <1>10, <1>11, <1>12, <1>13, <1>14, <1>15, <1>16, <1>17 DEF Inv
-----------------------------------------------------------------------------
(* What the steps of a process p have in common: it becomes w, and may say t ("-":
   nothing), which may end its job. *)
Said(p, w, t) ==
  /\ t = "-" => lines' = lines
  /\ t # "-" => lines' = Append(lines, [proc |-> p, text |-> t])
  /\ t \in {"OK", "NO"} => child[p].job # 0 /\ w.job = 0 /\ said' = said \cup {<<child[p].job, Outcome(t)>>}
  /\ t \notin {"OK", "NO"} => said' = said
  /\ t = "FATAL" => w.state = "dead" /\ child[p].state = "starting"

Became(p, w) ==
  /\ child' = [child EXCEPT ![p] = w]
  /\ w.slot = child[p].slot /\ w.job \in {child[p].job, 0}
  /\ w.state # "starting" /\ child[p].state # "dead"
  /\ w.state = "dead" => w.job = 0
  /\ w.state \in {"opened", "writing"} => w.job # 0
  /\ w.state = "writing" => Decodes(w.job)

Drew(p, t) ==
  /\ frame' \in [Jobs -> {"none", "torn", "whole"}]
  /\ \A k \in Jobs : k # child[p].job => frame'[k] = frame[k]
  /\ t = "OK" => frame'[child[p].job] = "whole" /\ nature[Content[child[p].job]] = "decodes"

LEMMA MovedKeeps ==
  ASSUME Inv, UNCHANGED unmoved, UNCHANGED <<expired, uncopied>>,
         NEW p \in DOMAIN child, NEW w \in Worker, NEW t \in Texts \cup {"-"},
         Became(p, w), Said(p, w, t), Drew(p, t)
  PROVE  Inv'
  <1>0. TypeOK /\ Turn /\ InLine /\ UnderWay /\ Workers /\ Unread /\ Told /\ VerdictsRight
        /\ CacheSound /\ Led /\ Placed
    BY DEF Inv
  <1>1. UNCHANGED <<nature, decoder, skip, cache, results, pending, todo, tries, stopped, fatal, slot,
                    pc, at, expired, uncopied>>
    BY DEF unmoved, world
  <1>2. /\ child' \in Seq(Worker) /\ Len(child') = Len(child) /\ DOMAIN child' = DOMAIN child
        /\ child'[p] = w /\ \A q \in DOMAIN child : q # p => child'[q] = child[q]
        /\ \A q \in DOMAIN child : child'[q].slot = child[q].slot
    <2>1. /\ child' \in Seq(Worker) /\ Len(child') = Len(child) /\ DOMAIN child' = DOMAIN child
          /\ child'[p] = w /\ \A q \in DOMAIN child : q # p => child'[q] = child[q]
      BY <1>0, Changed DEF Became
    <2> QED
      BY <2>1 DEF Became
  <1>3. PICK j \in Jobs \cup {0}, s \in Slots : j = child[p].job /\ s = child[p].slot
    BY <1>0, Facts DEF Worker
  <1>4. j # 0 => /\ slot[s] = [proc |-> p, job |-> j] /\ j \in pending /\ results[j] = "absent"
                 /\ \A v \in {"yes", "no"} : <<j, v>> \notin said
    BY <1>0, <1>3 DEF Workers, Working, UnderWay
  <1>5. PICK l \in [proc : DOMAIN child, text : Texts \cup {"-"}] : l = [proc |-> p, text |-> t]
    OBVIOUS
  <1>6. /\ lines' \in Seq([proc : DOMAIN child, text : Texts])
        /\ DOMAIN lines \subseteq DOMAIN lines'
        /\ \A i \in DOMAIN lines : lines'[i] = lines[i]
        /\ \A i \in DOMAIN lines' : i \in DOMAIN lines \/ (t # "-" /\ lines'[i] = l)
        /\ \A i, k \in DOMAIN lines' : i \in DOMAIN lines \/ k \in DOMAIN lines \/ i = k
        /\ t # "-" => \E i \in DOMAIN lines' : lines'[i] = l
    <2>1. lines \in Seq([proc : DOMAIN child, text : Texts])
      BY <1>0, Facts
    <2>2. CASE t = "-"
      BY <2>1, <2>2 DEF Said
    <2>3. CASE t # "-"
      <3>1. l \in [proc : DOMAIN child, text : Texts] /\ lines' = Append(lines, l)
        BY <1>5, <2>3 DEF Said
      <3>2. PICK n : n = Len(lines)
        OBVIOUS
      <3>3. /\ lines' \in Seq([proc : DOMAIN child, text : Texts])
            /\ n \in Nat /\ DOMAIN lines = 1 .. n /\ DOMAIN lines' = 1 .. n + 1
            /\ \A i \in DOMAIN lines : lines'[i] = lines[i]
            /\ lines'[n + 1] = l
        BY <2>1, <3>1, <3>2, Appended
      <3>4. \A i \in 1 .. n + 1 : i \in 1 .. n \/ i = n + 1
        BY <3>3
      <3> QED
        BY <2>3, <3>3, <3>4
    <2> QED
      BY <2>2, <2>3
  <1>7. /\ said \subseteq said'
        /\ \A k, v : <<k, v>> \in said' => <<k, v>> \in said \/ (k = j /\ v = Outcome(t) /\ t \in {"OK", "NO"})
    <2>1. CASE t \in {"OK", "NO"}
      BY <1>3, <2>1 DEF Said
    <2>2. CASE t \notin {"OK", "NO"}
      BY <2>2 DEF Said
    <2> QED
      BY <2>1, <2>2
  <1>8. t \in {"OK", "NO"} => j # 0 /\ w.job = 0
    BY <1>3 DEF Said
  <1>9. TypeOK'
    <2>1. child' \in Seq([state : {"starting", "idle", "opened", "writing", "dead"}, job : Jobs \cup {0},
                          slot : Slots])
      BY <1>2 DEF Worker, States
    <2>2. lines' \in Seq([proc : DOMAIN child', text : {"START", "OK", "NO", "FATAL"}])
      BY <1>2, <1>6 DEF Texts
    <2>3. slot' \in [Slots -> [proc : 0 .. Len(child'), job : Jobs \cup {0}]]
      BY <1>0, <1>1, <1>2 DEF TypeOK
    <2>4. frame' \in [Jobs -> {"none", "torn", "whole"}]
      BY DEF Drew
    <2> QED
      BY <1>0, <1>1, <2>1, <2>2, <2>3, <2>4 DEF TypeOK
  <1>10. Turn'
    <2>1. child # <<>>
      OBVIOUS
    <2> QED
      BY <1>0, <1>1, <2>1 DEF Turn
  <1>11. InLine'
    <2>1. ASSUME NEW i \in DOMAIN todo
          PROVE  Waiting(todo[i])'
      <3>1. PICK k \in Jobs : k = todo[i] /\ Waiting(k)
        BY <1>0, Facts DEF InLine
      <3>2. k # j
        <4>1. k # 0 /\ slot[s].job # k
          BY <1>0, <3>1, Facts DEF Waiting
        <4> QED
          BY <1>4, <4>1
      <3>3. \A v \in {"yes", "no"} : <<k, v>> \notin said'
        BY <1>7, <3>1, <3>2 DEF Waiting
      <3> QED
        BY <1>1, <3>1, <3>3 DEF Waiting
    <2> QED
      BY <1>0, <1>1, <2>1 DEF InLine
  <1>12. UnderWay'
    BY <1>0, <1>1 DEF UnderWay
  <1>13. Workers'
    <2>1. \A r \in Slots : slot[r].proc # 0 => child'[slot[r].proc].slot = r
      BY <1>0, <1>2, Facts DEF Workers
    <2>2. ASSUME NEW q \in DOMAIN child
          PROVE  Working(q)'
      <3>0. Working(q)
        BY <1>0 DEF Workers
      <3>1. CASE q = p
        <4>1. w.job # 0 => w.job = j /\ w.slot = s /\ slot[s] = [proc |-> p, job |-> j]
                           /\ \A v \in {"yes", "no"} : <<j, v>> \notin said'
          BY <1>3, <1>4, <1>7, <1>8 DEF Became
        <4> QED
          BY <1>1, <1>2, <3>1, <4>1 DEF Working, Became, Decodes
      <3>2. CASE q # p
        <4>1. child'[q] = child[q]
          BY <1>2, <3>2
        <4>2. child[q].job # 0 => child[q].job # j
          <5>1. child[q].slot \in Slots
            BY <1>0, Facts DEF Worker
          <5>2. ASSUME child[q].job # 0, child[q].job = j
                PROVE  FALSE
            <6>1. slot[child[q].slot] = [proc |-> q, job |-> j]
              BY <3>0, <5>2 DEF Working
            <6>2. child[q].slot = s
              BY <1>0, <1>4, <5>1, <5>2, <6>1 DEF UnderWay
            <6> QED
              BY <1>4, <3>2, <5>2, <6>1, <6>2
          <5> QED
            BY <5>2
        <4>3. child[q].job # 0 => \A v \in {"yes", "no"} : <<child[q].job, v>> \notin said'
          BY <1>7, <3>0, <4>2 DEF Working
        <4> QED
          BY <1>1, <3>0, <4>1, <4>3 DEF Working, Decodes
      <3> QED
        BY <3>1, <3>2
    <2> QED
      BY <1>1, <1>2, <2>1, <2>2 DEF Workers
  <1>14. Unread'
    <2>1. \A i \in DOMAIN lines : lines[i].proc = p /\ AnEnd(lines[i].text) /\ slot[s].proc = p =>
            /\ child[p].job = 0 /\ child[p].state # "starting" /\ lines[i].text # "FATAL"
            /\ ~AnEnd(t)
      <3> SUFFICES ASSUME NEW i \in DOMAIN lines, lines[i].proc = p, AnEnd(lines[i].text), slot[s].proc = p
                   PROVE  /\ child[p].job = 0 /\ child[p].state # "starting" /\ lines[i].text # "FATAL"
                          /\ ~AnEnd(t)
        OBVIOUS
      <3>1. Pending(i)
        BY <1>0 DEF Unread
      <3>2. child[p].job = 0 /\ child[p].state # "starting" /\ lines[i].text # "FATAL"
        BY <1>3, <3>1 DEF Pending, Became
      <3> QED
        BY <3>2 DEF Said, AnEnd
    <2>2. ASSUME NEW i \in DOMAIN lines
          PROVE  Pending(i)'
      <3>1. PICK q \in DOMAIN child : q = lines[i].proc /\ q = lines'[i].proc
        BY <1>0, <1>6, Facts
      <3>2. Pending(i) /\ lines'[i] = lines[i]
        BY <1>0, <1>6 DEF Unread
      <3>3. PICK r \in Slots : r = child[q].slot /\ r = child'[q].slot
        BY <1>0, <1>2, Facts DEF Worker
      <3>4. CASE ~(AnEnd(lines[i].text) /\ slot[r].proc = q)
        BY <1>1, <3>1, <3>2, <3>3, <3>4 DEF Pending
      <3>5. CASE AnEnd(lines[i].text) /\ slot[r].proc = q
        <4>1. /\ child[q].job = 0 /\ child[q].state # "starting"
              /\ lines[i].text = "FATAL" => child[q].state = "dead"
              /\ lines[i].text # "FATAL" =>
                   slot[r].job # 0 /\ <<slot[r].job, Outcome(lines[i].text)>> \in said
              /\ \A k \in DOMAIN lines : lines[k].proc = q /\ AnEnd(lines[k].text) => k = i
          BY <3>1, <3>2, <3>3, <3>5 DEF Pending
        <4>2. child'[q].job = 0 /\ child'[q].state # "starting"
              /\ (lines[i].text = "FATAL" => child'[q].state = "dead")
          <5>1. CASE q = p
            <6>1. s = r /\ child'[q] = w
              BY <1>2, <1>3, <3>3, <5>1
            <6>2. lines[i].text # "FATAL"
              BY <2>1, <3>1, <3>5, <5>1, <6>1
            <6>3. w.job = 0 /\ w.state # "starting"
              BY <4>1, <5>1 DEF Became
            <6> QED
              BY <6>1, <6>2, <6>3
          <5>2. CASE q # p
            BY <1>2, <4>1, <5>2
          <5> QED
            BY <5>1, <5>2
        <4>3. ASSUME NEW k \in DOMAIN lines', lines'[k].proc = q, AnEnd(lines'[k].text)
              PROVE  k = i
          <5>1. CASE k \in DOMAIN lines
            BY <1>6, <4>1, <4>3, <5>1
          <5>2. CASE k \notin DOMAIN lines
            <6>1. q = p /\ AnEnd(t)
              BY <1>5, <1>6, <4>3, <5>2
            <6> QED
              BY <1>3, <2>1, <3>1, <3>3, <3>5, <6>1
          <5> QED
            BY <5>1, <5>2
        <4> QED
          BY <1>1, <1>7, <3>1, <3>2, <3>3, <4>1, <4>2, <4>3 DEF Pending
      <3> QED
        BY <3>4, <3>5
    <2>3. ASSUME NEW i \in DOMAIN lines', i \notin DOMAIN lines
          PROVE  Pending(i)'
      <3>1. t # "-" /\ lines'[i].proc = p /\ lines'[i].text = t
        BY <1>5, <1>6, <2>3
      <3>2. child'[p] = w /\ w.slot = s
        BY <1>2, <1>3 DEF Became
      <3>3. CASE ~(AnEnd(t) /\ slot[s].proc = p)
        BY <1>1, <3>1, <3>2, <3>3 DEF Pending
      <3>4. CASE AnEnd(t) /\ slot[s].proc = p
        <4>1. w.job = 0 /\ w.state # "starting" /\ (t = "FATAL" => w.state = "dead")
          BY <3>4 DEF AnEnd, Said, Became
        <4>2. t # "FATAL" => slot[s].job # 0 /\ <<slot[s].job, Outcome(t)>> \in said'
          BY <1>3, <1>4, <1>8, <3>4 DEF AnEnd, Said
        <4>3. \A k \in DOMAIN lines' : lines'[k].proc = p /\ AnEnd(lines'[k].text) => k = i
          BY <1>6, <2>1, <2>3, <3>4
        <4> QED
          BY <1>1, <3>1, <3>2, <4>1, <4>2, <4>3 DEF Pending
      <3> QED
        BY <3>3, <3>4
    <2> QED
      BY <2>2, <2>3 DEF Unread
  <1>15. Told'
    <2>1. said' \subseteq pending \X {"yes", "no"}
      <3>1. CASE t \in {"OK", "NO"}
        <4>1. j \in pending /\ Outcome(t) \in {"yes", "no"}
          BY <1>4, <1>8, <3>1 DEF Outcome
        <4> QED
          BY <1>0, <1>3, <3>1, <4>1 DEF Told, Said
      <3>2. CASE t \notin {"OK", "NO"}
        BY <1>0, <3>2 DEF Told, Said
      <3> QED
        BY <3>1, <3>2
    <2>2. ASSUME NEW k \in pending, NEW v \in {"yes", "no"}, <<k, v>> \in said
          PROVE  /\ v = "yes" => frame'[k] = "whole" /\ nature[Content[k]] = "decodes"
                 /\ Recorded(k, v)'
      <3>1. k # j /\ k \in Jobs
        <4>1. k \in Jobs /\ k # 0
          BY <1>0, Facts, SMTT(30) DEF TypeOK
        <4>2. CASE j = 0
          BY <4>1, <4>2
        <4>3. CASE j # 0
          BY <1>4, <2>2, <4>1, <4>3
        <4> QED
          BY <4>2, <4>3
      <3>2. frame'[k] = frame[k]
        BY <1>3, <3>1 DEF Drew
      <3>3. Recorded(k, v)'
        <4>1. Recorded(k, v)
          BY <1>0, <2>2 DEF Told
        <4> QED
          BY <1>1, <1>6, <4>1 DEF Recorded
      <3> QED
        BY <1>0, <2>2, <3>2, <3>3 DEF Told
    <2>3. ASSUME NEW k \in pending, NEW v \in {"yes", "no"}, <<k, v>> \in said', <<k, v>> \notin said
          PROVE  /\ v = "yes" => frame'[k] = "whole" /\ nature[Content[k]] = "decodes"
                 /\ Recorded(k, v)'
      <3>1. k = j /\ v = Outcome(t) /\ t \in {"OK", "NO"} /\ j # 0
        BY <1>7, <1>8, <2>3
      <3>2. v = "yes" => t = "OK"
        BY <3>1 DEF Outcome
      <3>3. slot[s].job = k /\ slot[s].proc = p
        BY <1>4, <3>1
      <3>4. PICK i \in DOMAIN lines' : lines'[i].proc = p /\ lines'[i].text = t
        BY <1>5, <1>6, <3>1
      <3>5. t = IF v = "yes" THEN "OK" ELSE "NO"
        BY <3>1 DEF Outcome
      <3>6. Recorded(k, v)'
        BY <1>1, <3>3, <3>4, <3>5 DEF Recorded
      <3> QED
        BY <1>3, <3>1, <3>2, <3>6 DEF Drew
    <2> QED
      BY <1>1, <2>1, <2>2, <2>3 DEF Told
  <1>16. VerdictsRight'
    <2>1. ASSUME NEW k \in Jobs, results[k] = "yes"
          PROVE  frame'[k] = "whole"
      <3>1. k # child[p].job
        <4>1. k # 0
          BY <1>0, Facts
        <4> QED
          BY <1>3, <1>4, <2>1, <4>1
      <3> QED
        BY <1>0, <2>1, <3>1 DEF Drew, VerdictsRight
    <2> QED
      BY <1>0, <1>1, <1>7, <2>1 DEF VerdictsRight
  <1>17. CacheSound'
    BY <1>0, <1>1 DEF CacheSound
  <1>18. Led'
    BY <1>0, <1>1 DEF Led, Followed
  <1>19. Placed'
    BY <1>0, <1>1 DEF Placed
  <1> QED
    BY <1>9, <1>10, <1>11, <1>12, <1>13, <1>14, <1>15, <1>16, <1>17, <1>18, <1>19 DEF Inv
-----------------------------------------------------------------------------
LEMMA ChildFields ==
  ASSUME TypeOK, NEW p \in DOMAIN child
  PROVE  /\ child[p] \in Worker /\ child[p].state \in States /\ child[p].slot \in Slots
         /\ child[p].job \in Jobs \cup {0}
         /\ frame \in [Jobs -> {"none", "torn", "whole"}]
  BY Facts DEF Worker, TypeOK

(* A process that gives up: on its own, or because the decoder cannot be imported. *)
LEMMA DeadWorker ==
  ASSUME TypeOK, NEW p \in DOMAIN child, child[p].state # "dead",
         child' = [child EXCEPT ![p] = [@ EXCEPT !.state = "dead", !.job = 0]]
  PROVE  \E w \in Worker : w.state = "dead" /\ w.job = 0 /\ Became(p, w)
  <1>1. PICK w : w = [child[p] EXCEPT !.state = "dead", !.job = 0]
    OBVIOUS
  <1>2. w \in Worker /\ w.state = "dead" /\ w.job = 0 /\ w.slot = child[p].slot
    BY <1>1, ChildFields DEF Worker, States
  <1>3. child' = [child EXCEPT ![p] = w]
    BY <1>1
  <1> QED
    BY <1>2, <1>3 DEF Became

(* A process that goes on in another state, with the job it has. *)
LEMMA OnwardWorker ==
  ASSUME TypeOK, NEW p \in DOMAIN child, child[p].state # "dead",
         NEW x \in {"idle", "opened", "writing"}, child' = [child EXCEPT ![p].state = x],
         x # "idle" => child[p].job # 0, x = "writing" => Decodes(child[p].job)
  PROVE  \E w \in Worker : w.state = x /\ w.job = child[p].job /\ Became(p, w)
  <1>1. PICK w : w = [child[p] EXCEPT !.state = x]
    OBVIOUS
  <1>2. w \in Worker /\ w.state = x /\ w.job = child[p].job /\ w.slot = child[p].slot
    BY <1>1, ChildFields DEF Worker, States
  <1>3. child' = [child EXCEPT ![p] = w]
    BY <1>1
  <1> QED
    BY <1>2, <1>3 DEF Became

LEMMA ChildKeeps ==
  ASSUME Inv, NEW p \in DOMAIN child, Child(p) \/ Die(p)
  PROVE  Inv'
  <1>0. TypeOK /\ Working(p)
    BY DEF Inv, Workers
  <1>1. UNCHANGED frame => \A t \in Texts \cup {"-"} : t # "OK" => Drew(p, t)
    BY <1>0, ChildFields DEF Drew
  <1>2. CASE Ready(p)
    <2>1. PICK w \in Worker : w.state = "idle" /\ w.job = child[p].job /\ Became(p, w)
      BY <1>0, <1>2, OnwardWorker DEF Ready
    <2>2. Said(p, w, "-") /\ Drew(p, "-")
      BY <1>1, <1>2 DEF Ready, Said, history
    <2>3. UNCHANGED unmoved /\ UNCHANGED <<expired, uncopied>>
      BY <1>2 DEF Ready, history
    <2> QED
      BY <2>1, <2>2, <2>3, MovedKeeps
  <1>3. CASE ImportFails(p)
    <2>1. PICK w \in Worker : w.state = "dead" /\ w.job = 0 /\ Became(p, w)
      BY <1>0, <1>3, DeadWorker DEF ImportFails
    <2>2. Said(p, w, "FATAL") /\ Drew(p, "FATAL")
      BY <1>1, <1>3, <2>1 DEF ImportFails, Said, Say, history, Texts
    <2>3. UNCHANGED unmoved /\ UNCHANGED <<expired, uncopied>>
      BY <1>3 DEF ImportFails, history
    <2> QED
      BY <2>1, <2>2, <2>3, MovedKeeps DEF Texts
  <1>4. CASE Open(p)
    <2>1. PICK w \in Worker : w.state = "opened" /\ w.job = child[p].job /\ Became(p, w)
      BY <1>0, <1>4, OnwardWorker DEF Open
    <2>2. Said(p, w, "START") /\ Drew(p, "START")
      BY <1>1, <1>4 DEF Open, Said, Say, Texts
    <2>3. UNCHANGED unmoved /\ UNCHANGED <<expired, uncopied>>
      BY <1>4 DEF Open
    <2> QED
      BY <2>1, <2>2, <2>3, MovedKeeps DEF Texts
  <1>5. CASE Cut(p)
    <2>1. PICK w \in Worker : w.state = "writing" /\ w.job = child[p].job /\ Became(p, w)
      <3>1. child[p].job # 0 /\ Decodes(child[p].job)
        BY <1>0, <1>5 DEF Working, Cut
      <3> QED
        BY <1>0, <1>5, <3>1, OnwardWorker DEF Cut
    <2>2. Said(p, w, "-")
      BY <1>5 DEF Cut, Said, history
    <2>3. Drew(p, "-")
      BY <1>0, <1>5, ChildFields DEF Cut, Drew
    <2>4. UNCHANGED unmoved /\ UNCHANGED <<expired, uncopied>>
      BY <1>5 DEF Cut, history
    <2> QED
      BY <2>1, <2>2, <2>3, <2>4, MovedKeeps
  <1>6. CASE Answer(p)
    <2>1. PICK j \in Jobs : j = child[p].job /\ j # 0
      BY <1>0, <1>6, ChildFields DEF Answer, Working
    <2>2. PICK t \in {"OK", "NO"} : t = IF Decodes(j) THEN "OK" ELSE "NO"
      OBVIOUS
    <2>3. /\ child' = [child EXCEPT ![p] = [@ EXCEPT !.state = "idle", !.job = 0]]
          /\ lines' = Append(lines, [proc |-> p, text |-> t])
          /\ said' = said \cup {<<j, Outcome(t)>>}
          /\ frame' = IF t = "OK" THEN [frame EXCEPT ![j] = "whole"] ELSE frame
          /\ UNCHANGED unmoved /\ UNCHANGED <<expired, uncopied>>
      BY <1>6, <2>1, <2>2 DEF Answer, Say, Outcome
    <2>4. PICK w : w = [child[p] EXCEPT !.state = "idle", !.job = 0]
      OBVIOUS
    <2>41. w \in Worker /\ w.state = "idle" /\ w.job = 0 /\ w.slot = child[p].slot
      BY <1>0, <2>4, ChildFields DEF Worker, States
    <2>5. Became(p, w)
      <3>1. child' = [child EXCEPT ![p] = w]
        BY <2>3, <2>4
      <3> QED
        BY <1>6, <2>41, <3>1 DEF Became, Answer
    <2>6. Said(p, w, t)
      BY <2>1, <2>3, <2>41 DEF Said
    <2>7. Drew(p, t)
      <3>1. t = "OK" => nature[Content[j]] = "decodes"
        BY <2>2 DEF Decodes
      <3>2. frame \in [Jobs -> {"none", "torn", "whole"}]
        BY <1>0, ChildFields
      <3> QED
        BY <2>1, <2>3, <3>1, <3>2 DEF Drew
    <2> QED
      BY <2>3, <2>41, <2>5, <2>6, <2>7, MovedKeeps DEF Texts
  <1>7. CASE Die(p)
    <2>1. PICK w \in Worker : w.state = "dead" /\ w.job = 0 /\ Became(p, w)
      BY <1>0, <1>7, DeadWorker DEF Die
    <2>2. Said(p, w, "-") /\ Drew(p, "-")
      BY <1>1, <1>7 DEF Die, Said, history
    <2>3. UNCHANGED unmoved /\ UNCHANGED <<expired, uncopied>>
      BY <1>7 DEF Die, history
    <2> QED
      BY <2>1, <2>2, <2>3, MovedKeeps
  <1> QED
    BY <1>2, <1>3, <1>4, <1>5, <1>6, <1>7 DEF Child
-----------------------------------------------------------------------------
(* What the parent makes of a line t of process q ("-": there is none), slot by slot:
   nothing, the time is up, the job's verdict, or that the process could not start. *)
Ending(s, q, t) == slot[s].job # 0 /\ slot[s].proc = q /\ AnEnd(t)

Left(s, q, t) ==
  /\ ~Ending(s, q, t) /\ slot'[s] = slot[s]
  /\ slot[s].job # 0 => results'[slot[s].job] = results[slot[s].job]

Overdue(s, q, t) ==
  /\ ~Ending(s, q, t) /\ slot[s].job # 0 /\ slot'[s] = NoSlot
  /\ results'[slot[s].job] = "no" /\ slot[s].job \in expired'
  /\ child'[slot[s].proc].job = 0

Decided(s, q, t) ==
  /\ Ending(s, q, t) /\ slot'[s] = [proc |-> q, job |-> 0]
  /\ results'[slot[s].job] = IF t = "FATAL" THEN results[slot[s].job] ELSE Outcome(t)
  /\ t = "FATAL" => stopped'

Killed(p) ==
  /\ child'[p] = [state |-> "dead", job |-> 0, slot |-> child[p].slot]
  /\ \E s \in Slots : slot[s].job # 0 /\ slot[s].proc = p /\ slot'[s] = NoSlot

LEMMA MatchEffects ==
  ASSUME TypeOK, UnderWay, NEW q, NEW t \in Texts \cup {"-"}, NEW late \in SUBSET Busy,
         NEW ls, ls = IF t = "-" THEN {} ELSE {[proc |-> q, text |-> t]}, Match(ls, late)
  PROVE  /\ pc' = "check" /\ fatal' \in BOOLEAN /\ stopped' \in BOOLEAN
         /\ (stopped => stopped') /\ expired \subseteq expired'
         /\ results' \in [Jobs -> {"yes", "no", "absent"}]
         /\ slot' \in [Slots -> [proc : 0 .. Len(child), job : Jobs \cup {0}]]
         /\ child' \in Seq(Worker) /\ Len(child') = Len(child) /\ DOMAIN child' = DOMAIN child
         /\ \A s \in Slots : Left(s, q, t) \/ Overdue(s, q, t) \/ Decided(s, q, t)
         /\ \A j \in Jobs : (\A s \in Slots : slot[s].job # j) => results'[j] = results[j]
         /\ \A p \in DOMAIN child : child'[p] = child[p] \/ Killed(p)
  <1> DEFINE heard == {s \in Busy : \E l \in Ends(ls) : For(s, l)}
             answered == {s \in Busy : \E l \in Answers(ls) : For(s, l)}
             over == TimedOut(ls, late)
             yes == {slot[s].job : s \in {s \in answered : \E l \in ls : For(s, l) /\ l.text = "OK"}}
             no == {slot[s].job : s \in answered \cup over} \ yes
  <1>1. /\ results' = [j \in Jobs |-> IF j \in yes THEN "yes" ELSE IF j \in no THEN "no" ELSE results[j]]
        /\ slot' = [s \in Slots |-> IF s \in over THEN NoSlot
                                    ELSE IF s \in heard THEN [slot[s] EXCEPT !.job = 0]
                                    ELSE slot[s]]
        /\ child' = [p \in DOMAIN child |->
                       IF p \in {slot[s].proc : s \in over}
                       THEN [child[p] EXCEPT !.state = "dead", !.job = 0] ELSE child[p]]
        /\ expired' = expired \cup {slot[s].job : s \in over}
        /\ fatal' = (fatal \/ \E s \in heard : s \notin answered)
        /\ stopped' = (stopped \/ fatal')
        /\ pc' = "check"
    BY DEF Match, Kill
  <1>2. PICK line : line = [proc |-> q, text |-> t]
    OBVIOUS
  <1>2a. line.proc = q /\ line.text = t /\ (t # "-" => ls = {line}) /\ (t = "-" => ls = {})
    BY <1>2
  <1>3. (AnEnd(t) => Ends(ls) = {line}) /\ (~AnEnd(t) => Ends(ls) = {})
    <2>1. CASE t = "-"
      BY <1>2a, <2>1 DEF Ends, Answers, AnEnd
    <2>2. CASE t # "-"
      BY <1>2a, <2>2 DEF Ends, Answers, AnEnd
    <2> QED
      BY <2>1, <2>2
  <1>4. (t \in {"OK", "NO"} => Answers(ls) = {line}) /\ (t \notin {"OK", "NO"} => Answers(ls) = {})
    <2>1. CASE t = "-"
      BY <1>2a, <2>1 DEF Answers
    <2>2. CASE t # "-"
      BY <1>2a, <2>2 DEF Answers
    <2> QED
      BY <2>1, <2>2
  <1>5. (AnEnd(t) => t # "-") /\ (t \in {"OK", "NO"} => AnEnd(t))
    BY DEF AnEnd
  <1>6. \A s : For(s, line) <=> slot[s].proc = q
    BY <1>2a DEF For
  <1>7. \A s \in Slots : s \in Busy <=> slot[s].job # 0
    BY DEF Busy
  <1>8. Busy \subseteq Slots
    BY DEF Busy
  <1>9. \A s \in Slots : s \in heard <=> Ending(s, q, t)
    <2>1. \A s \in Slots : s \in heard <=> s \in Busy /\ \E l \in Ends(ls) : For(s, l)
      OBVIOUS
    <2> HIDE DEF heard
    <2> QED
      BY <1>3, <1>6, <1>7, <2>1 DEF Ending
  <1>10. \A s \in Slots : s \in answered <=> slot[s].job # 0 /\ slot[s].proc = q /\ t \in {"OK", "NO"}
    <2>1. \A s \in Slots : s \in answered <=> s \in Busy /\ \E l \in Answers(ls) : For(s, l)
      OBVIOUS
    <2> HIDE DEF answered
    <2> QED
      BY <1>4, <1>6, <1>7, <2>1
  <1>11. /\ over \subseteq Slots
         /\ \A s \in over : slot[s].job # 0 /\ ~Ending(s, q, t)
    <2>1. \A s \in over : s \in Busy /\ \A l \in Ends(ls) : ~For(s, l)
      BY DEF TimedOut
    <2> HIDE DEF over
    <2> QED
      BY <1>3, <1>6, <1>7, <1>8, <2>1 DEF Ending
  <1>12. \A j : j \in yes <=> \E s \in answered : slot[s].job = j /\ t = "OK"
    <2>1. ASSUME NEW s \in answered
          PROVE  (\E l \in ls : For(s, l) /\ l.text = "OK") <=> t = "OK"
      <3>1. slot[s].proc = q /\ t # "-"
        BY <1>5, <1>8, <1>10
      <3> QED
        BY <1>6, <1>2a, <3>1
    <2> HIDE DEF answered
    <2> QED
      BY <2>1
  <1>13. \A j : j \in no <=> j \notin yes /\ \E s \in answered \cup over : slot[s].job = j
    OBVIOUS
  <1>14. answered \subseteq Slots
    BY <1>8
  <1> HIDE DEF heard, answered, over, yes, no
  <1>15. \A s, r \in Slots : slot[s].job # 0 /\ slot[r].job = slot[s].job => r = s
    BY DEF UnderWay
  <1>16. \A s \in Slots : slot[s].job # 0 => slot[s].job \in Jobs
    BY Facts
  <1>17. \A s \in Slots : slot[s] \in [proc : 0 .. Len(child), job : Jobs \cup {0}]
    BY Facts
  <1>18. ASSUME NEW s \in Slots
         PROVE  Left(s, q, t) \/ Overdue(s, q, t) \/ Decided(s, q, t)
    <2>1. slot'[s] = IF s \in over THEN NoSlot
                     ELSE IF s \in heard THEN [slot[s] EXCEPT !.job = 0] ELSE slot[s]
      BY <1>1
    <2>2. PICK j : j = slot[s].job
      OBVIOUS
    <2>3. j # 0 => results'[j] = IF j \in yes THEN "yes" ELSE IF j \in no THEN "no" ELSE results[j]
      BY <1>1, <1>16, <2>2
    <2>4. j # 0 => (j \in yes <=> s \in answered /\ t = "OK")
      BY <1>12, <1>14, <1>15, <2>2
    <2>5. j # 0 => (j \in no <=> j \notin yes /\ s \in answered \cup over)
      BY <1>11, <1>13, <1>14, <1>15, <2>2
    <2>6. CASE s \in over
      <3>1. j # 0 /\ ~Ending(s, q, t) /\ s \notin answered
        BY <1>5, <1>10, <1>11, <2>2, <2>6 DEF Ending
      <3>2. results'[j] = "no"
        BY <2>3, <2>4, <2>5, <2>6, <3>1
      <3>3. j \in expired'
        BY <1>1, <2>2, <2>6
      <3>4. child'[slot[s].proc].job = 0
        <4>1. PICK p \in DOMAIN child : p = slot[s].proc
          BY <2>2, <3>1, Facts DEF UnderWay
        <4>2. child'[p] = [child[p] EXCEPT !.state = "dead", !.job = 0]
          BY <1>1, <2>6, <4>1
        <4> QED
          BY <4>1, <4>2, ChildFields DEF Worker
      <3> QED
        BY <2>1, <2>2, <2>6, <3>1, <3>2, <3>3, <3>4 DEF Overdue
    <2>7. CASE s \notin over /\ s \in heard
      <3>1. Ending(s, q, t) /\ j # 0
        BY <1>9, <2>2, <2>7 DEF Ending
      <3>2. slot'[s] = [proc |-> q, job |-> 0]
        <4>1. slot'[s] = [slot[s] EXCEPT !.job = 0] /\ slot[s].proc = q
          BY <2>1, <2>7, <3>1 DEF Ending
        <4> QED
          BY <1>17, <4>1
      <3>3. CASE t = "FATAL"
        <4>1. s \notin answered
          BY <1>10, <3>3
        <4>2. results'[j] = results[j]
          BY <2>3, <2>4, <2>5, <2>7, <3>1, <4>1
        <4>3. stopped'
          BY <1>1, <2>7, <4>1
        <4> QED
          BY <2>2, <3>1, <3>2, <3>3, <4>2, <4>3 DEF Decided
      <3>4. CASE t # "FATAL"
        <4>1. t \in {"OK", "NO"} /\ s \in answered
          BY <1>10, <3>1, <3>4 DEF Ending, AnEnd
        <4>2. results'[j] = Outcome(t)
          BY <2>3, <2>4, <2>5, <3>1, <4>1 DEF Outcome
        <4> QED
          BY <2>2, <3>1, <3>2, <3>4, <4>2 DEF Decided
      <3> QED
        BY <3>3, <3>4
    <2>8. CASE s \notin over /\ s \notin heard
      <3>1. ~Ending(s, q, t)
        BY <1>9, <2>8
      <3>2. j # 0 => s \notin answered
        BY <1>5, <1>10, <3>1 DEF Ending
      <3>3. j # 0 => results'[j] = results[j]
        BY <2>3, <2>4, <2>5, <2>8, <3>2
      <3> QED
        BY <2>1, <2>2, <2>8, <3>1, <3>3 DEF Left
    <2> QED
      BY <2>6, <2>7, <2>8
  <1>19. ASSUME NEW j \in Jobs, \A s \in Slots : slot[s].job # j
         PROVE  results'[j] = results[j]
    <2>1. j \notin yes /\ j \notin no
      BY <1>11, <1>12, <1>13, <1>14, <1>19
    <2> QED
      BY <1>1, <2>1
  <1>20. results' \in [Jobs -> {"yes", "no", "absent"}]
    BY <1>1 DEF TypeOK
  <1>21. slot' \in [Slots -> [proc : 0 .. Len(child), job : Jobs \cup {0}]]
    <2>1. NoSlot \in [proc : 0 .. Len(child), job : Jobs \cup {0}]
      <3>1. Len(child) \in Nat
        BY Facts
      <3> QED
        BY <3>1 DEF NoSlot
    <2>2. \A s \in Slots : [slot[s] EXCEPT !.job = 0] \in [proc : 0 .. Len(child), job : Jobs \cup {0}]
      BY <1>17
    <2>3. \A s \in Slots : slot'[s] \in [proc : 0 .. Len(child), job : Jobs \cup {0}]
      BY <1>1, <1>17, <2>1, <2>2
    <2> QED
      BY <1>1, <2>3
  <1>22. ASSUME NEW p \in DOMAIN child
         PROVE  child'[p] = child[p] \/ Killed(p)
    <2>1. CASE p \in {slot[s].proc : s \in over}
      <3>1. PICK s \in over : slot[s].proc = p
        BY <2>1
      <3>2. child'[p] = [child[p] EXCEPT !.state = "dead", !.job = 0]
        BY <1>1, <2>1
      <3>3. child'[p] = [state |-> "dead", job |-> 0, slot |-> child[p].slot]
        BY <3>2, ChildFields DEF Worker
      <3>4. s \in Slots /\ slot[s].job # 0 /\ slot'[s] = NoSlot
        BY <1>1, <1>11
      <3> QED
        BY <3>1, <3>3, <3>4 DEF Killed
    <2>2. CASE p \notin {slot[s].proc : s \in over}
      BY <1>1, <2>2
    <2> QED
      BY <2>1, <2>2
  <1>23. child' \in Seq(Worker) /\ Len(child') = Len(child) /\ DOMAIN child' = DOMAIN child
    <2>1. PICK n \in Nat : n = Len(child) /\ DOMAIN child = 1 .. n
      BY Facts
    <2>2. DOMAIN child' = 1 .. n
      BY <1>1, <2>1
    <2>3. ASSUME NEW p \in 1 .. n
          PROVE  child'[p] \in Worker
      <3>1. p \in DOMAIN child /\ child[p] \in Worker
        BY <2>1, Facts
      <3>2. CASE child'[p] = child[p]
        BY <3>1, <3>2
      <3>3. CASE Killed(p)
        BY <3>1, <3>3 DEF Killed, Worker, States
      <3> QED
        BY <1>22, <3>1, <3>2, <3>3
    <2>4. child' = [p \in 1 .. n |-> child'[p]]
      BY <1>1, <2>1
    <2>5. child' \in [1 .. n -> Worker]
      BY <2>3, <2>4
    <2> QED
      BY <2>1, <2>5, SeqFun
  <1>24. fatal' \in BOOLEAN /\ stopped' \in BOOLEAN /\ (stopped => stopped') /\ expired \subseteq expired'
    <2>1. fatal \in BOOLEAN /\ stopped \in BOOLEAN
      BY DEF TypeOK
    <2> QED
      BY <1>1, <2>1
  <1> QED
    BY <1>1, <1>18, <1>19, <1>20, <1>21, <1>22, <1>23, <1>24
-----------------------------------------------------------------------------
(* What a slot is left with after a line is read or a time is up. *)
LEMMA SlotsAfter ==
  ASSUME TypeOK, NEW q, NEW t, NEW s \in Slots, Left(s, q, t) \/ Overdue(s, q, t) \/ Decided(s, q, t)
  PROVE  /\ slot'[s].job # 0 => Left(s, q, t) /\ slot'[s] = slot[s]
         /\ slot'[s].proc # 0 => slot'[s].proc = slot[s].proc
         /\ slot'[s].job # 0 => slot[s].job # 0 /\ results'[slot[s].job] = results[slot[s].job]
  <1>1. CASE Left(s, q, t)
    BY <1>1 DEF Left
  <1>2. CASE Overdue(s, q, t)
    <2>1. slot'[s].job = 0 /\ slot'[s].proc = 0
      BY <1>2 DEF Overdue, NoSlot
    <2> QED
      BY <2>1
  <1>3. CASE Decided(s, q, t)
    <2>1. slot'[s].job = 0 /\ slot'[s].proc = q /\ slot[s].proc = q
      BY <1>3 DEF Decided, Ending
    <2> QED
      BY <2>1
  <1> QED
    BY <1>1, <1>2, <1>3

(* Get takes the first line, if there is one, and matches it: line t of process q is
   read, and the others stay in the queue. *)
Taken(q, t, ls) ==
  /\ t \in Texts \cup {"-"}
  /\ ls = IF t = "-" THEN {} ELSE {[proc |-> q, text |-> t]}
  /\ t # "-" => 1 \in DOMAIN lines /\ lines[1].proc = q /\ lines[1].text = t
  /\ lines' \in Seq([proc : DOMAIN child, text : Texts])
  /\ \A k \in DOMAIN lines : (t # "-" /\ k = 1) \/ \E i \in DOMAIN lines' : lines'[i] = lines[k]

Was(f, t) ==
  /\ f \in [DOMAIN lines' -> DOMAIN lines]
  /\ \A i \in DOMAIN lines' : lines'[i] = lines[f[i]] /\ (t # "-" => f[i] # 1)
  /\ \A i, k \in DOMAIN lines' : f[i] = f[k] => i = k

LEMMA LineTaken ==
  ASSUME TypeOK, Get
  PROVE  \E q, t, ls, f : /\ Taken(q, t, ls) /\ Was(f, t)
                          /\ \E late \in SUBSET Busy : Match(ls, late)
  <1>1. lines \in Seq([proc : DOMAIN child, text : Texts])
    BY Facts
  <1>2. PICK late \in SUBSET Busy :
          \/ lines # <<>> /\ Match({Head(lines)}, late) /\ lines' = Tail(lines)
          \/ /\ lines = <<>> /\ (Busy = {} \/ late # {})
             /\ Match({}, late) /\ UNCHANGED lines
    BY DEF Get
  <1>3. CASE lines # <<>>
    <2>1. /\ Head(lines) = lines[1] /\ 1 \in DOMAIN lines
          /\ Tail(lines) \in Seq([proc : DOMAIN child, text : Texts])
          /\ \A i \in DOMAIN Tail(lines) :
               i \in Nat /\ i + 1 \in DOMAIN lines /\ Tail(lines)[i] = lines[i + 1]
          /\ \A i \in DOMAIN lines : i = 1 \/ \E k \in DOMAIN Tail(lines) : Tail(lines)[k] = lines[i]
      BY <1>1, <1>3, Popped
    <2>2. Match({Head(lines)}, late) /\ lines' = Tail(lines)
      BY <1>2, <1>3
    <2>0. \A i \in DOMAIN lines : lines[i] \in [proc : DOMAIN child, text : Texts]
      <3>1. DOMAIN lines = 1 .. Len(lines)
        BY <1>1, LenProperties, ZenonT(60)
      <3> QED
        BY <1>1, <3>1, ElementOfSeq, ZenonT(60)
    <2>3. PICK l \in [proc : DOMAIN child, text : Texts] : l = lines[1]
      BY <2>0, <2>1, ZenonT(60)
    <2>4. PICK q, t : q = l.proc /\ t = l.text
      OBVIOUS
    <2>5. t \in Texts /\ t # "-" /\ {Head(lines)} = {[proc |-> q, text |-> t]}
      BY <2>1, <2>3, <2>4 DEF Texts
    <2>6. PICK f : f = [i \in DOMAIN lines' |-> i + 1]
      OBVIOUS
    <2>7. f \in [DOMAIN lines' -> DOMAIN lines]
      BY <2>1, <2>2, <2>6
    <2>8. \A i \in DOMAIN lines' : i \in Nat \ {0}
      BY <2>1, <2>2, LenProperties
    <2>9. \A i \in DOMAIN lines' : lines'[i] = lines[f[i]] /\ f[i] # 1
      BY <2>1, <2>2, <2>6, <2>8
    <2>10. \A i, k \in DOMAIN lines' : f[i] = f[k] => i = k
      BY <2>6, <2>8
    <2>11. PICK ls : ls = {[proc |-> q, text |-> t]}
      OBVIOUS
    <2>12. Match(ls, late) /\ ls = IF t = "-" THEN {} ELSE {[proc |-> q, text |-> t]}
      BY <2>2, <2>5, <2>11
    <2>13. lines' \in Seq([proc : DOMAIN child, text : Texts])
           /\ \A k \in DOMAIN lines : k = 1 \/ \E i \in DOMAIN lines' : lines'[i] = lines[k]
      BY <2>1, <2>2
    <2> QED
      <3>1. Was(f, t)
        BY <2>7, <2>9, <2>10 DEF Was
      <3>2. Taken(q, t, ls)
        BY <2>1, <2>3, <2>4, <2>5, <2>12, <2>13 DEF Taken
      <3> QED
        BY <2>12, <3>1, <3>2
  <1>4. CASE lines = <<>>
    <2>1. Match({}, late) /\ lines' = lines
      BY <1>2, <1>4
    <2>2. PICK f : f = [i \in DOMAIN lines' |-> i]
      OBVIOUS
    <2>3. /\ f \in [DOMAIN lines' -> DOMAIN lines]
          /\ \A i \in DOMAIN lines' : lines'[i] = lines[f[i]]
          /\ \A i, k \in DOMAIN lines' : f[i] = f[k] => i = k
      BY <2>1, <2>2
    <2>4. PICK q, t, ls : t = "-" /\ ls = {}
      OBVIOUS
    <2>5. t \in Texts \cup {"-"} /\ ls = IF t = "-" THEN {} ELSE {[proc |-> q, text |-> t]}
      BY <2>4
    <2>6. Match(ls, late)
      BY <2>1, <2>4
    <2>7. lines' \in Seq([proc : DOMAIN child, text : Texts])
          /\ \A k \in DOMAIN lines : \E i \in DOMAIN lines' : lines'[i] = lines[k]
      BY <1>1, <2>1
    <2> QED
      <3>1. Was(f, t)
        BY <2>3, <2>4 DEF Was
      <3>2. Taken(q, t, ls)
        BY <2>4, <2>5, <2>7 DEF Taken
      <3> QED
        BY <2>6, <3>1, <3>2
  <1> QED
    BY <1>3, <1>4

LEMMA GetKeeps == Inv /\ Get => Inv'
  <1> SUFFICES ASSUME Inv, Get
               PROVE  Inv'
    OBVIOUS
  <1>0. TypeOK /\ Turn /\ InLine /\ UnderWay /\ Workers /\ Unread /\ Told /\ VerdictsRight
        /\ CacheSound /\ Led /\ Placed
    BY DEF Inv
  <1>1. UNCHANGED <<nature, decoder, skip, frame, cache, pending, todo, tries, at, said, uncopied>>
    BY DEF Get, world
  <1>2. PICK q, t, ls, f : /\ Taken(q, t, ls) /\ Was(f, t)
                           /\ \E late \in SUBSET Busy : Match(ls, late)
    BY <1>0, LineTaken
  <1>3. /\ pc' = "check" /\ fatal' \in BOOLEAN /\ stopped' \in BOOLEAN
        /\ (stopped => stopped') /\ expired \subseteq expired'
        /\ results' \in [Jobs -> {"yes", "no", "absent"}]
        /\ slot' \in [Slots -> [proc : 0 .. Len(child), job : Jobs \cup {0}]]
        /\ child' \in Seq(Worker) /\ Len(child') = Len(child) /\ DOMAIN child' = DOMAIN child
        /\ \A s \in Slots : Left(s, q, t) \/ Overdue(s, q, t) \/ Decided(s, q, t)
        /\ \A j \in Jobs : (\A s \in Slots : slot[s].job # j) => results'[j] = results[j]
        /\ \A p \in DOMAIN child : child'[p] = child[p] \/ Killed(p)
    <2>1. /\ t \in Texts \cup {"-"} /\ ls = IF t = "-" THEN {} ELSE {[proc |-> q, text |-> t]}
      BY <1>2 DEF Taken
    <2>2. PICK late \in SUBSET Busy : Match(ls, late)
      BY <1>2
    <2> QED
      BY <1>0, <2>1, <2>2, MatchEffects
  <1>4. \A s \in Slots :
          /\ slot'[s].job # 0 => Left(s, q, t) /\ slot'[s] = slot[s]
          /\ slot'[s].proc # 0 => slot'[s].proc = slot[s].proc
          /\ slot'[s].job # 0 => slot[s].job # 0 /\ results'[slot[s].job] = results[slot[s].job]
    BY <1>0, <1>3, SlotsAfter
  <1>5. \A p \in DOMAIN child : /\ child'[p].slot = child[p].slot
                                /\ child'[p] = child[p] \/ (child'[p].job = 0 /\ child'[p].state = "dead")
    BY <1>3 DEF Killed
  <1>6. \A s \in Slots : Ending(s, q, t) =>
          /\ q \in DOMAIN child /\ child[q].slot = s /\ slot[s].proc = q /\ slot[s].job # 0
          /\ 1 \in DOMAIN lines /\ lines[1].proc = q /\ lines[1].text = t
          /\ child[q].job = 0
          /\ t # "FATAL" => t \in {"OK", "NO"} /\ <<slot[s].job, Outcome(t)>> \in said
          /\ \A k \in DOMAIN lines : lines[k].proc = q /\ AnEnd(lines[k].text) => k = 1
    <2> SUFFICES ASSUME NEW s \in Slots, Ending(s, q, t)
                 PROVE  /\ q \in DOMAIN child /\ child[q].slot = s /\ slot[s].proc = q /\ slot[s].job # 0
                        /\ 1 \in DOMAIN lines /\ lines[1].proc = q /\ lines[1].text = t
                        /\ child[q].job = 0
                        /\ t # "FATAL" => t \in {"OK", "NO"} /\ <<slot[s].job, Outcome(t)>> \in said
                        /\ \A k \in DOMAIN lines : lines[k].proc = q /\ AnEnd(lines[k].text) => k = 1
      OBVIOUS
    <2>1. slot[s].job # 0 /\ slot[s].proc = q /\ AnEnd(t) /\ t # "-"
      BY DEF Ending, AnEnd
    <2>2. 1 \in DOMAIN lines /\ lines[1].proc = q /\ lines[1].text = t
      BY <1>2, <2>1 DEF Taken
    <2>3. q \in DOMAIN child /\ q # 0
      BY <1>0, <2>2, Facts
    <2>4. child[q].slot = s
      BY <1>0, <2>1, <2>3 DEF Workers
    <2>5. Pending(1)
      BY <1>0, <2>2 DEF Unread
    <2>6. /\ child[q].job = 0
          /\ t # "FATAL" => <<slot[s].job, Outcome(t)>> \in said
          /\ \A k \in DOMAIN lines : lines[k].proc = q /\ AnEnd(lines[k].text) => k = 1
      BY <2>1, <2>2, <2>4, <2>5 DEF Pending
    <2>7. t # "FATAL" => t \in {"OK", "NO"}
      BY <2>1 DEF AnEnd
    <2> QED
      BY <2>1, <2>2, <2>3, <2>4, <2>6, <2>7
  <1>7. \A i \in DOMAIN lines' : /\ f[i] \in DOMAIN lines /\ lines'[i] = lines[f[i]]
                                 /\ t # "-" => f[i] # 1
                                 /\ lines[f[i]].proc \in DOMAIN child
    <2>1. \A i \in DOMAIN lines' : /\ f[i] \in DOMAIN lines /\ lines'[i] = lines[f[i]]
                                   /\ t # "-" => f[i] # 1
      BY <1>2 DEF Was
    <2> QED
      BY <1>0, <2>1, Facts
  <1>8. \A j \in Jobs : results'[j] = results[j] \/ \E s \in Slots :
          /\ slot[s].job = j
          /\ Overdue(s, q, t) \/ (Decided(s, q, t) /\ t # "FATAL")
    <2> SUFFICES ASSUME NEW j \in Jobs, results'[j] # results[j]
                 PROVE  \E s \in Slots : /\ slot[s].job = j
                                         /\ Overdue(s, q, t) \/ (Decided(s, q, t) /\ t # "FATAL")
      OBVIOUS
    <2>1. PICK s \in Slots : slot[s].job = j
      BY <1>3
    <2>2. j # 0
      BY <1>0, Facts
    <2>3. ~Left(s, q, t)
      BY <2>1, <2>2 DEF Left
    <2>4. Decided(s, q, t) => t # "FATAL"
      BY <2>1 DEF Decided
    <2> QED
      BY <1>3, <2>1, <2>3, <2>4
  <1>9. TypeOK'
    <2>1. child' \in Seq([state : {"starting", "idle", "opened", "writing", "dead"}, job : Jobs \cup {0},
                          slot : Slots])
      BY <1>3 DEF Worker, States
    <2>2. lines' \in Seq([proc : DOMAIN child', text : {"START", "OK", "NO", "FATAL"}])
      BY <1>2, <1>3 DEF Taken, Texts
    <2>3. slot' \in [Slots -> [proc : 0 .. Len(child'), job : Jobs \cup {0}]]
      BY <1>3
    <2> QED
      BY <1>0, <1>1, <1>3, <2>1, <2>2, <2>3 DEF TypeOK
  <1>10. Turn'
    <2>1. uncopied = {}
      BY <1>0 DEF Get, Turn
    <2> QED
      BY <1>1, <1>3, <2>1 DEF Turn
  <1>11. InLine'
    <2>1. ASSUME NEW i \in DOMAIN todo
          PROVE  Waiting(todo[i])'
      <3>1. PICK j \in Jobs : j = todo[i] /\ Waiting(j) /\ j # 0
        BY <1>0, Facts DEF InLine
      <3>2. \A s \in Slots : slot[s].job # j /\ slot'[s].job # j
        BY <1>4, <3>1 DEF Waiting
      <3>3. results'[j] = results[j]
        BY <1>3, <3>2
      <3> QED
        BY <1>1, <3>1, <3>2, <3>3 DEF Waiting
    <2> QED
      BY <1>0, <1>1, <2>1 DEF InLine
  <1>12. UnderWay'
    <2>1. ASSUME NEW s \in Slots, slot'[s].job # 0
          PROVE  /\ slot'[s].proc # 0
                 /\ slot'[s].job \in pending /\ results'[slot'[s].job] = "absent"
                 /\ \A r \in Slots : slot'[r].job = slot'[s].job => r = s
      <3>1. slot'[s] = slot[s] /\ results'[slot[s].job] = results[slot[s].job]
        BY <1>4, <2>1
      <3>2. \A r \in Slots : slot'[r].job = slot'[s].job => slot[r].job = slot[s].job
        BY <1>4, <2>1, <3>1
      <3> QED
        BY <1>0, <2>1, <3>1, <3>2 DEF UnderWay
    <2> QED
      BY <1>1, <2>1 DEF UnderWay
  <1>13. Workers'
    <2>1. ASSUME NEW s \in Slots, slot'[s].proc # 0
          PROVE  child'[slot'[s].proc].slot = s
      <3>1. PICK p \in DOMAIN child : p = slot[s].proc /\ p = slot'[s].proc
        BY <1>0, <1>4, <2>1, Facts
      <3> QED
        BY <1>0, <1>5, <2>1, <3>1 DEF Workers
    <2>2. ASSUME NEW p \in DOMAIN child
          PROVE  Working(p)'
      <3>0. Working(p)
        BY <1>0 DEF Workers
      <3>1. CASE child'[p].job = 0 /\ child'[p].state = "dead"
        BY <3>1 DEF Working
      <3>2. CASE child'[p] = child[p] /\ child[p].job = 0
        BY <3>0, <3>2 DEF Working
      <3>3. CASE child'[p] = child[p] /\ child[p].job # 0
        <4>1. PICK s \in Slots : s = child[p].slot
          BY <1>0, ChildFields
        <4>2. slot[s] = [proc |-> p, job |-> child[p].job]
          BY <3>0, <3>3, <4>1 DEF Working
        <4>3. slot[s].proc = p /\ slot[s].job # 0
          BY <3>3, <4>2
        <4>4. ~Overdue(s, q, t)
          BY <3>3, <4>3 DEF Overdue
        <4>5. ~Decided(s, q, t)
          BY <1>6, <3>3, <4>3 DEF Decided
        <4>6. slot'[s] = slot[s]
          BY <1>3, <4>4, <4>5 DEF Left
        <4> QED
          BY <1>1, <3>0, <3>3, <4>1, <4>6 DEF Working, Decodes
      <3> QED
        BY <1>5, <3>1, <3>2, <3>3
    <2> QED
      BY <1>3, <2>1, <2>2 DEF Workers
  <1>14. Unread'
    <2> SUFFICES ASSUME NEW i \in DOMAIN lines'
                 PROVE  Pending(i)'
      BY DEF Unread
    <2>1. PICK k \in DOMAIN lines, p \in DOMAIN child, s \in Slots :
            /\ k = f[i] /\ lines'[i] = lines[k] /\ p = lines[k].proc /\ s = child[p].slot
            /\ t # "-" => k # 1
      BY <1>0, <1>7, ChildFields
    <2>2. s = child'[p].slot /\ p = lines'[i].proc
      BY <1>5, <2>1
    <2>3. CASE ~(AnEnd(lines[k].text) /\ slot'[s].proc = p)
      BY <2>1, <2>2, <2>3 DEF Pending
    <2>4. CASE AnEnd(lines[k].text) /\ slot'[s].proc = p
      <3>1. slot[s].proc = p /\ p # 0
        BY <1>0, <1>4, <2>4, Facts
      <3>2. /\ child[p].job = 0 /\ child[p].state # "starting"
            /\ lines[k].text = "FATAL" => child[p].state = "dead"
            /\ lines[k].text # "FATAL" =>
                 slot[s].job # 0 /\ <<slot[s].job, Outcome(lines[k].text)>> \in said
            /\ \A m \in DOMAIN lines : lines[m].proc = p /\ AnEnd(lines[m].text) => m = k
        BY <1>0, <2>1, <2>4, <3>1 DEF Unread, Pending
      <3>3. ~Overdue(s, q, t)
        <4>1. NoSlot.proc = 0
          BY DEF NoSlot
        <4> QED
          BY <2>4, <3>1, <4>1 DEF Overdue
      <3>4. ~Decided(s, q, t)
        <4> SUFFICES ASSUME Decided(s, q, t)
                     PROVE  FALSE
          OBVIOUS
        <4>1. Ending(s, q, t) /\ AnEnd(t) /\ t # "-"
          BY DEF Decided, Ending, AnEnd
        <4>2. 1 = k
          BY <1>6, <2>1, <2>4, <3>1, <4>1
        <4> QED
          BY <2>1, <4>1, <4>2
      <3>5. slot'[s] = slot[s]
        BY <1>3, <3>3, <3>4 DEF Left
      <3>6. /\ child'[p].job = 0 /\ child'[p].state # "starting"
            /\ lines[k].text = "FATAL" => child'[p].state = "dead"
        BY <1>5, <3>2
      <3>7. \A m \in DOMAIN lines' : lines'[m].proc = p /\ AnEnd(lines'[m].text) => m = i
        <4>1. ASSUME NEW m \in DOMAIN lines', lines'[m].proc = p, AnEnd(lines'[m].text)
              PROVE  f[m] = f[i]
          BY <1>7, <2>1, <3>2, <4>1
        <4> QED
          BY <1>2, <4>1 DEF Was
      <3> QED
        BY <1>1, <2>1, <2>2, <3>2, <3>5, <3>6, <3>7 DEF Pending
    <2> QED
      BY <2>3, <2>4
  <1>15. Told'
    <2>1. ASSUME NEW j \in pending, NEW v \in {"yes", "no"}, <<j, v>> \in said
          PROVE  Recorded(j, v)'
      <3>0. j \in Jobs /\ j # 0 /\ v # "absent" /\ Recorded(j, v)
        <4>1. j \in Jobs /\ j # 0
          BY <1>0, Facts DEF TypeOK
        <4>2. Recorded(j, v)
          BY <1>0, <2>1 DEF Told
        <4> QED
          BY <4>1, <4>2
      <3>1. CASE results[j] = v
        <4>1. \A s \in Slots : slot[s].job # j
          BY <1>0, <3>0, <3>1 DEF UnderWay
        <4> QED
          BY <1>3, <3>0, <3>1, <4>1 DEF Recorded
      <3>2. CASE j \in expired
        BY <1>3, <3>2 DEF Recorded
      <3>3. ASSUME NEW s \in Slots, NEW i \in DOMAIN lines, slot[s].job = j,
                   lines[i].proc = slot[s].proc, lines[i].text = IF v = "yes" THEN "OK" ELSE "NO"
            PROVE  Recorded(j, v)'
        <4>1. AnEnd(lines[i].text) /\ Outcome(lines[i].text) = v /\ lines[i].text # "FATAL"
          BY <3>3 DEF AnEnd, Outcome
        <4>2. CASE Overdue(s, q, t)
          BY <3>3, <4>2 DEF Overdue, Recorded
        <4>3. CASE Decided(s, q, t)
          <5>1. lines[i].proc = q /\ i = 1 /\ lines[i].text = t
            BY <1>6, <3>3, <4>1, <4>3 DEF Decided
          <5>2. results'[j] = v
            BY <3>3, <4>1, <4>3, <5>1 DEF Decided
          <5> QED
            BY <5>2 DEF Recorded
        <4>4. CASE Left(s, q, t)
          <5>1. slot'[s] = slot[s]
            BY <4>4 DEF Left
          <5>2. ~(t # "-" /\ i = 1)
            <6> SUFFICES ASSUME t # "-", i = 1
                         PROVE  FALSE
              OBVIOUS
            <6>1. lines[i].proc = q /\ lines[i].text = t
              BY <1>2 DEF Taken
            <6>2. Ending(s, q, t)
              BY <3>0, <3>3, <4>1, <6>1 DEF Ending
            <6> QED
              BY <4>4, <6>2 DEF Left
          <5>3. PICK m \in DOMAIN lines' : lines'[m] = lines[i]
            BY <1>2, <5>2 DEF Taken
          <5> QED
            BY <3>3, <5>1, <5>3 DEF Recorded
        <4> QED
          BY <1>3, <4>2, <4>3, <4>4
      <3> QED
        BY <3>0, <3>1, <3>2, <3>3 DEF Recorded
    <2> QED
      BY <1>0, <1>1, <2>1 DEF Told
  <1>16. VerdictsRight'
    <2> SUFFICES ASSUME NEW j \in Jobs
                 PROVE  /\ results'[j] = "yes" => frame[j] = "whole" /\ nature[Content[j]] = "decodes"
                        /\ results'[j] = "no" =>
                             \/ j \in uncopied
                             \/ \E k \in Jobs : SameBytes(j, k) /\ (<<k, "no">> \in said \/ k \in expired')
      BY <1>1 DEF VerdictsRight
    <2>1. CASE results'[j] = results[j]
      BY <1>0, <1>3, <2>1 DEF VerdictsRight
    <2>2. ASSUME NEW s \in Slots, slot[s].job = j, Overdue(s, q, t)
          PROVE  results'[j] = "no" /\ SameBytes(j, j) /\ j \in expired'
      BY <2>2 DEF Overdue, SameBytes
    <2>3. ASSUME NEW s \in Slots, slot[s].job = j, Decided(s, q, t), t # "FATAL"
          PROVE  /\ results'[j] = "yes" => frame[j] = "whole" /\ nature[Content[j]] = "decodes"
                 /\ results'[j] = "no" => SameBytes(j, j) /\ <<j, "no">> \in said
      <3>1. t \in {"OK", "NO"} /\ <<j, Outcome(t)>> \in said
        BY <1>6, <2>3 DEF Decided
      <3>2. results'[j] = Outcome(t) /\ Outcome(t) \in {"yes", "no"}
        BY <2>3 DEF Decided, Outcome
      <3>3. j \in pending
        BY <1>0, <3>1 DEF Told
      <3>4. results'[j] = "yes" => frame[j] = "whole" /\ nature[Content[j]] = "decodes"
        BY <1>0, <3>1, <3>2, <3>3 DEF Told
      <3>5. results'[j] = "no" => <<j, "no">> \in said
        BY <3>1, <3>2
      <3> QED
        BY <3>4, <3>5 DEF SameBytes
    <2> QED
      BY <1>8, <2>1, <2>2, <2>3
  <1>17. CacheSound'
    BY <1>0, <1>1 DEF CacheSound
  <1>18. \A j \in Jobs : results[j] # "absent" => results'[j] # "absent"
    <2>1. \A j \in Jobs, s \in Slots : slot[s].job = j => results[j] = "absent"
      BY <1>0, Facts DEF UnderWay
    <2> QED
      BY <1>3, <2>1
  <1>19. Led'
    <2>1. ASSUME NEW j \in Jobs \ pending
          PROVE  results'[j] = results[j]
      <3>1. \A s \in Slots : slot[s].job # j
        BY <1>0, Facts DEF UnderWay
      <3> QED
        BY <1>3, <3>1
    <2>2. \A j \in Jobs \ pending : results[j] = "no" => pc = "done"
      BY <1>0 DEF Led
    <2>3. pc # "done"
      BY DEF Get
    <2> QED
      BY <1>0, <1>1, <1>3, <2>1, <2>2, <2>3 DEF Led, Followed
  <1>20. Placed'
    <2> SUFFICES ASSUME ~stopped', NEW j \in pending
                 PROVE  \/ results'[j] # "absent" \/ tries'[j] = Tries
                        \/ \E s \in Slots : slot'[s].job = j
                        \/ \E i \in DOMAIN todo : todo[i] = j
      BY <1>1 DEF Placed
    <2>1. ~stopped /\ j \in Jobs
      BY <1>0, <1>3 DEF TypeOK
    <2>2. UNCHANGED tries
      BY DEF Get
    <2>3. ASSUME NEW s \in Slots, slot[s].job = j
          PROVE  results'[j] # "absent" \/ slot'[s].job = j
      <3>1. CASE Left(s, q, t)
        BY <2>3, <3>1 DEF Left
      <3>2. CASE Overdue(s, q, t)
        BY <2>3, <3>2 DEF Overdue
      <3>3. CASE Decided(s, q, t)
        BY <2>3, <3>3 DEF Decided, Outcome
      <3> QED
        BY <1>3, <3>1, <3>2, <3>3
    <2> QED
      BY <1>0, <1>18, <2>1, <2>2, <2>3 DEF Placed
  <1> QED
    BY <1>9, <1>10, <1>11, <1>12, <1>13, <1>14, <1>15, <1>16, <1>17, <1>19, <1>20 DEF Inv

LEMMA InvStep == Inv /\ [Next]_vars => Inv'
  <1> SUFFICES ASSUME Inv, [Next]_vars
               PROVE  Inv'
    OBVIOUS
  <1>1. CASE Parent
    BY <1>1, CheckKeeps, SpawnKeeps, SpawnFailsKeeps, HandOverKeeps, HandOverFailsKeeps, LeaveKeeps,
       GetKeeps, FinishKeeps DEF Parent
  <1>2. CASE \E p \in DOMAIN child : Child(p) \/ Die(p)
    BY <1>2, ChildKeeps
  <1>3. CASE Skip
    BY <1>3, SkipKeeps
  <1>4. CASE UNCHANGED vars
    BY <1>4, StutterKeeps
  <1> QED
    BY <1>1, <1>2, <1>3, <1>4 DEF Next, Done

LEMMA Invariant == Spec => []Inv
  BY InvInit, InvStep, PTL DEF Spec
-----------------------------------------------------------------------------
(* The state of a pass has the types the code gives it; no job is handed over in vain
   more than Tries times. *)
THEOREM TypeCorrect == Spec => []TypeOK
  <1>1. Inv => TypeOK
    BY DEF Inv
  <1> QED
    BY <1>1, Invariant, PTL

(* The verdict on a video is one a worker gave on it, or on the same bytes, whatever
   lines of killed or earlier processes are still in the queue; else its time was up or
   its copy of the frame could not be written. *)
THEOREM VerdictsAlwaysRight == Spec => []VerdictsRight
  <1>1. Inv => VerdictsRight
    BY DEF Inv
  <1> QED
    BY <1>1, Invariant, PTL

(* A pass that was not stopped ends with a verdict on every video, but for those given
   up after Tries hand-overs that failed. *)
THEOREM NothingLost == Spec => []Accounted
  <1>1. ASSUME Inv, pc = "done", ~stopped, NEW j \in Jobs
        PROVE  \/ results[j] # "absent"
               \/ \E k \in Jobs : SameBytes(j, k) /\ tries[k] = Tries
    <2>1. ASSUME NEW k \in pending
          PROVE  results[k] # "absent" \/ tries[k] = Tries
      <3>1. k # 0
        BY <1>1, Facts DEF Inv, TypeOK
      <3>2. \A s \in Slots : slot[s].job # k
        BY <1>1, <3>1 DEF Inv, Turn, NoSlot
      <3>3. \A i \in DOMAIN todo : todo[i] # k
        <4>1. todo = <<>>
          BY <1>1 DEF Inv, Turn
        <4> QED
          BY <4>1
      <3> QED
        BY <1>1, <3>2, <3>3 DEF Inv, Placed
    <2>2. CASE j \in pending
      BY <2>1, <2>2 DEF SameBytes
    <2>3. CASE j \notin pending
      <3>1. Followed(j)
        BY <1>1, <2>3 DEF Inv, Led
      <3>2. CASE results[j] # "absent"
        BY <3>2
      <3>3. ASSUME NEW k \in pending, {j, k} \subseteq Hashed, Content[j] = Content[k],
                   results[k] = "absent"
            PROVE  \E m \in Jobs : SameBytes(j, m) /\ tries[m] = Tries
        <4>1. tries[k] = Tries /\ k \in Jobs
          BY <1>1, <2>1, <3>3 DEF Inv, TypeOK
        <4> QED
          BY <3>3, <4>1 DEF SameBytes
      <3> QED
        BY <1>1, <3>1, <3>2, <3>3 DEF Followed
    <2> QED
      BY <2>2, <2>3
  <1>2. Inv => Accounted
    BY <1>1 DEF Accounted
  <1> QED
    BY <1>2, Invariant, PTL

(* What a worker answered is in the results of the pass unless its time was up, also
   when the pass was stopped before the answer was read. *)
THEOREM AnswersAlwaysKept == Spec => []AnswersKept
  <1>1. ASSUME Inv, pc = "done", NEW a \in said
        PROVE  results[a[1]] = a[2] \/ a[1] \in expired
    <2>1. PICK j \in pending, v \in {"yes", "no"} : a = <<j, v>>
      BY <1>1 DEF Inv, Told
    <2>2. Recorded(j, v)
      BY <1>1, <2>1 DEF Inv, Told
    <2>3. DOMAIN lines = {}
      <3>1. lines = <<>>
        BY <1>1 DEF Inv, Turn
      <3> QED
        BY <3>1
    <2>4. results[j] = v \/ j \in expired
      BY <2>2, <2>3 DEF Recorded
    <2> QED
      BY <2>1, <2>4
  <1>2. Inv => AnswersKept
    BY <1>1 DEF AnswersKept
  <1> QED
    BY <1>2, Invariant, PTL

(* Only frames of videos that decode reach the cache, so no later run takes a frame of
   a video that hung or failed. *)
THEOREM CacheAlwaysSound == Spec => []CacheSound
  <1>1. Inv => CacheSound
    BY DEF Inv
  <1> QED
    BY <1>1, Invariant, PTL
=============================================================================
