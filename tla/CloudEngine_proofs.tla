------------------------- MODULE CloudEngine_proofs -------------------------
(* What holds of CloudEngine for every number of processes, jobs, addresses  *)
(* and retries, wherever a retrieval is stopped, fails or is killed.         *)
EXTENDS CloudEngine, SequenceTheorems, FiniteSetTheorems, TLAPS

Busy == {"pace", "fetch", "fetched", "decrypted", "backoff"}

(* A retrieval that is busy is busy with a job, and backs off only before an
   attempt it may still make. *)
Busied(e) ==
  /\ e.pc \in Busy => e.job \in Jobs
  /\ e.pc = "backoff" => e.attempt < Retries

(* e is a record of exactly the fields of Locals. *)
Shape(e) ==
  e = [pc |-> e.pc, session |-> e.session, redo |-> e.redo, stopped |-> e.stopped, late
       |-> e.late, prev |-> e.prev, job |-> e.job, addr |-> e.addr, attempt |->
       e.attempt, seq |-> e.seq, stored |-> e.stored, done |-> e.done, failed |->
       e.failed, skipped |-> e.skipped, transient |-> e.transient, refused |->
       e.refused, stop |-> e.stop]

Typed == TypeOK /\ \A p \in Proc : Busied(eng[p])

(* One process's locals change, and stay well typed. *)
LEMMA Updated ==
  ASSUME NEW p \in Proc, NEW e \in Locals, Busied(e), Typed, eng' = [eng EXCEPT ![p] = e]
  PROVE  /\ eng' \in [Proc -> Locals]
         /\ \A q \in Proc : Busied(eng'[q])
  BY DEF Typed, TypeOK

LEMMA ConstantTypes ==
  /\ Len(Urls) \in Nat
  /\ Retries \in Nat /\ Retries >= 1
  /\ MaxFailures \in Nat /\ MaxRefusals \in Nat
  /\ MaxSessions \in Nat
  /\ Jobs \subseteq Nat /\ Seqs \subseteq Nat /\ \A s \in Seqs : s >= 1
  /\ \A j \in Jobs : j + 1 \in 1 .. Len(Urls) + 1 /\ j \in 1 .. Len(Urls) + 1
  BY EngineAssumption DEF Jobs, Seqs

(* What JobOver and AfterError make of a retrieval's locals. *)
LEMMA JobOverType ==
  ASSUME NEW e \in Locals, e.job \in Jobs, NEW outcome \in {"done", "failed", "refused"}
  PROVE  /\ JobOver(e, outcome) \in Locals
         /\ JobOver(e, outcome).pc \in {"loop", "end"}
         /\ JobOver(e, outcome).redo = e.redo /\ JobOver(e, outcome).session = e.session
  <1> DEFINE c == Counted(e, outcome)
  <1>1. c \in Locals /\ c.job \in Jobs /\ c.redo = e.redo /\ c.session = e.session
    <2>1. CASE outcome = "done"
      <3>1. c = [e EXCEPT !.done = @ + 1, !.transient = 0, !.refused = 0]
        BY <2>1 DEF Counted
      <3> HIDE DEF c
      <3>2. Shape(c)
        BY <3>1 DEF Locals, Shape
      <3> QED
        BY <3>1, <3>2, SMTT(30) DEF Locals, Shape
    <2>2. CASE outcome = "refused"
      <3>1. c = [e EXCEPT !.failed = @ + 1, !.refused = @ + 1]
        BY <2>2 DEF Counted
      <3> HIDE DEF c
      <3>2. Shape(c)
        BY <3>1 DEF Locals, Shape
      <3> QED
        BY <3>1, <3>2, SMTT(30) DEF Locals, Shape
    <2>3. CASE outcome = "failed"
      <3>1. c = [e EXCEPT !.failed = @ + 1, !.transient = @ + 1]
        BY <2>3 DEF Counted
      <3> HIDE DEF c
      <3>2. Shape(c)
        BY <3>1 DEF Locals, Shape
      <3> QED
        BY <3>1, <3>2, SMTT(30) DEF Locals, Shape
    <2> QED
      BY <2>1, <2>2, <2>3
  <1> HIDE DEF c
  <1> QED
    BY <1>1, ConstantTypes DEF JobOver, Locals, c

(* a is what e becomes after a step that stays within its job, or leaves it. *)
Follows(a, e) ==
  /\ a \in Locals
  /\ Busied(a)
  /\ a.pc \in {"backoff", "pace", "loop", "end"}
  /\ a.redo = e.redo /\ a.session = e.session
  /\ a.pc \in Busy => a.job = e.job

LEMMA AfterErrorType ==
  ASSUME NEW e \in Locals, e.job \in Jobs, NEW permanent \in BOOLEAN
  PROVE  Follows(AfterError(e, permanent), e)
  <1> DEFINE o == IF permanent THEN "refused" ELSE "failed"
             j == JobOver(e, o)
             a == AfterError(e, permanent)
  <1> SUFFICES Follows(a, e)
    OBVIOUS
  <1>1. j \in Locals /\ j.pc \in {"loop", "end"} /\ j.redo = e.redo /\ j.session = e.session
    BY JobOverType
  <1>2. CASE ~permanent /\ ~LastAttempt(e)
    <2>1. a = [e EXCEPT !.pc = "backoff"]
      BY <1>2 DEF AfterError
    <2>2. e.attempt < Retries
      BY <1>2, ConstantTypes DEF LastAttempt, Locals
    <2> HIDE DEF a
    <2> QED
      BY <2>1, <2>2, ConstantTypes DEF Locals, Busied, Busy, Follows
  <1>3. CASE (permanent \/ LastAttempt(e)) /\ e.addr < Urls[e.job]
    <2>1. a = [e EXCEPT !.pc = "pace", !.addr = @ + 1, !.attempt = 1]
      BY <1>3 DEF AfterError
    <2> HIDE DEF a
    <2>2. Shape(a)
      BY <2>1 DEF Locals, Shape
    <2>3. a \in Locals
      <3>1. 1 \in 1 .. Retries
        BY ConstantTypes
      <3> QED
        BY <2>1, <2>2, <3>1, SMTT(30) DEF Locals, Shape
    <2> QED
      BY <2>1, <2>3, ConstantTypes DEF Locals, Busied, Busy, Follows
  <1>4. CASE (permanent \/ LastAttempt(e)) /\ ~(e.addr < Urls[e.job])
    <2>1. a = j
      BY <1>4 DEF AfterError
    <2> HIDE DEF a, j
    <2> QED
      BY <2>1, <1>1 DEF Busied, Busy, Follows
  <1> QED
    BY <1>2, <1>3, <1>4
-----------------------------------------------------------------------------
(* The types of what the actions write. *)
LEMMA Appended ==
  ASSUME Typed, NEW line \in Lines, Append1(line)
  PROVE  manifest' \in Seq(Lines) /\ torn' \in BOOLEAN
  <1>1. Junk \in Lines
    BY DEF Lines
  <1> QED
    BY <1>1, AppendProperties DEF Append1, Typed, TypeOK

LEMMA PrevType ==
  ASSUME Typed, NEW p \in Proc
  PROVE  Prev(p) \in Nat \cup {Lost}
  BY LenProperties DEF Prev, Typed, TypeOK, Locals, None, Lost

LEMMA LineTypes ==
  ASSUME Typed, NEW p \in Proc
  PROVE  /\ Line(p, "session") \in Lines
         /\ End(p) \in Lines
         /\ \A result \in {"ok", "refused", "failed"} : Request(p, result) \in Lines
  <1>1. eng[p] \in Locals
    BY DEF Typed, TypeOK
  <1>2. Prev(p) \in Nat \cup {Lost}
    BY PrevType
  <1>3. Line(p, "session") \in Lines
    BY <1>1, <1>2 DEF Line, Lines, Locals
  <1>4. End(p) \in Lines
    BY <1>1, <1>2 DEF End, Lines, Locals
  <1>5. ASSUME NEW result \in {"ok", "refused", "failed"}
        PROVE  Request(p, result) \in Lines
    <2>1. eng[p].job \in Nat /\ eng[p].attempt \in Nat
      BY <1>1, ConstantTypes, SMTT(30) DEF Locals
    <2> QED
      BY <1>1, <1>2, <2>1 DEF Request, Stored, Lines, Locals
  <1> QED
    BY <1>3, <1>4, <1>5

(* The hash record() keeps for its next line. *)
Kept == IF torn THEN Lost ELSE Len(manifest) + 1

LEMMA KeptType ==
  ASSUME Typed
  PROVE  Kept \in Nat \cup {None, Lost}
  <1>1. Len(manifest) \in Nat
    BY LenProperties DEF Typed, TypeOK
  <1> QED
    BY <1>1 DEF Kept

LEMMA RecordedType ==
  ASSUME Typed, NEW p \in Proc, NEW e \in Locals, Busied(e), Recorded(p, e)
  PROVE  /\ eng' \in [Proc -> Locals]
         /\ \A q \in Proc : Busied(eng'[q])
         /\ eng'[p] = [e EXCEPT !.prev = Kept]
  <1> DEFINE f == [e EXCEPT !.prev = Kept]
  <1>1. eng' = [eng EXCEPT ![p] = f]
    BY DEF Recorded, Kept
  <1>2. f \in Locals
    BY KeptType DEF Locals
  <1>3. Busied(f)
    BY DEF Locals, Busied
  <1> HIDE DEF f
  <1>4. eng'[p] = f
    BY <1>1 DEF Typed, TypeOK
  <1> QED
    BY <1>1, <1>2, <1>3, <1>4, Updated DEF f
-----------------------------------------------------------------------------
(* Typed is inductive. *)
LEMMA IdleType == Idle \in Locals /\ Busied(Idle)
  <1>1. 1 \in 1 .. Len(Urls) + 1 /\ 1 \in 1 .. Retries
    BY ConstantTypes
  <1> QED
    BY <1>1 DEF Idle, Locals, Busied, Busy

LEMMA TypedInit == Init => Typed
  <1> SUFFICES ASSUME Init PROVE Typed
    OBVIOUS
  <1>1. Idle \in Locals /\ Busied(Idle)
    BY IdleType
  <1>2. manifest \in Seq(Lines)
    BY EmptySeq DEF Init
  <1> QED
    BY <1>1, <1>2 DEF Init, Typed, TypeOK

(* A step of the retrieval that writes nothing. *)
LEMMA TypedQuiet ==
  ASSUME Typed, NEW p \in Proc, UNCHANGED <<disk, bounds>>,
         NEW e \in Locals, Busied(e), eng' = [eng EXCEPT ![p] = e]
  PROVE  Typed'
  <1>1. eng' \in [Proc -> Locals] /\ \A q \in Proc : Busied(eng'[q])
    BY Updated
  <1> QED
    BY <1>1 DEF Typed, TypeOK, disk, bounds, Busied

(* A step that appends a line. *)
LEMMA TypedAppend ==
  ASSUME Typed, NEW p \in Proc, UNCHANGED <<lockfile, enc, dec, parts, bounds>>,
         NEW line \in Lines, Append1(line),
         NEW e \in Locals, Busied(e), Recorded(p, e)
  PROVE  Typed'
  <1>1. eng' \in [Proc -> Locals] /\ \A q \in Proc : Busied(eng'[q])
    BY RecordedType
  <1>2. manifest' \in Seq(Lines) /\ torn' \in BOOLEAN
    BY Appended
  <1> QED
    BY <1>1, <1>2 DEF Typed, TypeOK, bounds, Busied

LEMMA TypedLoop == ASSUME Typed, NEW p \in Proc, Loop(p) PROVE Typed'
  <1> DEFINE e == eng[p]
  <1>0. e \in Locals /\ e.pc = "loop" /\ UNCHANGED <<disk, bounds>>
    BY DEF Typed, TypeOK, Loop
  <1>1. PICK f : eng' = [eng EXCEPT ![p] = f] /\
          \/ f = [e EXCEPT !.pc = "end"]
          \/ f = [e EXCEPT !.pc = "end", !.stop = "examiner"]
          \/ f = [e EXCEPT !.pc = "unlock"]
          \/ e.job \in Jobs /\ f = [e EXCEPT !.job = @ + 1, !.skipped = @ + 1]
          \/ e.job \in Jobs /\ f = [e EXCEPT !.pc = "pace", !.addr = 1, !.attempt = 1]
    BY DEF Loop
  <1> HIDE DEF e
  <1>2. Shape(f)
    BY <1>0, <1>1 DEF Locals, Shape
  <1>3. 1 \in 1 .. Retries
    BY ConstantTypes
  <1>4. CASE f = [e EXCEPT !.pc = "end"]
    BY <1>0, <1>1, <1>4, TypedQuiet DEF Locals, Busied, Busy
  <1>5. CASE f = [e EXCEPT !.pc = "end", !.stop = "examiner"]
    <2>1. f \in Locals /\ Busied(f)
      BY <1>0, <1>2, <1>5 DEF Locals, Shape, Busied, Busy
    <2> QED
      BY <1>0, <1>1, <2>1, TypedQuiet
  <1>6. CASE f = [e EXCEPT !.pc = "unlock"]
    BY <1>0, <1>1, <1>6, TypedQuiet DEF Locals, Busied, Busy
  <1>7. CASE e.job \in Jobs /\ f = [e EXCEPT !.job = @ + 1, !.skipped = @ + 1]
    <2>1. e.job + 1 \in 1 .. Len(Urls) + 1
      BY <1>7, ConstantTypes
    <2>2. f \in Locals
      BY <1>0, <1>2, <1>7, <2>1, SMTT(30) DEF Locals, Shape
    <2>3. Busied(f)
      BY <1>0, <1>7 DEF Locals, Busied, Busy
    <2> QED
      BY <1>0, <1>1, <2>2, <2>3, TypedQuiet
  <1>8. CASE e.job \in Jobs /\ f = [e EXCEPT !.pc = "pace", !.addr = 1, !.attempt = 1]
    <2>2. f \in Locals
      BY <1>0, <1>2, <1>3, <1>8 DEF Locals, Shape
    <2>3. Busied(f)
      BY <1>0, <1>8 DEF Locals, Busied, Busy
    <2> QED
      BY <1>0, <1>1, <2>2, <2>3, TypedQuiet
  <1> QED
    BY <1>1, <1>4, <1>5, <1>6, <1>7, <1>8

LEMMA TypedStepOf == ASSUME Typed, NEW p \in Proc, Step(p) PROVE Typed'
  <1> DEFINE e == eng[p]
  <1>0. e \in Locals /\ Busied(e) /\ e.job \in Nat
    BY ConstantTypes, SMTT(30) DEF Typed, TypeOK, Locals
  <1>1. CASE Loop(p)
    BY <1>1, TypedLoop
  <1>2. CASE StopSeen(p)
    <2>0. PICK f : f = [e EXCEPT !.pc = "end", !.stop = "examiner"]
      OBVIOUS
    <2>1. Shape(f) /\ f.pc = "end"
      BY <1>0, <2>0 DEF Locals, Shape
    <2>2. f \in Locals /\ Busied(f)
      BY <1>0, <2>0, <2>1 DEF Locals, Shape, Busied, Busy
    <2>3. eng' = [eng EXCEPT ![p] = f] /\ UNCHANGED <<disk, bounds>>
      BY <1>0, <2>0, <1>2 DEF StopSeen, Typed, TypeOK, Locals
    <2> QED
      BY <2>2, <2>3, TypedQuiet
  <1>3. ASSUME NEW s \in Seqs, Send(p, s) PROVE Typed'
    <2>0. PICK f : f = [e EXCEPT !.pc = "fetch", !.seq = s, !.late = e.stopped]
      OBVIOUS
    <2>1. Shape(f) /\ f.pc = "fetch" /\ f.job = e.job
      BY <1>0, <2>0 DEF Locals, Shape
    <2>2. f \in Locals /\ Busied(f)
      BY <1>0, <2>0, <1>3, <2>1, ConstantTypes DEF Locals, Shape, Busied, Busy, Send
    <2>3. eng' = [eng EXCEPT ![p] = f] /\ UNCHANGED <<disk, bounds>>
      BY <1>0, <2>0, <1>3 DEF Send, Typed, TypeOK, Locals
    <2> QED
      BY <2>2, <2>3, TypedQuiet
  <1>4. CASE Fetched(p)
    <2> DEFINE f == [e EXCEPT !.pc = "fetched"]
    <2>1. f \in Locals /\ Busied(f)
      BY <1>0, <1>4 DEF Locals, Busied, Busy, Fetched
    <2>2. eng' = [eng EXCEPT ![p] = f]
      BY <1>4 DEF Fetched
    <2>3. eng' \in [Proc -> Locals] /\ \A q \in Proc : Busied(eng'[q])
      BY <2>1, <2>2, Updated
    <2>4. enc' \subseteq Files
      BY <1>0, <1>4, LenProperties, SMTT(30) DEF Fetched, Typed, TypeOK, Files, Locals
    <2> QED
      BY <1>4, <2>3, <2>4 DEF Fetched, Typed, TypeOK, bounds, Busied
  <1>5. ASSUME NEW permanent \in BOOLEAN, FetchFailed(p, permanent) PROVE Typed'
    <2> DEFINE r == IF permanent THEN "refused" ELSE "failed"
               f == AfterError(e, permanent)
    <2>1. Request(p, r) \in Lines
      BY LineTypes
    <2>2. f \in Locals /\ Busied(f)
      BY <1>0, <1>5, AfterErrorType DEF FetchFailed, Follows, Busied, Busy
    <2> HIDE DEF f
    <2> QED
      BY <1>5, <2>1, <2>2, TypedAppend DEF FetchFailed, f
  <1>6. CASE BackedOff(p)
    <2>0. PICK f : f = [e EXCEPT !.pc = "pace", !.attempt = @ + 1]
      OBVIOUS
    <2>1. Shape(f) /\ f.pc = "pace" /\ f.job = e.job
      BY <1>0, <2>0 DEF Locals, Shape
    <2>2. e.attempt + 1 \in 1 .. Retries
      <3>1. e.attempt < Retries
        BY <1>0, <1>6 DEF Busied, BackedOff
      <3>2. e.attempt \in 1 .. Retries
        BY <1>0 DEF Locals
      <3> HIDE DEF e
      <3> QED
        BY <3>1, <3>2, ConstantTypes
    <2>3. f \in Locals /\ Busied(f)
      BY <1>0, <2>0, <1>6, <2>1, <2>2 DEF Locals, Shape, Busied, Busy, BackedOff
    <2>4. eng' = [eng EXCEPT ![p] = f] /\ UNCHANGED <<disk, bounds>>
      BY <1>0, <2>0, <1>6 DEF BackedOff, Typed, TypeOK, Locals
    <2> QED
      BY <2>3, <2>4, TypedQuiet
  <1>7. ASSUME NEW s \in Seqs, Decrypted(p, s) PROVE Typed'
    <2>0. PICK f : f = [e EXCEPT !.pc = "decrypted", !.stored = s]
      OBVIOUS
    <2>1. Shape(f) /\ f.pc = "decrypted" /\ f.job = e.job
      BY <1>0, <2>0 DEF Locals, Shape
    <2>2. f \in Locals /\ Busied(f)
      BY <1>0, <2>0, <1>7, <2>1, ConstantTypes DEF Locals, Shape, Busied, Busy, Decrypted
    <2>3. eng' = [eng EXCEPT ![p] = f]
      BY <1>0, <2>0, <1>7 DEF Decrypted, Typed, TypeOK, Locals
    <2>4. eng' \in [Proc -> Locals] /\ \A q \in Proc : Busied(eng'[q])
      BY <2>2, <2>3, Updated
    <2>5. dec' \subseteq Files
      BY <1>0, <1>7, LenProperties, ConstantTypes DEF Decrypted, Typed, TypeOK, Files
    <2> QED
      BY <1>7, <2>4, <2>5 DEF Decrypted, Typed, TypeOK, bounds, Busied
  <1>8. CASE NotDecrypted(p)
    <2>0. PICK f : f = [e EXCEPT !.pc = "decrypted", !.stored = 0]
      OBVIOUS
    <2>1. Shape(f) /\ f.pc = "decrypted" /\ f.job = e.job
      BY <1>0, <2>0 DEF Locals, Shape
    <2>2. f \in Locals /\ Busied(f)
      BY <1>0, <2>0, <1>8, <2>1 DEF Locals, Shape, Busied, Busy, NotDecrypted
    <2>3. eng' = [eng EXCEPT ![p] = f] /\ UNCHANGED <<disk, bounds>>
      BY <1>0, <2>0, <1>8 DEF NotDecrypted, Typed, TypeOK, Locals
    <2> QED
      BY <2>2, <2>3, TypedQuiet
  <1>9. CASE RecordSession(p)
    <2> DEFINE f == [e EXCEPT !.pc = "loop"]
    <2>1. f \in Locals /\ Busied(f)
      BY <1>0 DEF Locals, Busied, Busy
    <2>2. Line(p, "session") \in Lines
      BY LineTypes
    <2> QED
      BY <1>9, <2>1, <2>2, TypedAppend DEF RecordSession
  <1>10. CASE RecordFile(p)
    <2> DEFINE f == JobOver(e, "done")
    <2>1. f \in Locals /\ Busied(f)
      BY <1>0, <1>10, JobOverType DEF RecordFile, Busied, Busy
    <2>2. Request(p, "ok") \in Lines
      BY LineTypes
    <2> HIDE DEF f
    <2> QED
      BY <1>10, <2>1, <2>2, TypedAppend DEF RecordFile, f
  <1>11. CASE RecordEnd(p)
    <2> DEFINE f == [e EXCEPT !.pc = "unlock"]
    <2>1. f \in Locals /\ Busied(f)
      BY <1>0 DEF Locals, Busied, Busy
    <2>2. End(p) \in Lines
      BY LineTypes
    <2> QED
      BY <1>11, <2>1, <2>2, TypedAppend DEF RecordEnd
  <1>12. CASE Unlock(p)
    <2>1. Idle \in Locals /\ Busied(Idle)
      BY IdleType
    <2>2. eng' \in [Proc -> Locals] /\ \A q \in Proc : Busied(eng'[q])
      BY <1>12, <2>1, Updated DEF Unlock
    <2> QED
      BY <1>12, <2>2 DEF Unlock, Typed, TypeOK, bounds, Busied
  <1> QED
    BY <1>1, <1>2, <1>3, <1>4, <1>5, <1>6, <1>7, <1>8, <1>9, <1>10, <1>11, <1>12 DEF Step

LEMMA InterruptedType ==
  ASSUME Typed, NEW p \in Proc, Interrupted(p)
  PROVE  torn' \in BOOLEAN /\ dec' \subseteq Files
  <1>1. torn' \in BOOLEAN
    BY DEF Interrupted, Typed, TypeOK
  <1>2. eng[p].job \in Nat
    BY ConstantTypes, SMTT(30) DEF Typed, TypeOK, Locals
  <1>3. dec' \subseteq Files
    BY <1>2, ConstantTypes DEF Interrupted, Typed, TypeOK, Files
  <1> QED
    BY <1>1, <1>3

LEMMA TypedEnvironment == ASSUME Typed, Environment PROVE Typed'
  <1>1. CASE RemoveStaleLock
    BY <1>1 DEF RemoveStaleLock, Typed, TypeOK, bounds, Busied
  <1>2. CASE LockFails
    BY <1>2 DEF LockFails, Typed, TypeOK, Busied
  <1>3. ASSUME NEW p \in Proc, NEW redo \in BOOLEAN, Start(p, redo) PROVE Typed'
    <2>1. PICK f : f = [Idle EXCEPT !.pc = "session", !.session = sessions + 1, !.redo = redo]
      OBVIOUS
    <2>2. Idle \in Locals /\ sessions + 1 \in Nat
      BY IdleType DEF Typed, TypeOK
    <2>3. Shape(f) /\ f.pc = "session"
      BY <2>1, <2>2 DEF Locals, Shape
    <2>4. f \in Locals /\ Busied(f)
      BY <2>1, <2>2, <2>3 DEF Locals, Shape, Busied, Busy
    <2>5. eng' \in [Proc -> Locals] /\ \A q \in Proc : Busied(eng'[q])
      BY <1>3, <2>1, <2>4, Updated DEF Start
    <2> QED
      BY <1>3, <2>2, <2>5 DEF Start, Typed, TypeOK, Busied
  <1>4. ASSUME NEW p \in Proc, Stop(p) PROVE Typed'
    <2>1. PICK f : f = [eng[p] EXCEPT !.stopped = TRUE]
      OBVIOUS
    <2>2. eng[p] \in Locals /\ Busied(eng[p])
      BY DEF Typed, TypeOK
    <2>3. f \in Locals /\ f.pc = eng[p].pc /\ f.job = eng[p].job /\ f.attempt = eng[p].attempt
      BY <2>1, <2>2 DEF Locals
    <2>4. Busied(f)
      BY <2>2, <2>3 DEF Busied
    <2>5. eng' = [eng EXCEPT ![p] = f] /\ UNCHANGED <<disk, bounds>>
      BY <1>4, <2>1 DEF Stop
    <2> QED
      BY <2>3, <2>4, <2>5, TypedQuiet
  <1>5. ASSUME NEW p \in Proc, Raise(p) PROVE Typed'
    <2>0. PICK f : f = [eng[p] EXCEPT !.pc = "unlock"]
      OBVIOUS
    <2>1. f \in Locals /\ Busied(f)
      <3>1. eng[p] \in Locals
        BY DEF Typed, TypeOK
      <3> QED
        BY <2>0, <3>1 DEF Locals, Busied, Busy
    <2>2. eng' = [eng EXCEPT ![p] = f]
      BY <1>5, <2>0 DEF Raise, AfterRaise
    <2>3. eng' \in [Proc -> Locals] /\ \A q \in Proc : Busied(eng'[q])
      BY <2>1, <2>2, Updated
    <2>4. torn' \in BOOLEAN /\ dec' \subseteq Files
      BY <1>5, InterruptedType DEF Raise
    <2> QED
      BY <1>5, <2>3, <2>4 DEF Raise, Typed, TypeOK, Busied
  <1>6. ASSUME NEW p \in Proc, Crash(p) PROVE Typed'
    <2>1. eng' \in [Proc -> Locals] /\ \A q \in Proc : Busied(eng'[q])
      BY <1>6, IdleType, Updated DEF Crash
    <2>2. torn' \in BOOLEAN /\ dec' \subseteq Files
      BY <1>6, InterruptedType DEF Crash
    <2>3. [job |-> eng[p].job, seq |-> eng[p].seq, line |-> 0] \in Files
      BY ConstantTypes, SMTT(30) DEF Typed, TypeOK, Locals, Files
    <2>4. parts' \subseteq Files
      BY <1>6, <2>3 DEF Crash, Typed, TypeOK
    <2> QED
      BY <1>6, <2>1, <2>2, <2>4 DEF Crash, Typed, TypeOK, Busied
  <1> QED
    BY <1>1, <1>2, <1>3, <1>4, <1>5, <1>6 DEF Environment

LEMMA TypedStep == Typed /\ [Next]_vars => Typed'
  <1> SUFFICES ASSUME Typed, [Next]_vars PROVE Typed'
    OBVIOUS
  <1>1. CASE UNCHANGED vars
    BY <1>1 DEF vars, disk, bounds, Typed, TypeOK, Busied
  <1>2. CASE Next
    <2>1. CASE \E p \in Proc : Step(p)
      BY <2>1, TypedStepOf
    <2>2. CASE Environment
      BY <2>2, TypedEnvironment
    <2>3. CASE Finished
      BY <2>3 DEF Finished, vars, disk, bounds, Typed, TypeOK, Busied
    <2> QED
      BY <1>2, <2>1, <2>2, <2>3 DEF Next
  <1> QED
    BY <1>1, <1>2

(* The state is well typed; in particular no attempt at an address is numbered
   above Retries (_run_job's "attempt >= pace.retries"). *)
THEOREM TypeCorrect == Spec => []TypeOK
  <1>1. Spec => []Typed
    BY TypedInit, TypedStep, PTL DEF Spec
  <1>2. Typed => TypeOK
    BY DEF Typed
  <1> QED
    BY <1>1, <1>2, PTL
-----------------------------------------------------------------------------
(* What a step of a retrieval leaves alone, and what it appends. *)
Writes(p) ==
  \/ /\ manifest' = manifest /\ torn' = torn
     /\ eng'[p].prev = eng[p].prev
  \/ /\ manifest' = manifest /\ torn' = torn
     /\ Unlock(p)
  \/ \E line \in Lines : /\ line.prev = Prev(p)
                         /\ Append1(line)
                         /\ eng'[p].prev = Kept

LEMMA StepWrites ==
  ASSUME Typed, NEW p \in Proc, Step(p)
  PROVE  Writes(p)
  <1> DEFINE e == eng[p]
  <1>0. e \in Locals /\ Busied(e)
    BY DEF Typed, TypeOK
  <1>a. ASSUME NEW f \in Locals, Busied(f), Recorded(p, f) PROVE eng'[p].prev = Kept
    BY <1>a, RecordedType, ZenonT(60) DEF Locals
  <1>1. CASE Loop(p) \/ StopSeen(p) \/ Fetched(p) \/ BackedOff(p) \/ NotDecrypted(p)
    <2>1. manifest' = manifest /\ torn' = torn
      BY <1>1 DEF Loop, StopSeen, Fetched, BackedOff, NotDecrypted, disk
    <2>2. eng'[p].prev = eng[p].prev
      <3>1. CASE Loop(p)
        BY <3>1, <1>0 DEF Loop, Typed, TypeOK, Locals
      <3>2. CASE StopSeen(p)
        BY <3>2, <1>0 DEF StopSeen, Typed, TypeOK, Locals
      <3>3. CASE Fetched(p)
        BY <3>3, <1>0 DEF Fetched, Typed, TypeOK, Locals
      <3>4. CASE BackedOff(p)
        BY <3>4, <1>0 DEF BackedOff, Typed, TypeOK, Locals
      <3>5. CASE NotDecrypted(p)
        BY <3>5, <1>0 DEF NotDecrypted, Typed, TypeOK, Locals
      <3> QED
        BY <1>1, <3>1, <3>2, <3>3, <3>4, <3>5
    <2> QED
      BY <2>1, <2>2 DEF Writes
  <1>2. ASSUME NEW s \in Seqs, Send(p, s) \/ Decrypted(p, s) PROVE Writes(p)
    <2>1. manifest' = manifest /\ torn' = torn
      BY <1>2 DEF Send, Decrypted, disk
    <2>2. eng'[p].prev = eng[p].prev
      <3>1. CASE Send(p, s)
        BY <3>1, <1>0 DEF Send, Typed, TypeOK, Locals
      <3>2. CASE Decrypted(p, s)
        BY <3>2, <1>0 DEF Decrypted, Typed, TypeOK, Locals
      <3> QED
        BY <1>2, <3>1, <3>2
    <2> QED
      BY <2>1, <2>2 DEF Writes
  <1>3. CASE RecordSession(p)
    <2>1. [e EXCEPT !.pc = "loop"] \in Locals /\ Busied([e EXCEPT !.pc = "loop"])
      BY <1>0 DEF Locals, Busied, Busy
    <2>2. Line(p, "session") \in Lines /\ Line(p, "session").prev = Prev(p)
      BY LineTypes DEF Line
    <2>3. eng'[p].prev = Kept
      BY <1>3, <1>a, <2>1 DEF RecordSession
    <2> QED
      BY <1>3, <2>2, <2>3 DEF RecordSession, Writes
  <1>4. CASE RecordEnd(p)
    <2>1. [e EXCEPT !.pc = "unlock"] \in Locals /\ Busied([e EXCEPT !.pc = "unlock"])
      BY <1>0 DEF Locals, Busied, Busy
    <2>2. End(p) \in Lines /\ End(p).prev = Prev(p)
      BY LineTypes DEF End
    <2>3. eng'[p].prev = Kept
      BY <1>4, <1>a, <2>1 DEF RecordEnd
    <2> QED
      BY <1>4, <2>2, <2>3 DEF RecordEnd, Writes
  <1>5. CASE RecordFile(p)
    <2>1. JobOver(e, "done") \in Locals /\ Busied(JobOver(e, "done"))
      BY <1>0, <1>5, JobOverType DEF RecordFile, Busied, Busy
    <2>2. Request(p, "ok") \in Lines /\ Request(p, "ok").prev = Prev(p)
      BY LineTypes DEF Request
    <2>3. eng'[p].prev = Kept
      BY <1>5, <1>a, <2>1 DEF RecordFile
    <2> QED
      BY <1>5, <2>2, <2>3 DEF RecordFile, Writes
  <1>6. ASSUME NEW permanent \in BOOLEAN, FetchFailed(p, permanent) PROVE Writes(p)
    <2> DEFINE r == IF permanent THEN "refused" ELSE "failed"
               f == AfterError(e, permanent)
    <2>1. f \in Locals /\ Busied(f)
      BY <1>0, <1>6, AfterErrorType DEF FetchFailed, Follows, Busied, Busy
    <2>2. Request(p, r) \in Lines /\ Request(p, r).prev = Prev(p)
      BY LineTypes DEF Request
    <2>3. Append1(Request(p, r)) /\ Recorded(p, f)
      BY <1>6 DEF FetchFailed
    <2> HIDE DEF f, r
    <2>4. eng'[p].prev = Kept
      BY <1>a, <2>1, <2>3
    <2> QED
      BY <2>2, <2>3, <2>4 DEF Writes
  <1>7. CASE Unlock(p)
    BY <1>7 DEF Unlock, Writes
  <1> QED
    BY <1>1, <1>2, <1>3, <1>4, <1>5, <1>6, <1>7 DEF Step

LEMMA StepOwn ==
  ASSUME Typed, NEW p \in Proc, Step(p)
  PROVE  /\ eng[p].pc # "idle"
         /\ \A q \in Proc : q # p => eng'[q] = eng[q]
         /\ Unlock(p) \/ lockfile' = lockfile
  <1>1. eng[p].pc # "idle"
    BY DEF Step, RecordSession, Loop, StopSeen, Fetched, BackedOff, NotDecrypted, RecordFile,
           RecordEnd, Unlock, Send, Decrypted, FetchFailed
  <1>2. PICK f : eng' = [eng EXCEPT ![p] = f]
    BY DEF Step, RecordSession, Loop, StopSeen, Fetched, BackedOff, NotDecrypted, RecordFile,
           RecordEnd, Unlock, Send, Decrypted, FetchFailed, Recorded
  <1>3. Unlock(p) \/ lockfile' = lockfile
    BY DEF Step, RecordSession, Loop, StopSeen, Fetched, BackedOff, NotDecrypted, RecordFile,
           RecordEnd, Send, Decrypted, FetchFailed, disk
  <1> QED
    BY <1>1, <1>2, <1>3 DEF Typed, TypeOK

(* Only the finally clause makes a retrieval idle; until then it is the same one. *)
Same(a, e) == a.pc # "idle" /\ a.redo = e.redo /\ a.session = e.session

LEMMA StepBusy ==
  ASSUME Typed, NEW p \in Proc, Step(p), ~Unlock(p)
  PROVE  Same(eng'[p], eng[p])
  <1> DEFINE e == eng[p]
  <1>0. e \in Locals /\ Busied(e)
    BY DEF Typed, TypeOK
  <1>a. ASSUME NEW f \in Locals, Busied(f), Recorded(p, f), Same(f, e) PROVE Same(eng'[p], e)
    <2>1. eng'[p] = [f EXCEPT !.prev = Kept]
      BY <1>a, RecordedType
    <2> QED
      BY <1>a, <2>1 DEF Locals, Same
  <1>1. CASE Loop(p)
    BY <1>0, <1>1 DEF Loop, Typed, TypeOK, Locals, Same
  <1>2. CASE StopSeen(p)
    BY <1>0, <1>2 DEF StopSeen, Typed, TypeOK, Locals, Same
  <1>3. CASE Fetched(p)
    BY <1>0, <1>3 DEF Fetched, Typed, TypeOK, Locals, Same
  <1>4. CASE BackedOff(p)
    BY <1>0, <1>4 DEF BackedOff, Typed, TypeOK, Locals, Same
  <1>5. CASE NotDecrypted(p)
    BY <1>0, <1>5 DEF NotDecrypted, Typed, TypeOK, Locals, Same
  <1>6. ASSUME NEW s \in Seqs, Send(p, s) PROVE Same(eng'[p], e)
    BY <1>0, <1>6 DEF Send, Typed, TypeOK, Locals, Same
  <1>7. ASSUME NEW s \in Seqs, Decrypted(p, s) PROVE Same(eng'[p], e)
    BY <1>0, <1>7 DEF Decrypted, Typed, TypeOK, Locals, Same
  <1>8. CASE RecordSession(p)
    <2>1. PICK f : f = [e EXCEPT !.pc = "loop"]
      OBVIOUS
    <2>2. f \in Locals /\ Busied(f) /\ Same(f, e)
      BY <1>0, <2>1 DEF Locals, Busied, Busy, Same
    <2> QED
      BY <1>8, <1>a, <2>1, <2>2 DEF RecordSession
  <1>9. CASE RecordEnd(p)
    <2>1. PICK f : f = [e EXCEPT !.pc = "unlock"]
      OBVIOUS
    <2>2. f \in Locals /\ Busied(f) /\ Same(f, e)
      BY <1>0, <2>1 DEF Locals, Busied, Busy, Same
    <2> QED
      BY <1>9, <1>a, <2>1, <2>2 DEF RecordEnd
  <1>10. CASE RecordFile(p)
    <2>1. PICK f : f = JobOver(e, "done")
      OBVIOUS
    <2>2. f \in Locals /\ Busied(f) /\ Same(f, e)
      BY <1>0, <1>10, <2>1, JobOverType DEF RecordFile, Busied, Busy, Same
    <2> QED
      BY <1>10, <1>a, <2>1, <2>2 DEF RecordFile
  <1>11. ASSUME NEW permanent \in BOOLEAN, FetchFailed(p, permanent)
         PROVE  Same(eng'[p], e)
    <2>1. PICK f : f = AfterError(e, permanent)
      OBVIOUS
    <2>2. f \in Locals /\ Busied(f) /\ Same(f, e)
      BY <1>0, <1>11, <2>1, AfterErrorType DEF FetchFailed, Follows, Busied, Busy, Same
    <2> QED
      BY <1>11, <1>a, <2>1, <2>2 DEF FetchFailed
  <1> QED
    BY <1>1, <1>2, <1>3, <1>4, <1>5, <1>6, <1>7, <1>8, <1>9, <1>10, <1>11 DEF Step
-----------------------------------------------------------------------------
(* One writer.  The lock file is there while a process is under way, which is
   what makes its exclusive creation keep every other process out. *)
Alone ==
  /\ OneWriter
  /\ \A p \in Proc : /\ eng[p].pc # "idle" => lockfile
                     /\ eng[p].pc = "idle" => eng[p] = Idle

LEMMA AloneInit == Init => Alone
  BY DEF Init, Alone, OneWriter, Idle

LEMMA AloneStep == Typed /\ Alone /\ [Next]_vars => Alone'
  <1> SUFFICES ASSUME Typed, Alone, [Next]_vars PROVE Alone'
    OBVIOUS
  <1>0. Idle.pc = "idle"
    BY DEF Idle
  <1>1. ASSUME NEW p \in Proc, Step(p) PROVE Alone'
    <2>1. /\ eng[p].pc # "idle"
          /\ \A q \in Proc : q # p => eng'[q] = eng[q]
          /\ Unlock(p) \/ lockfile' = lockfile
      BY <1>1, StepOwn
    <2>2. \A q \in Proc : q # p => eng'[q] = Idle
      BY <2>1 DEF Alone, OneWriter
    <2>3. eng'[p].pc = "idle" => eng'[p] = Idle
      <3>1. CASE Unlock(p)
        BY <3>1 DEF Unlock, Typed, TypeOK
      <3>2. CASE ~Unlock(p)
        BY <1>1, <3>2, StepBusy DEF Same
      <3> QED
        BY <3>1, <3>2
    <2>4. Unlock(p) => eng'[p] = Idle
      BY DEF Unlock, Typed, TypeOK
    <2> QED
      BY <1>0, <2>1, <2>2, <2>3, <2>4 DEF Alone, OneWriter
  <1>2. CASE RemoveStaleLock
    BY <1>2 DEF RemoveStaleLock, Alone, OneWriter
  <1>3. CASE LockFails
    BY <1>3 DEF LockFails, Alone, OneWriter
  <1>4. ASSUME NEW p \in Proc, NEW redo \in BOOLEAN, Start(p, redo) PROVE Alone'
    <2>1. \A q \in Proc : eng[q] = Idle
      BY <1>4 DEF Start, LockFree, Alone
    <2>2. lockfile' = TRUE /\ eng'[p].pc = "session"
      BY <1>4 DEF Start, Idle, Typed, TypeOK
    <2>3. \A q \in Proc : q # p => eng'[q] = eng[q]
      BY <1>4 DEF Start, Typed, TypeOK
    <2> QED
      BY <1>0, <2>1, <2>2, <2>3 DEF Alone, OneWriter
  <1>5. ASSUME NEW p \in Proc, Stop(p) \/ Raise(p) PROVE Alone'
    <2>1. eng[p].pc # "idle" /\ eng'[p].pc # "idle" /\ lockfile' = lockfile
      <3>1. eng[p] \in Locals
        BY DEF Typed, TypeOK
      <3>2. CASE Stop(p)
        BY <3>1, <3>2 DEF Stop, disk, Typed, TypeOK, Locals
      <3>3. CASE Raise(p)
        BY <3>1, <3>3 DEF Raise, AfterRaise, Appending, Typed, TypeOK, Locals
      <3> QED
        BY <1>5, <3>2, <3>3
    <2>2. \A q \in Proc : q # p => eng'[q] = eng[q]
      BY <1>5 DEF Stop, Raise, Typed, TypeOK
    <2> QED
      BY <2>1, <2>2 DEF Alone, OneWriter
  <1>6. ASSUME NEW p \in Proc, Crash(p) PROVE Alone'
    BY <1>0, <1>6 DEF Crash, Alone, OneWriter, Typed, TypeOK
  <1>7. CASE UNCHANGED vars
    BY <1>7 DEF vars, disk, Alone, OneWriter
  <1> QED
    BY <1>1, <1>2, <1>3, <1>4, <1>5, <1>6, <1>7 DEF Next, Environment, Finished

(* "the lock: one process writes at a time" (Store.lock). *)
THEOREM OneWriterAlways == Spec => []OneWriter
  <1>1. Spec => [](Typed /\ Alone)
    BY TypedInit, TypedStep, AloneInit, AloneStep, PTL DEF Spec
  <1>2. Alone => OneWriter
    BY DEF Alone
  <1> QED
    BY <1>1, <1>2, PTL
-----------------------------------------------------------------------------
(* The chain.  What makes it hold is that the hash a Store keeps is that of the
   last line, whoever wrote it: nobody else has written since. *)
Linked ==
  \A p \in Proc : Whole(Len(manifest)) => eng[p].prev \in {None, Len(manifest)}

Chained == ChainHolds /\ Linked

LEMMA ChainedInit == Init => Chained
  BY EmptySeq DEF Init, Chained, ChainHolds, Linked, Idle

LEMMA ManifestLength ==
  ASSUME Typed
  PROVE  Len(manifest) \in Nat /\ DOMAIN manifest = 1 .. Len(manifest)
  BY LenProperties DEF Typed, TypeOK

LEMMA AppendedLine ==
  ASSUME Typed, NEW line \in Lines, Append1(line)
  PROVE  LET n == Len(manifest)
         IN /\ Len(manifest') = n + 1
            /\ DOMAIN manifest' = 1 .. n + 1
            /\ manifest'[n + 1] = IF torn THEN Junk ELSE line
            /\ \A m \in 1 .. n : manifest'[m] = manifest[m]
  <1>1. Junk \in Lines
    BY DEF Lines
  <1>2. PICK l \in Lines : manifest' = Append(manifest, l) /\ l = IF torn THEN Junk ELSE line
    BY <1>1 DEF Append1
  <1>3. manifest \in Seq(Lines)
    BY DEF Typed, TypeOK
  <1> QED
    BY <1>2, <1>3, AppendProperties, LenProperties

(* An append keeps the chain, and the writer's hash is that of its line. *)
LEMMA ChainedAppend ==
  ASSUME Typed, Chained, NEW p \in Proc, NEW line \in Lines,
         line.prev = Prev(p), Append1(line), eng'[p].prev = Kept
  PROVE  ChainHolds' /\ (Whole(Len(manifest))' => eng'[p].prev = Len(manifest'))
  <1> DEFINE n == Len(manifest)
  <1>0. n \in Nat /\ DOMAIN manifest = 1 .. n
    BY ManifestLength
  <1>1. /\ Len(manifest') = n + 1
        /\ DOMAIN manifest' = 1 .. n + 1
        /\ manifest'[n + 1] = IF torn THEN Junk ELSE line
        /\ \A m \in 1 .. n : manifest'[m] = manifest[m]
    BY AppendedLine
  <1>2. Prev(p) = IF eng[p].prev = None THEN n ELSE eng[p].prev
    BY DEF Prev
  <1>3. Whole(n) => eng[p].prev \in {None, n}
    BY DEF Chained, Linked
  <1>4. ASSUME NEW m \in 1 .. n + 1, \A k \in 1 .. m : manifest'[k] # Junk
        PROVE  manifest'[m].prev = m - 1
    <2>1. CASE m = n + 1
      <3>1. ~torn /\ manifest'[n + 1] = line
        BY <1>0, <1>1, <1>4, <2>1
      <3>2. Whole(n)
        BY <1>0, <1>1, <1>4, <2>1 DEF Whole
      <3> QED
        BY <1>0, <1>2, <1>3, <2>1, <3>1, <3>2
    <2>2. CASE m # n + 1
      <3>1. m \in 1 .. n /\ manifest'[m] = manifest[m]
        BY <1>0, <1>1, <2>2
      <3>2. Whole(m)
        BY <1>0, <1>1, <1>4, <3>1 DEF Whole
      <3> QED
        BY <1>0, <3>1, <3>2 DEF Chained, ChainHolds
    <2> QED
      BY <2>1, <2>2
  <1>5. Whole(Len(manifest))' => eng'[p].prev = n + 1
    <2>1. CASE torn
      BY <1>0, <1>1, <2>1 DEF Whole
    <2>2. CASE ~torn
      BY <2>2 DEF Kept
    <2> QED
      BY <2>1, <2>2
  <1> HIDE DEF n
  <1>6. ChainHolds'
    BY <1>1, <1>4 DEF ChainHolds, Whole
  <1> QED
    BY <1>1, <1>5, <1>6

LEMMA ChainedStep == Typed /\ Alone /\ Chained /\ [Next]_vars => Chained'
  <1> SUFFICES ASSUME Typed, Alone, Chained, [Next]_vars PROVE Chained'
    OBVIOUS
  <1>0. Idle.prev = None
    BY DEF Idle
  <1>1. ASSUME NEW p \in Proc, Step(p) PROVE Chained'
    <2>1. \A q \in Proc : q # p => eng'[q] = Idle
      BY <1>1, StepOwn DEF Alone, OneWriter
    <2>2. SUFFICES /\ ChainHolds'
                   /\ Whole(Len(manifest))' => eng'[p].prev \in {None, Len(manifest')}
      BY <1>0, <2>1 DEF Chained, Linked
    <2>3. CASE manifest' = manifest /\ eng'[p].prev = eng[p].prev
      BY <2>3 DEF Chained, ChainHolds, Linked, Whole
    <2>4. CASE manifest' = manifest /\ Unlock(p)
      <3>1. eng'[p].prev = None
        BY <1>0, <2>4 DEF Unlock, Typed, TypeOK
      <3> QED
        BY <2>4, <3>1 DEF Chained, ChainHolds, Whole
    <2>5. ASSUME NEW line \in Lines,
                 line.prev = Prev(p), Append1(line), eng'[p].prev = Kept
          PROVE  /\ ChainHolds'
                 /\ Whole(Len(manifest))' => eng'[p].prev \in {None, Len(manifest')}
      BY <2>5, ChainedAppend
    <2> QED
      BY <1>1, <2>3, <2>4, <2>5, StepWrites DEF Writes
  <1>2. ASSUME manifest' = manifest,
               \A q \in Proc : eng'[q].prev \in {eng[q].prev, None}
        PROVE  Chained'
    BY <1>2 DEF Chained, ChainHolds, Linked, Whole
  <1>3. CASE RemoveStaleLock \/ LockFails \/ UNCHANGED vars
    BY <1>2, <1>3 DEF RemoveStaleLock, LockFails, vars, disk
  <1>4. ASSUME NEW p \in Proc, NEW redo \in BOOLEAN, Start(p, redo) PROVE Chained'
    BY <1>2, <1>4 DEF Start, Idle, Typed, TypeOK
  <1>5. ASSUME NEW p \in Proc, Stop(p) PROVE Chained'
    BY <1>2, <1>5 DEF Stop, disk, Typed, TypeOK, Locals
  <1>6. ASSUME NEW p \in Proc, Raise(p) PROVE Chained'
    BY <1>2, <1>6 DEF Raise, Typed, TypeOK, Locals
  <1>7. ASSUME NEW p \in Proc, Crash(p) PROVE Chained'
    BY <1>0, <1>2, <1>7 DEF Crash, Typed, TypeOK
  <1> QED
    BY <1>1, <1>3, <1>4, <1>5, <1>6, <1>7 DEF Next, Environment, Finished

(* Every line up to the first spoilt one carries the hash of the line before it
   (Store.record, Store._last_line_hash), whatever sessions wrote them. *)
THEOREM ChainAlwaysHolds == Spec => []ChainHolds
  <1>1. Spec => [](Typed /\ Alone /\ Chained)
    BY TypedInit, TypedStep, AloneInit, AloneStep, ChainedInit, ChainedStep, PTL DEF Spec
  <1>2. Chained => ChainHolds
    BY DEF Chained
  <1> QED
    BY <1>1, <1>2, PTL
-----------------------------------------------------------------------------
(* The files.  Between the request and its record the process has a file in
   hand: the number it asked for stays free until the bytes are put there, and
   the files it then names were put there for the line it is about to write. *)
Hands == {"fetch", "fetched", "decrypted"}

InHand(p) ==
  LET e == eng[p]
      Put(s) == [job |-> e.job, seq |-> s, line |-> Len(manifest) + 1]
  IN /\ e.pc = "fetch" => ~Taken(enc, e.job, e.seq)
     /\ e.pc \in {"fetched", "decrypted"} => Put(e.seq) \in enc
     /\ e.pc = "decrypted" /\ e.stored # 0 => Put(e.stored) \in dec

Filed == NeverOverwritten /\ RecordedFilesKept /\ \A p \in Proc : InHand(p)

LEMMA FiledInit == Init => Filed
  BY DEF Init, Filed, NeverOverwritten, RecordedFilesKept, InHand, Idle

(* No number is in use twice in a folder; a file under a free number keeps it so. *)
Distinct(files) == \A f, g \in files : f.job = g.job /\ f.seq = g.seq => f = g

LEMMA DistinctPut ==
  ASSUME NEW files, Distinct(files), NEW j, NEW s, NEW n, ~Taken(files, j, s)
  PROVE  Distinct(files \cup {[job |-> j, seq |-> s, line |-> n]})
  BY DEF Distinct, Taken

(* The steps after which nothing is in hand. *)
LEMMA EmptyHands ==
  ASSUME Typed, NEW p \in Proc,
         \/ Loop(p) \/ StopSeen(p) \/ BackedOff(p) \/ Unlock(p)
         \/ RecordSession(p) \/ RecordEnd(p) \/ RecordFile(p)
         \/ \E permanent \in BOOLEAN : FetchFailed(p, permanent)
  PROVE  eng'[p].pc \notin Hands
  <1> DEFINE e == eng[p]
  <1>0. e \in Locals /\ Busied(e)
    BY DEF Typed, TypeOK
  <1>a. ASSUME NEW f \in Locals, Busied(f), Recorded(p, f) PROVE eng'[p].pc = f.pc
    <2>1. eng'[p] = [f EXCEPT !.prev = Kept]
      BY <1>a, RecordedType
    <2> QED
      BY <2>1 DEF Locals
  <1>1. CASE Loop(p)
    BY <1>0, <1>1 DEF Loop, Typed, TypeOK, Locals, Hands
  <1>2. CASE StopSeen(p)
    BY <1>0, <1>2 DEF StopSeen, Typed, TypeOK, Locals, Hands
  <1>3. CASE BackedOff(p)
    BY <1>0, <1>3 DEF BackedOff, Typed, TypeOK, Locals, Hands
  <1>4. CASE Unlock(p)
    BY <1>4 DEF Unlock, Idle, Typed, TypeOK, Hands
  <1>5. CASE RecordSession(p)
    <2>1. PICK f : f = [e EXCEPT !.pc = "loop"]
      OBVIOUS
    <2>2. f \in Locals /\ Busied(f) /\ f.pc = "loop"
      BY <1>0, <2>1 DEF Locals, Busied, Busy
    <2> QED
      BY <1>5, <1>a, <2>1, <2>2 DEF RecordSession, Hands
  <1>6. CASE RecordEnd(p)
    <2>1. PICK f : f = [e EXCEPT !.pc = "unlock"]
      OBVIOUS
    <2>2. f \in Locals /\ Busied(f) /\ f.pc = "unlock"
      BY <1>0, <2>1 DEF Locals, Busied, Busy
    <2> QED
      BY <1>6, <1>a, <2>1, <2>2 DEF RecordEnd, Hands
  <1>7. CASE RecordFile(p)
    <2>1. PICK f : f = JobOver(e, "done")
      OBVIOUS
    <2>2. f \in Locals /\ Busied(f) /\ f.pc \in {"loop", "end"}
      BY <1>0, <1>7, <2>1, JobOverType DEF RecordFile, Busied, Busy
    <2> QED
      BY <1>7, <1>a, <2>1, <2>2 DEF RecordFile, Hands
  <1>8. ASSUME NEW permanent \in BOOLEAN, FetchFailed(p, permanent)
        PROVE  eng'[p].pc \notin Hands
    <2>1. PICK f : f = AfterError(e, permanent)
      OBVIOUS
    <2>2. f \in Locals /\ Busied(f) /\ f.pc \notin Hands
      BY <1>0, <1>8, <2>1, AfterErrorType DEF FetchFailed, Follows, Busied, Busy, Hands
    <2> QED
      BY <1>8, <1>a, <2>1, <2>2 DEF FetchFailed
  <1> QED
    BY <1>1, <1>2, <1>3, <1>4, <1>5, <1>6, <1>7, <1>8

(* A line that records no file leaves the recorded files as they are. *)
LEMMA NoFileRecorded ==
  ASSUME Typed, RecordedFilesKept, UNCHANGED <<enc, dec>>,
         NEW line \in Lines, Append1(line), line.kind = "request" => line.result # "ok"
  PROVE  RecordedFilesKept'
  <1> DEFINE n == Len(manifest)
  <1>0. n \in Nat /\ DOMAIN manifest = 1 .. n
    BY ManifestLength
  <1>1. /\ DOMAIN manifest' = 1 .. n + 1
        /\ manifest'[n + 1] = IF torn THEN Junk ELSE line
        /\ \A m \in 1 .. n : manifest'[m] = manifest[m]
    BY AppendedLine
  <1>2. ASSUME NEW m \in 1 .. n + 1, manifest'[m].kind = "request", manifest'[m].result = "ok"
        PROVE  m \in 1 .. n
    BY <1>0, <1>1, <1>2 DEF Junk
  <1> HIDE DEF n
  <1> QED
    BY <1>0, <1>1, <1>2 DEF RecordedFilesKept, IsOk, IsRequest

(* The line of a file in hand names where it was put. *)
LEMMA FileRecorded ==
  ASSUME Typed, Filed, NEW p \in Proc, RecordFile(p)
  PROVE  RecordedFilesKept'
  <1> DEFINE n == Len(manifest)
             e == eng[p]
             line == Request(p, "ok")
  <1>0. n \in Nat /\ DOMAIN manifest = 1 .. n
    BY ManifestLength
  <1>1. line \in Lines /\ Append1(line) /\ enc' = enc /\ dec' = dec /\ e.pc = "decrypted"
    BY LineTypes DEF RecordFile
  <1>2. line.job = e.job /\ line.seq = e.seq /\ line.stored = e.stored
    BY DEF Request, Stored
  <1>3. /\ [job |-> line.job, seq |-> line.seq, line |-> n + 1] \in enc
        /\ line.stored # 0 => [job |-> line.job, seq |-> line.stored, line |-> n + 1] \in dec
    BY <1>1, <1>2 DEF Filed, InHand
  <1> HIDE DEF line
  <1>4. /\ DOMAIN manifest' = 1 .. n + 1
        /\ manifest'[n + 1] = IF torn THEN Junk ELSE line
        /\ \A m \in 1 .. n : manifest'[m] = manifest[m]
    BY <1>1, AppendedLine
  <1> HIDE DEF n
  <1>5. SUFFICES ASSUME NEW m \in 1 .. n + 1, NEW j \in Jobs,
                        manifest'[m].kind = "request", manifest'[m].job = j,
                        manifest'[m].result = "ok"
                 PROVE  /\ [job |-> j, seq |-> manifest'[m].seq, line |-> m] \in enc
                        /\ manifest'[m].stored # 0 =>
                             [job |-> j, seq |-> manifest'[m].stored, line |-> m] \in dec
    BY <1>1, <1>4 DEF RecordedFilesKept, IsOk, IsRequest
  <1>6. CASE m \in 1 .. n
    BY <1>0, <1>4, <1>5, <1>6 DEF Filed, RecordedFilesKept, IsOk, IsRequest
  <1>7. CASE m = n + 1
    <2>1. manifest'[n + 1] = line
      BY <1>4, <1>5, <1>7 DEF Junk
    <2> QED
      BY <1>3, <1>5, <1>7, <2>1
  <1> QED
    BY <1>0, <1>6, <1>7

LEMMA FiledStepOf ==
  ASSUME Typed, Alone, Filed, NEW p \in Proc, Step(p)
  PROVE  Filed'
  <1> DEFINE e == eng[p]
  <1>0. e \in Locals
    BY DEF Typed, TypeOK
  <1>1. \A q \in Proc : q # p => InHand(q)'
    <2>1. \A q \in Proc : q # p => eng'[q] = Idle
      BY StepOwn DEF Alone, OneWriter
    <2> QED
      BY <2>1 DEF InHand, Idle
  <1>2. CASE Loop(p) \/ StopSeen(p) \/ BackedOff(p) \/ Unlock(p)
    <2>1. UNCHANGED <<manifest, enc, dec>>
      BY <1>2 DEF Loop, StopSeen, BackedOff, Unlock, disk
    <2>2. InHand(p)'
      BY <1>2, EmptyHands DEF InHand, Hands
    <2> QED
      BY <1>1, <2>1, <2>2 DEF Filed, NeverOverwritten, RecordedFilesKept, IsOk, IsRequest
  <1>3. CASE \/ RecordSession(p) \/ RecordEnd(p) \/ RecordFile(p)
             \/ \E permanent \in BOOLEAN : FetchFailed(p, permanent)
    <2>1. UNCHANGED <<enc, dec>>
      BY <1>3 DEF RecordSession, RecordEnd, RecordFile, FetchFailed
    <2>2. InHand(p)'
      BY <1>3, EmptyHands DEF InHand, Hands
    <2>3. RecordedFilesKept'
      <3>1. CASE RecordSession(p)
        <4>1. Line(p, "session") \in Lines /\ Line(p, "session").kind = "session"
          BY LineTypes DEF Line
        <4> QED
          BY <2>1, <3>1, <4>1, NoFileRecorded DEF RecordSession, Filed
      <3>2. CASE RecordEnd(p)
        <4>1. End(p) \in Lines /\ End(p).kind = "end"
          BY LineTypes DEF End
        <4> QED
          BY <2>1, <3>2, <4>1, NoFileRecorded DEF RecordEnd, Filed
      <3>3. ASSUME NEW permanent \in BOOLEAN, FetchFailed(p, permanent)
            PROVE  RecordedFilesKept'
        <4>1. PICK r \in {"refused", "failed"} : Append1(Request(p, r))
          BY <3>3 DEF FetchFailed
        <4>2. Request(p, r) \in Lines /\ Request(p, r).result # "ok"
          BY LineTypes DEF Request
        <4> QED
          BY <2>1, <4>1, <4>2, NoFileRecorded DEF Filed
      <3> QED
        BY <1>3, <3>1, <3>2, <3>3, FileRecorded
    <2> QED
      BY <1>1, <2>1, <2>2, <2>3 DEF Filed, NeverOverwritten
  <1>4. ASSUME NEW s \in Seqs, Send(p, s) PROVE Filed'
    <2>1. UNCHANGED <<manifest, enc, dec>>
      BY <1>4 DEF Send, disk
    <2>2. eng'[p].pc = "fetch" /\ eng'[p].job = e.job /\ eng'[p].seq = s
      BY <1>0, <1>4 DEF Send, Typed, TypeOK, Locals
    <2>3. ~Taken(enc, e.job, s)
      BY <1>4 DEF Send, FirstFree, Taken
    <2>4. InHand(p)'
      BY <2>1, <2>2, <2>3 DEF InHand, Taken
    <2> QED
      BY <1>1, <2>1, <2>4 DEF Filed, NeverOverwritten, RecordedFilesKept, IsOk, IsRequest
  <1>5. CASE Fetched(p)
    <2>1. /\ UNCHANGED <<manifest, dec>>
          /\ enc' = enc \cup {[job |-> e.job, seq |-> e.seq, line |-> Len(manifest) + 1]}
      BY <1>5 DEF Fetched
    <2>2. eng'[p].pc = "fetched" /\ eng'[p].job = e.job /\ eng'[p].seq = e.seq
      BY <1>0, <1>5 DEF Fetched, Typed, TypeOK, Locals
    <2>3. Distinct(enc')
      <3>1. Distinct(enc)
        BY DEF Filed, NeverOverwritten, Distinct
      <3>2. ~Taken(enc, e.job, e.seq)
        BY <1>5 DEF Filed, InHand, Fetched
      <3> QED
        BY <2>1, <3>1, <3>2, DistinctPut
    <2>4. InHand(p)'
      BY <2>1, <2>2 DEF InHand
    <2>5. NeverOverwritten'
      BY <2>1, <2>3 DEF Filed, NeverOverwritten, Distinct
    <2> QED
      BY <1>1, <2>1, <2>4, <2>5 DEF Filed, RecordedFilesKept, IsOk, IsRequest
  <1>6. ASSUME NEW s \in Seqs, Decrypted(p, s) PROVE Filed'
    <2>1. /\ UNCHANGED <<manifest, enc>>
          /\ dec' = dec \cup {[job |-> e.job, seq |-> s, line |-> Len(manifest) + 1]}
      BY <1>6 DEF Decrypted
    <2>2. /\ eng'[p].pc = "decrypted" /\ eng'[p].job = e.job
          /\ eng'[p].seq = e.seq /\ eng'[p].stored = s
      BY <1>0, <1>6 DEF Decrypted, Typed, TypeOK, Locals
    <2>3. Distinct(dec')
      <3>1. Distinct(dec)
        BY DEF Filed, NeverOverwritten, Distinct
      <3>2. ~Taken(dec, e.job, s)
        BY <1>6 DEF Decrypted, FirstFree
      <3> QED
        BY <2>1, <3>1, <3>2, DistinctPut
    <2>4. InHand(p)'
      BY <1>6, <2>1, <2>2 DEF Filed, InHand, Decrypted
    <2>5. NeverOverwritten'
      BY <2>1, <2>3 DEF Filed, NeverOverwritten, Distinct
    <2> QED
      BY <1>1, <2>1, <2>4, <2>5 DEF Filed, RecordedFilesKept, IsOk, IsRequest
  <1>7. CASE NotDecrypted(p)
    <2>1. UNCHANGED <<manifest, enc, dec>>
      BY <1>7 DEF NotDecrypted, disk
    <2>2. /\ eng'[p].pc = "decrypted" /\ eng'[p].job = e.job
          /\ eng'[p].seq = e.seq /\ eng'[p].stored = 0
      BY <1>0, <1>7 DEF NotDecrypted, Typed, TypeOK, Locals
    <2>3. [job |-> e.job, seq |-> e.seq, line |-> Len(manifest) + 1] \in enc
      BY <1>7 DEF Filed, InHand, NotDecrypted
    <2>4. InHand(p)'
      BY <2>1, <2>2, <2>3 DEF InHand
    <2> QED
      BY <1>1, <2>1, <2>4 DEF Filed, NeverOverwritten, RecordedFilesKept, IsOk, IsRequest
  <1> QED
    BY <1>2, <1>3, <1>4, <1>5, <1>6, <1>7 DEF Step

(* What happens from outside puts no file down, or half a one under a free number. *)
LEMMA FiledEnvironment ==
  ASSUME Typed, Filed, Environment
  PROVE  Filed'
  <1>1. ASSUME UNCHANGED <<manifest, enc>>, dec \subseteq dec', Distinct(dec'),
               \A q \in Proc : \/ eng'[q].pc \notin Hands
                               \/ /\ eng'[q].pc = eng[q].pc /\ eng'[q].job = eng[q].job
                                  /\ eng'[q].seq = eng[q].seq
                                  /\ eng'[q].stored = eng[q].stored
        PROVE  Filed'
    <2>1. NeverOverwritten'
      BY <1>1 DEF Filed, NeverOverwritten, Distinct
    <2>2. RecordedFilesKept'
      BY <1>1 DEF Filed, RecordedFilesKept, IsOk, IsRequest
    <2>3. ASSUME NEW q \in Proc PROVE InHand(q)'
      BY <1>1, <2>3 DEF Filed, InHand, Hands, Taken
    <2> QED
      BY <2>1, <2>2, <2>3 DEF Filed
  <1>2. Distinct(dec)
    BY DEF Filed, NeverOverwritten, Distinct
  <1>3. ASSUME NEW p \in Proc, Interrupted(p) PROVE dec \subseteq dec' /\ Distinct(dec')
    <2>1. CASE dec' = dec
      BY <1>2, <2>1
    <2>2. ASSUME NEW s \in Seqs, FirstFree(dec, eng[p].job, s),
                 dec' = dec \cup {[job |-> eng[p].job, seq |-> s, line |-> 0]}
          PROVE  dec \subseteq dec' /\ Distinct(dec')
      BY <1>2, <2>2, DistinctPut DEF FirstFree
    <2> QED
      BY <1>3, <2>1, <2>2 DEF Interrupted
  <1>4. CASE RemoveStaleLock \/ LockFails
    BY <1>1, <1>2, <1>4 DEF RemoveStaleLock, LockFails
  <1>5. ASSUME NEW p \in Proc, NEW redo \in BOOLEAN, Start(p, redo) PROVE Filed'
    <2>1. \A q \in Proc : eng'[q] = eng[q] \/ eng'[q].pc \notin Hands
      BY <1>5 DEF Start, Idle, Hands, Typed, TypeOK
    <2> QED
      BY <1>1, <1>2, <1>5, <2>1 DEF Start
  <1>6. ASSUME NEW p \in Proc, Stop(p) PROVE Filed'
    <2>1. /\ \A q \in Proc : q # p => eng'[q] = eng[q]
          /\ eng'[p].pc = eng[p].pc /\ eng'[p].job = eng[p].job
          /\ eng'[p].seq = eng[p].seq /\ eng'[p].stored = eng[p].stored
      BY <1>6 DEF Stop, Typed, TypeOK, Locals
    <2> QED
      BY <1>1, <1>2, <1>6, <2>1 DEF Stop, disk
  <1>7. ASSUME NEW p \in Proc, Raise(p) PROVE Filed'
    <2>1. \A q \in Proc : eng'[q] = eng[q] \/ eng'[q].pc \notin Hands
      BY <1>7 DEF Raise, AfterRaise, Hands, Typed, TypeOK, Locals
    <2> QED
      BY <1>1, <1>3, <1>7, <2>1 DEF Raise
  <1>8. ASSUME NEW p \in Proc, Crash(p) PROVE Filed'
    <2>1. \A q \in Proc : eng'[q] = eng[q] \/ eng'[q].pc \notin Hands
      BY <1>8 DEF Crash, Idle, Hands, Typed, TypeOK
    <2> QED
      BY <1>1, <1>3, <1>8, <2>1 DEF Crash
  <1> QED
    BY <1>4, <1>5, <1>6, <1>7, <1>8 DEF Environment

LEMMA FiledStep == Typed /\ Alone /\ Filed /\ [Next]_vars => Filed'
  <1> SUFFICES ASSUME Typed, Alone, Filed, [Next]_vars PROVE Filed'
    OBVIOUS
  <1>1. CASE UNCHANGED vars
    <2>1. UNCHANGED <<manifest, enc, dec, eng>>
      BY <1>1 DEF vars, disk
    <2> QED
      BY <2>1 DEF Filed, NeverOverwritten, RecordedFilesKept, InHand, IsOk, IsRequest, Taken
  <1>2. ASSUME NEW p \in Proc, Step(p) PROVE Filed'
    BY <1>2, FiledStepOf
  <1>3. CASE Environment
    BY <1>3, FiledEnvironment
  <1> QED
    BY <1>1, <1>2, <1>3 DEF Next, Finished

LEMMA FiledAlways == Spec => [](Typed /\ Alone /\ Filed)
  BY TypedInit, TypedStep, AloneInit, AloneStep, FiledInit, FiledStep, PTL DEF Spec

(* "Nothing there is ever overwritten": a file is always put under a number of
   its folder that none has (Store.next_path), also after kills. *)
THEOREM NothingOverwritten == Spec => []NeverOverwritten
  <1>1. Filed => NeverOverwritten
    BY DEF Filed
  <1> QED
    BY <1>1, FiledAlways, PTL

(* A record of a file names the files that hold its bytes, as received and
   decrypted (_run_job, from next_path to record). *)
THEOREM RecordsNameFiles == Spec => []RecordedFilesKept
  <1>1. Filed => RecordedFilesKept
    BY DEF Filed
  <1> QED
    BY <1>1, FiledAlways, PTL
-----------------------------------------------------------------------------
(* Not asked for again.  A retrieval that was not told to redownload is busy
   only with a job of which no record says that its file came. *)
AskedFor(p) == eng[p].pc \in Busy /\ ~eng[p].redo => ~Latest(eng[p].job)

Once == RetrievedOnce /\ \A p \in Proc : AskedFor(p)

LEMMA OnceInit == Init => Once
  BY EmptySeq DEF Init, Once, RetrievedOnce, AskedFor, Idle, Busy

(* A line that records no file changes nothing of what was retrieved. *)
LEMMA SameRetrieved ==
  ASSUME Typed, RetrievedOnce,
         NEW line \in Lines, Append1(line), line.kind = "request" => line.result # "ok"
  PROVE  RetrievedOnce' /\ \A j \in Jobs : Latest(j)' => Latest(j)
  <1> DEFINE n == Len(manifest)
  <1>0. n \in Nat /\ DOMAIN manifest = 1 .. n
    BY ManifestLength
  <1>1. /\ DOMAIN manifest' = 1 .. n + 1
        /\ manifest'[n + 1] = IF torn THEN Junk ELSE line
        /\ \A m \in 1 .. n : manifest'[m] = manifest[m]
    BY AppendedLine
  <1> HIDE DEF n
  <1>2. ASSUME NEW m \in 1 .. n + 1, manifest'[m].kind = "request", manifest'[m].result = "ok"
        PROVE  m \in 1 .. n /\ manifest'[m] = manifest[m]
    BY <1>0, <1>1, <1>2 DEF Junk
  <1>3. RetrievedOnce'
    BY <1>0, <1>1, <1>2 DEF RetrievedOnce, IsOk, IsRequest
  <1>4. ASSUME NEW j \in Jobs, Latest(j)' PROVE Latest(j)
    BY <1>0, <1>1, <1>2, <1>4 DEF Latest, IsOk, IsRequest
  <1> QED
    BY <1>3, <1>4

(* The record of a file: a second one for the job is a redownload's. *)
LEMMA OnceRecorded ==
  ASSUME Typed, Once, NEW p \in Proc, RecordFile(p)
  PROVE  RetrievedOnce'
  <1> DEFINE n == Len(manifest)
             e == eng[p]
             line == Request(p, "ok")
  <1>0. n \in Nat /\ DOMAIN manifest = 1 .. n
    BY ManifestLength
  <1>1. line \in Lines /\ Append1(line) /\ e.pc = "decrypted"
    BY LineTypes DEF RecordFile
  <1>2. line.job = e.job /\ line.redo = e.redo
    BY DEF Request
  <1>3. e.redo \in BOOLEAN
    BY DEF Typed, TypeOK, Locals
  <1>4. ~line.redo => \A m \in 1 .. n : ~IsOk(m, line.job)
    BY <1>0, <1>1, <1>2 DEF Once, AskedFor, Busy, Latest
  <1>5. line.redo \in BOOLEAN
    BY <1>2, <1>3
  <1> HIDE DEF line
  <1>6. /\ DOMAIN manifest' = 1 .. n + 1
        /\ manifest'[n + 1] = IF torn THEN Junk ELSE line
        /\ \A m \in 1 .. n : manifest'[m] = manifest[m]
    BY <1>1, AppendedLine
  <1> HIDE DEF n
  <1>7. SUFFICES ASSUME NEW m \in 1 .. n + 1, NEW k \in 1 .. n + 1, NEW j \in Jobs, m < k,
                        IsOk(m, j)', IsOk(k, j)'
                 PROVE  manifest'[k].redo
    BY <1>6 DEF RetrievedOnce
  <1>8. m \in 1 .. n /\ manifest'[m] = manifest[m] /\ IsOk(m, j)
    BY <1>0, <1>6, <1>7 DEF IsOk, IsRequest
  <1>9. CASE k \in 1 .. n
    BY <1>0, <1>6, <1>7, <1>8, <1>9 DEF Once, RetrievedOnce, IsOk, IsRequest
  <1>10. CASE k = n + 1
    <2>1. manifest'[n + 1] = line /\ line.job = j
      BY <1>6, <1>7, <1>10 DEF Junk, IsOk, IsRequest
    <2> QED
      BY <1>4, <1>5, <1>8, <1>10, <2>1
  <1> QED
    BY <1>0, <1>9, <1>10

LEMMA OnceStepOf ==
  ASSUME Typed, Alone, Once, NEW p \in Proc, Step(p)
  PROVE  Once'
  <1> DEFINE e == eng[p]
  <1>0. e \in Locals /\ Busied(e)
    BY DEF Typed, TypeOK
  <1>1. \A q \in Proc : q # p => AskedFor(q)'
    <2>1. \A q \in Proc : q # p => eng'[q] = Idle
      BY StepOwn DEF Alone, OneWriter
    <2> QED
      BY <2>1 DEF AskedFor, Idle, Busy
  <1>2. ASSUME manifest' = manifest, AskedFor(p)' PROVE Once'
    BY <1>1, <1>2 DEF Once, RetrievedOnce, IsOk, IsRequest
  <1>3. ASSUME manifest' = manifest, e.pc \in Busy,
               eng'[p].job = e.job, eng'[p].redo = e.redo
        PROVE  Once'
    BY <1>2, <1>3 DEF Once, AskedFor, Latest, IsOk, IsRequest
  <1>4. CASE Loop(p)
    <2>1. manifest' = manifest
      BY <1>4 DEF Loop, disk
    <2>2. eng'[p].pc \in Busy /\ ~eng'[p].redo => ~Latest(eng'[p].job)
      BY <1>0, <1>4, SMTT(30) DEF Loop, Typed, TypeOK, Locals, Busy
    <2> QED
      BY <1>2, <2>1, <2>2 DEF AskedFor, Latest, IsOk, IsRequest
  <1>5. CASE StopSeen(p) \/ Unlock(p)
    <2>1. manifest' = manifest
      BY <1>5 DEF StopSeen, Unlock, disk
    <2>2. eng'[p].pc \notin Busy
      <3>1. CASE StopSeen(p)
        BY <1>0, <3>1 DEF StopSeen, Typed, TypeOK, Locals, Busy
      <3>2. CASE Unlock(p)
        BY <3>2 DEF Unlock, Idle, Typed, TypeOK, Busy
      <3> QED
        BY <1>5, <3>1, <3>2
    <2> QED
      BY <1>2, <2>1, <2>2 DEF AskedFor
  <1>6. CASE Fetched(p) \/ BackedOff(p) \/ NotDecrypted(p)
    <2>1. manifest' = manifest /\ e.pc \in Busy
      BY <1>6 DEF Fetched, BackedOff, NotDecrypted, disk, Busy
    <2>2. eng'[p].job = e.job /\ eng'[p].redo = e.redo
      <3>1. CASE Fetched(p)
        BY <1>0, <3>1 DEF Fetched, Typed, TypeOK, Locals
      <3>2. CASE BackedOff(p)
        BY <1>0, <3>2 DEF BackedOff, Typed, TypeOK, Locals
      <3>3. CASE NotDecrypted(p)
        BY <1>0, <3>3 DEF NotDecrypted, Typed, TypeOK, Locals
      <3> QED
        BY <1>6, <3>1, <3>2, <3>3
    <2> QED
      BY <1>3, <2>1, <2>2
  <1>7. ASSUME NEW s \in Seqs, Send(p, s) PROVE Once'
    <2>1. eng'[p].job = e.job /\ eng'[p].redo = e.redo
      BY <1>0, <1>7 DEF Send, Typed, TypeOK, Locals
    <2> QED
      BY <1>3, <1>7, <2>1 DEF Send, disk, Busy
  <1>8. ASSUME NEW s \in Seqs, Decrypted(p, s) PROVE Once'
    <2>1. eng'[p].job = e.job /\ eng'[p].redo = e.redo
      BY <1>0, <1>8 DEF Decrypted, Typed, TypeOK, Locals
    <2> QED
      BY <1>3, <1>8, <2>1 DEF Decrypted, Busy
  <1>9. CASE RecordSession(p) \/ RecordEnd(p)
    <2>1. eng'[p].pc \notin Busy
      <3>1. CASE RecordSession(p)
        BY <1>0, <3>1 DEF RecordSession, Recorded, Typed, TypeOK, Locals, Busy
      <3>2. CASE RecordEnd(p)
        BY <1>0, <3>2 DEF RecordEnd, Recorded, Typed, TypeOK, Locals, Busy
      <3> QED
        BY <1>9, <3>1, <3>2
    <2>2. PICK line \in Lines : Append1(line) /\ line.kind # "request"
      BY <1>9, LineTypes DEF RecordSession, RecordEnd, Line, End
    <2>3. RetrievedOnce'
      BY <2>2, SameRetrieved DEF Once
    <2> QED
      BY <1>1, <2>1, <2>3 DEF Once, AskedFor
  <1>10. CASE RecordFile(p)
    <2>1. PICK f : f = JobOver(e, "done")
      OBVIOUS
    <2>2. f \in Locals /\ Busied(f) /\ f.pc \notin Busy
      BY <1>0, <1>10, <2>1, JobOverType DEF RecordFile, Busied, Busy
    <2>3. eng'[p] = [f EXCEPT !.prev = Kept]
      BY <1>10, <2>1, <2>2, RecordedType DEF RecordFile
    <2>4. eng'[p].pc \notin Busy
      BY <2>2, <2>3 DEF Locals
    <2> QED
      BY <1>1, <1>10, <2>4, OnceRecorded DEF Once, AskedFor
  <1>11. ASSUME NEW permanent \in BOOLEAN, FetchFailed(p, permanent) PROVE Once'
    <2>1. PICK f : f = AfterError(e, permanent)
      OBVIOUS
    <2>2. f \in Locals /\ Follows(f, e)
      BY <1>0, <1>11, <2>1, AfterErrorType DEF FetchFailed, Follows, Busied, Busy
    <2>3. eng'[p] = [f EXCEPT !.prev = Kept]
      BY <1>11, <2>1, <2>2, RecordedType DEF FetchFailed, Follows
    <2>4. eng'[p].pc = f.pc /\ eng'[p].job = f.job /\ eng'[p].redo = e.redo
      BY <2>2, <2>3 DEF Locals, Follows
    <2>5. PICK r \in {"refused", "failed"} : Append1(Request(p, r))
      BY <1>11 DEF FetchFailed
    <2>6. Request(p, r) \in Lines /\ Request(p, r).result # "ok"
      BY LineTypes DEF Request
    <2>7. RetrievedOnce' /\ \A j \in Jobs : Latest(j)' => Latest(j)
      BY <2>5, <2>6, SameRetrieved DEF Once
    <2>8. e.pc \in Busy /\ e.job \in Jobs
      BY <1>0, <1>11 DEF FetchFailed, Busied, Busy
    <2>9. eng'[p].pc \in Busy => eng'[p].job = e.job
      BY <2>2, <2>4 DEF Follows
    <2>10. AskedFor(p)'
      BY <2>4, <2>7, <2>8, <2>9 DEF Once, AskedFor, Latest
    <2> QED
      BY <1>1, <2>7, <2>10 DEF Once
  <1> QED
    BY <1>4, <1>5, <1>6, <1>7, <1>8, <1>9, <1>10, <1>11 DEF Step

LEMMA OnceStep == Typed /\ Alone /\ Once /\ [Next]_vars => Once'
  <1> SUFFICES ASSUME Typed, Alone, Once, [Next]_vars PROVE Once'
    OBVIOUS
  <1>1. ASSUME manifest' = manifest,
               \A q \in Proc : \/ eng'[q].pc \notin Busy
                               \/ /\ eng'[q].pc = eng[q].pc /\ eng'[q].job = eng[q].job
                                  /\ eng'[q].redo = eng[q].redo
        PROVE  Once'
    <2>1. RetrievedOnce'
      BY <1>1 DEF Once, RetrievedOnce, IsOk, IsRequest
    <2>2. ASSUME NEW q \in Proc PROVE AskedFor(q)'
      BY <1>1 DEF Once, AskedFor, Latest, IsOk, IsRequest
    <2> QED
      BY <2>1, <2>2 DEF Once
  <1>2. CASE RemoveStaleLock \/ LockFails \/ UNCHANGED vars
    BY <1>1, <1>2 DEF RemoveStaleLock, LockFails, vars, disk
  <1>3. ASSUME NEW p \in Proc, NEW redo \in BOOLEAN, Start(p, redo) PROVE Once'
    BY <1>1, <1>3 DEF Start, Idle, Busy, Typed, TypeOK
  <1>4. ASSUME NEW p \in Proc, Stop(p) PROVE Once'
    <2>1. eng[p] \in Locals
      BY DEF Typed, TypeOK
    <2>2. manifest' = manifest /\ eng' = [eng EXCEPT ![p] = [eng[p] EXCEPT !.stopped = TRUE]]
      BY <1>4 DEF Stop, disk
    <2>3. PICK f : f = [eng[p] EXCEPT !.stopped = TRUE]
      OBVIOUS
    <2>4. f.pc = eng[p].pc /\ f.job = eng[p].job /\ f.redo = eng[p].redo
      BY <2>1, <2>3 DEF Locals
    <2>5. \A q \in Proc : eng'[q] = IF q = p THEN f ELSE eng[q]
      BY <2>2, <2>3 DEF Typed, TypeOK
    <2> QED
      BY <1>1, <2>2, <2>4, <2>5
  <1>5. ASSUME NEW p \in Proc, Raise(p) PROVE Once'
    BY <1>1, <1>5, SMTT(30) DEF Raise, AfterRaise, Busy, Typed, TypeOK, Locals
  <1>6. ASSUME NEW p \in Proc, Crash(p) PROVE Once'
    BY <1>1, <1>6 DEF Crash, Idle, Busy, Typed, TypeOK
  <1>7. ASSUME NEW p \in Proc, Step(p) PROVE Once'
    BY <1>7, OnceStepOf
  <1> QED
    BY <1>2, <1>3, <1>4, <1>5, <1>6, <1>7 DEF Next, Environment, Finished

(* "A file already retrieved is not requested again unless the examiner asks"
   (Engine.run's store.latest, before every job). *)
THEOREM OnceUnlessAsked == Spec => []RetrievedOnce
  <1>1. Spec => [](Typed /\ Alone /\ Once)
    BY TypedInit, TypedStep, AloneInit, AloneStep, OnceInit, OnceStep, PTL DEF Spec
  <1>2. Once => RetrievedOnce
    BY DEF Once
  <1> QED
    BY <1>1, <1>2, PTL
-----------------------------------------------------------------------------
(* The abstract specification.  A job's copies change only when the record of a
   file is appended, and the writer only where a retrieval begins or ends. *)

(* The number of the file in hand is one of those there are. *)
Numbered == \A p \in Proc : eng[p].pc \in Hands => eng[p].seq \in Seqs

LEMMA NumberedInit == Init => Numbered
  BY DEF Init, Numbered, Hands, Idle

LEMMA NumberedStep == Typed /\ Alone /\ Numbered /\ [Next]_vars => Numbered'
  <1> SUFFICES ASSUME Typed, Alone, Numbered, [Next]_vars PROVE Numbered'
    OBVIOUS
  <1>1. ASSUME \A q \in Proc : \/ eng'[q].pc \notin Hands
                               \/ eng[q].pc \in Hands /\ eng'[q].seq = eng[q].seq
        PROVE  Numbered'
    BY <1>1 DEF Numbered
  <1>2. ASSUME NEW p \in Proc, Step(p) PROVE Numbered'
    <2>0. eng[p] \in Locals /\ \A q \in Proc : q # p => eng'[q] = eng[q]
      BY <1>2, StepOwn DEF Typed, TypeOK
    <2>1. ASSUME NEW s \in Seqs, Send(p, s) PROVE Numbered'
      <3>1. eng'[p].seq = s
        BY <2>0, <2>1 DEF Send, Typed, TypeOK, Locals
      <3> QED
        BY <2>0, <3>1 DEF Numbered
    <2>2. CASE Fetched(p)
      <3>1. eng[p].pc \in Hands /\ eng'[p].seq = eng[p].seq
        BY <2>0, <2>2 DEF Fetched, Typed, TypeOK, Locals, Hands
      <3> QED
        BY <1>1, <2>0, <3>1
    <2>3. CASE NotDecrypted(p)
      <3>1. eng[p].pc \in Hands /\ eng'[p].seq = eng[p].seq
        BY <2>0, <2>3 DEF NotDecrypted, Typed, TypeOK, Locals, Hands
      <3> QED
        BY <1>1, <2>0, <3>1
    <2>4. ASSUME NEW s \in Seqs, Decrypted(p, s) PROVE Numbered'
      <3>1. eng[p].pc \in Hands /\ eng'[p].seq = eng[p].seq
        BY <2>0, <2>4 DEF Decrypted, Typed, TypeOK, Locals, Hands
      <3> QED
        BY <1>1, <2>0, <3>1
    <2>5. CASE \/ Loop(p) \/ StopSeen(p) \/ BackedOff(p) \/ Unlock(p)
               \/ RecordSession(p) \/ RecordEnd(p) \/ RecordFile(p)
               \/ \E permanent \in BOOLEAN : FetchFailed(p, permanent)
      <3>1. eng'[p].pc \notin Hands
        BY <2>5, EmptyHands
      <3> QED
        BY <2>0, <3>1 DEF Numbered
    <2> QED
      BY <1>2, <2>1, <2>2, <2>3, <2>4, <2>5 DEF Step
  <1>3. CASE RemoveStaleLock \/ LockFails \/ UNCHANGED vars
    BY <1>3 DEF RemoveStaleLock, LockFails, vars, Numbered
  <1>4. ASSUME NEW p \in Proc, NEW redo \in BOOLEAN, Start(p, redo) PROVE Numbered'
    BY <1>1, <1>4 DEF Start, Idle, Hands, Typed, TypeOK, Numbered
  <1>5. ASSUME NEW p \in Proc, Stop(p) PROVE Numbered'
    BY <1>1, <1>5, ZenonT(60) DEF Stop, Typed, TypeOK, Locals, Numbered
  <1>6. ASSUME NEW p \in Proc, Raise(p) PROVE Numbered'
    BY <1>1, <1>6 DEF Raise, AfterRaise, Hands, Typed, TypeOK, Locals, Numbered
  <1>7. ASSUME NEW p \in Proc, Crash(p) PROVE Numbered'
    BY <1>1, <1>7 DEF Crash, Idle, Hands, Typed, TypeOK, Numbered
  <1> QED
    BY <1>2, <1>3, <1>4, <1>5, <1>6, <1>7 DEF Next, Environment, Finished


(* What an appended line adds to the copies of the job it is about. *)
LEMMA CopiesAppended ==
  ASSUME Typed, NEW line \in Lines, Append1(line), NEW j \in Jobs
  PROVE  LET new == [came |-> Len(manifest) + 1, number |-> line.seq]
         IN CopiesOf(j)' =
              IF ~torn /\ line.kind = "request" /\ line.job = j /\ line.result = "ok"
              THEN CopiesOf(j) \cup {new}
              ELSE CopiesOf(j)
  <1>0. PICK n \in Nat : n = Len(manifest) /\ DOMAIN manifest = 1 .. n
    BY ManifestLength
  <1> DEFINE ok == ~torn /\ line.kind = "request" /\ line.job = j /\ line.result = "ok"
             old == {m \in 1 .. n : IsOk(m, j)}
  <1>1. /\ DOMAIN manifest' = 1 .. n + 1
        /\ manifest'[n + 1] = IF torn THEN Junk ELSE line
        /\ \A m \in 1 .. n : manifest'[m] = manifest[m]
    BY <1>0, AppendedLine
  <1>2. \A m \in 1 .. n : IsOk(m, j)' <=> IsOk(m, j)
    BY <1>1 DEF IsOk, IsRequest
  <1>3. IsOk(n + 1, j)' <=> ok
    <2>1. CASE torn
      BY <1>1, <2>1 DEF IsOk, IsRequest, Junk
    <2>2. CASE ~torn
      BY <1>1, <2>2 DEF IsOk, IsRequest
    <2> QED
      BY <2>1, <2>2
  <1>4. 1 .. n + 1 = (1 .. n) \cup {n + 1}
    BY <1>0
  <1>5. {m \in 1 .. n + 1 : IsOk(m, j)'} = IF ok THEN old \cup {n + 1} ELSE old
    <2>1. \A m \in 1 .. n + 1 : IsOk(m, j)' <=> m \in old \/ (m = n + 1 /\ ok)
      BY <1>0, <1>2, <1>3
    <2> HIDE DEF ok
    <2>2. CASE ok
      BY <1>4, <2>1, <2>2
    <2>3. CASE ~ok
      BY <1>4, <2>1, <2>3
    <2> QED
      BY <2>2, <2>3
  <1>6. CopiesOf(j) = {[came |-> m, number |-> manifest[m].seq] : m \in old}
    BY <1>0 DEF CopiesOf
  <1>7. CopiesOf(j)' = {[came |-> m, number |-> manifest'[m].seq] :
                          m \in {m \in 1 .. n + 1 : IsOk(m, j)'}}
    BY <1>1 DEF CopiesOf
  <1>8. CASE ok
    <2>1. manifest'[n + 1] = line
      BY <1>1, <1>8
    <2>2. \A m \in old : manifest'[m] = manifest[m]
      BY <1>1
    <2> QED
      BY <1>0, <1>5, <1>6, <1>7, <1>8, <2>1, <2>2
  <1>9. CASE ~ok
    BY <1>1, <1>5, <1>6, <1>7, <1>9
  <1> QED
    BY <1>8, <1>9

Copies == [j \in Jobs |-> CopiesOf(j)]

LEMMA CopiesKept ==
  ASSUME manifest' = manifest
  PROVE  Copies' = Copies
  BY DEF Copies, CopiesOf, IsOk, IsRequest

(* A line that records no file leaves the copies as they are. *)
LEMMA NoCopyRecorded ==
  ASSUME Typed, NEW line \in Lines, Append1(line),
         line.kind = "request" => line.result # "ok"
  PROVE  Copies' = Copies
  BY CopiesAppended DEF Copies

(* The writer, for any locals of the processes. *)
WriterOf(e) ==
  CASE \A p \in Proc : e[p].pc = "idle" -> "none"
    [] \E p \in Proc : e[p].pc # "idle" /\ e[p].redo -> "again"
    [] OTHER -> "missing"

LEMMA WriterIs ==
  ASSUME NEW e, NEW p \in Proc, \A q \in Proc : q # p => e[q].pc = "idle"
  PROVE  /\ e[p].pc = "idle" => WriterOf(e) = "none"
         /\ e[p].pc # "idle" /\ e[p].redo => WriterOf(e) = "again"
         /\ e[p].pc # "idle" /\ ~e[p].redo => WriterOf(e) = "missing"
  BY DEF WriterOf

LEMMA WriterKept ==
  ASSUME \A q \in Proc : /\ eng'[q].pc = "idle" <=> eng[q].pc = "idle"
                         /\ eng'[q].redo = eng[q].redo
  PROVE  Writer' = Writer
  BY DEF Writer

(* Where nobody writes before, or nobody after. *)
LEMMA WriterAlone ==
  ASSUME Alone, NEW p \in Proc, eng[p].pc # "idle"
  PROVE  /\ Writer = IF eng[p].redo THEN "again" ELSE "missing"
         /\ \A q \in Proc : q # p => eng[q].pc = "idle"
  <1>1. \A q \in Proc : q # p => eng[q].pc = "idle"
    BY DEF Alone, OneWriter
  <1> QED
    BY <1>1, WriterIs DEF Writer, WriterOf

LEMMA NoWriter ==
  ASSUME \A q \in Proc : eng[q].pc = "idle"
  PROVE  Writer = "none"
  BY DEF Writer

(* The record of a file, written whole, is one more copy of its job. *)
LEMMA RecordFileKeeps ==
  ASSUME Typed, Alone, Filed, Once, Numbered, NEW p \in Proc, RecordFile(p), ~torn
  PROVE  \E j \in Jobs : Promise!Keep(j)
  <1>0. PICK n \in Nat : n = Len(manifest) /\ DOMAIN manifest = 1 .. n
    BY ManifestLength
  <1>1. PICK e \in Locals : e = eng[p] /\ e.pc = "decrypted" /\ e.job \in Jobs
    BY DEF Typed, TypeOK, Busied, Busy, RecordFile
  <1>2. PICK line \in Lines : /\ line = Request(p, "ok") /\ Append1(line)
                              /\ line.kind = "request" /\ line.result = "ok"
                              /\ line.job = e.job /\ line.seq = e.seq
    BY <1>1, LineTypes DEF RecordFile, Request
  <1> DEFINE new == [came |-> n + 1, number |-> e.seq]
  <1>3. \A j \in Jobs : CopiesOf(j)' = IF j = e.job THEN CopiesOf(j) \cup {new} ELSE CopiesOf(j)
    BY <1>0, <1>2, CopiesAppended
  <1>4. e.seq \in Seqs
    BY <1>1 DEF Numbered, Hands
  <1>5. ASSUME NEW d \in CopiesOf(e.job)
        PROVE  d.came < n + 1 /\ d.number # e.seq
    <2>1. PICK m \in 1 .. n : IsOk(m, e.job) /\ d = [came |-> m, number |-> manifest[m].seq]
      BY <1>0 DEF CopiesOf
    <2>2. [job |-> e.job, seq |-> manifest[m].seq, line |-> m] \in enc
      BY <1>0, <1>1, <2>1 DEF Filed, RecordedFilesKept
    <2>3. [job |-> e.job, seq |-> e.seq, line |-> n + 1] \in enc
      BY <1>0, <1>1 DEF Filed, InHand
    <2>4. m # n + 1
      BY <1>0
    <2>5. manifest[m].seq # e.seq
      BY <2>2, <2>3, <2>4 DEF Filed, NeverOverwritten
    <2> QED
      BY <1>0, <2>1, <2>5
  <1>6. ~e.redo => CopiesOf(e.job) = {}
    BY <1>1 DEF Once, AskedFor, Busy, Latest, CopiesOf
  <1>7. Writer = IF e.redo THEN "again" ELSE "missing"
    BY <1>1, WriterAlone
  <1>8. Writer' = Writer
    <2>1. ~Unlock(p) /\ Step(p)
      BY DEF RecordFile, Unlock, Step
    <2>2. Same(eng'[p], eng[p]) /\ \A q \in Proc : q # p => eng'[q] = eng[q]
      BY <2>1, StepBusy, StepOwn
    <2> QED
      BY <1>1, <2>2, WriterKept DEF Same
  <1>9. Copies' = [Copies EXCEPT ![e.job] = @ \cup {new}]
    BY <1>1, <1>3 DEF Copies
  <1>10. Copies'[e.job] = Copies[e.job] \cup {new} /\ Copies[e.job] = CopiesOf(e.job)
    BY <1>1, <1>9 DEF Copies
  <1>11. /\ new \in Copies'[e.job] /\ new.number \in Seqs
         /\ \A d \in Copies[e.job] : d.came < new.came /\ d.number # new.number
    BY <1>4, <1>5, <1>10
  <1>12. Writer = "again" \/ (Writer = "missing" /\ Copies[e.job] = {})
    BY <1>6, <1>7, <1>10
  <1> HIDE DEF new
  <1>13. Promise!Keep(e.job)
    BY <1>8, <1>9, <1>11, <1>12 DEF Promise!Keep, Copies
  <1> QED
    BY <1>1, <1>13

(* Every other line a retrieval writes, or part of one, is no copy. *)
LEMMA StepKeepsCopies ==
  ASSUME Typed, NEW p \in Proc, Step(p), RecordFile(p) => torn
  PROVE  Copies' = Copies
  <1>1. CASE RecordFile(p)
    <2>1. PICK line \in Lines : Append1(line)
      BY <1>1, LineTypes DEF RecordFile
    <2> QED
      BY <1>1, <2>1, CopiesAppended DEF Copies
  <1>2. CASE RecordSession(p) \/ RecordEnd(p)
    <2>1. PICK line \in Lines : Append1(line) /\ line.kind # "request"
      BY <1>2, LineTypes DEF RecordSession, RecordEnd, Line, End
    <2> QED
      BY <2>1, NoCopyRecorded
  <1>3. ASSUME NEW permanent \in BOOLEAN, FetchFailed(p, permanent) PROVE Copies' = Copies
    <2>1. PICK r \in {"refused", "failed"} : Append1(Request(p, r))
      BY <1>3 DEF FetchFailed
    <2>2. Request(p, r) \in Lines /\ Request(p, r).result # "ok"
      BY LineTypes DEF Request
    <2> QED
      BY <2>1, <2>2, NoCopyRecorded
  <1>4. CASE manifest' = manifest
    BY <1>4, CopiesKept
  <1> QED
    BY <1>1, <1>2, <1>3, <1>4
    DEF Step, Loop, StopSeen, Fetched, BackedOff, NotDecrypted, Unlock, Send, Decrypted, disk

LEMMA PromiseInit == Init => Promise!Init
  <1> SUFFICES ASSUME Init PROVE Promise!Init
    OBVIOUS
  <1>1. Writer = "none"
    BY NoWriter DEF Init, Idle
  <1>2. \A j \in Jobs : CopiesOf(j) = {}
    BY EmptySeq DEF Init, CopiesOf
  <1> QED
    BY <1>1, <1>2 DEF Promise!Init

LEMMA PromiseStep ==
  Typed /\ Alone /\ Filed /\ Once /\ Numbered /\ [Next]_vars => [Promise!Next]_(Promise!vars)
  <1> SUFFICES ASSUME Typed, Alone, Filed, Once, Numbered, [Next]_vars
               PROVE  [Promise!Next]_(Promise!vars)
    OBVIOUS
  <1>1. ASSUME Copies' = Copies, Writer' = Writer
        PROVE  [Promise!Next]_(Promise!vars)
    BY <1>1 DEF Promise!vars, Copies
  <1>2. ASSUME Copies' = Copies, Writer # "none", Writer' = "none"
        PROVE  Promise!Next
    BY <1>2 DEF Promise!Next, Promise!End, Copies
  <1>3. ASSUME NEW p \in Proc, Step(p) PROVE [Promise!Next]_(Promise!vars)
    <2>0. eng[p].pc # "idle" /\ \A q \in Proc : q # p => eng'[q] = eng[q]
      BY <1>3, StepOwn
    <2>1. CASE RecordFile(p) /\ ~torn
      BY <2>1, RecordFileKeeps DEF Promise!Next
    <2>2. CASE Unlock(p)
      <3>1. Copies' = Copies
        BY <2>2, CopiesKept DEF Unlock
      <3>2. \A q \in Proc : eng'[q].pc = "idle"
        BY <2>0, <2>2, WriterAlone DEF Unlock, Idle, Typed, TypeOK
      <3>3. Writer' = "none"
        BY <3>2 DEF Writer
      <3> QED
        BY <1>2, <2>0, <3>1, <3>3, WriterAlone
    <2>3. CASE ~Unlock(p) /\ (RecordFile(p) => torn)
      <3>1. Copies' = Copies
        BY <1>3, <2>3, StepKeepsCopies
      <3>2. Writer' = Writer
        BY <1>3, <2>0, <2>3, StepBusy, WriterKept DEF Same
      <3> QED
        BY <1>1, <3>1, <3>2
    <2> QED
      BY <2>1, <2>2, <2>3
  <1>4. CASE RemoveStaleLock \/ LockFails \/ UNCHANGED vars
    <2>1. Copies' = Copies
      BY <1>4, CopiesKept DEF RemoveStaleLock, LockFails, vars, disk
    <2>2. Writer' = Writer
      BY <1>4, WriterKept DEF RemoveStaleLock, LockFails, vars
    <2> QED
      BY <1>1, <2>1, <2>2
  <1>5. ASSUME NEW p \in Proc, NEW redo \in BOOLEAN, Start(p, redo)
        PROVE  [Promise!Next]_(Promise!vars)
    <2>1. Copies' = Copies
      BY <1>5, CopiesKept DEF Start
    <2>2. \A q \in Proc : eng[q].pc = "idle"
      BY <1>5 DEF Start, LockFree, Alone
    <2>3. Writer = "none"
      BY <2>2, NoWriter
    <2>4. /\ eng'[p].pc = "session" /\ eng'[p].redo = redo
          /\ \A q \in Proc : q # p => eng'[q].pc = "idle"
      BY <1>5, <2>2 DEF Start, Idle, Typed, TypeOK
    <2>5. Writer' = IF redo THEN "again" ELSE "missing"
      BY <2>4, WriterIs DEF Writer, WriterOf
    <2> QED
      BY <2>1, <2>3, <2>5 DEF Promise!Next, Promise!Begin, Copies
  <1>6. ASSUME NEW p \in Proc, Stop(p) \/ Raise(p)
        PROVE  [Promise!Next]_(Promise!vars)
    <2>1. Copies' = Copies
      BY <1>6, CopiesKept DEF Stop, Raise, disk
    <2>2. \A q \in Proc : /\ eng'[q].pc = "idle" <=> eng[q].pc = "idle"
                          /\ eng'[q].redo = eng[q].redo
      <3>1. eng[p] \in Locals /\ eng[p].pc # "idle"
        BY <1>6 DEF Stop, Raise, Appending, Typed, TypeOK
      <3>2. CASE Stop(p)
        BY <3>1, <3>2 DEF Stop, Typed, TypeOK, Locals
      <3>3. CASE Raise(p)
        BY <3>1, <3>3 DEF Raise, AfterRaise, Typed, TypeOK, Locals
      <3> QED
        BY <1>6, <3>2, <3>3
    <2> QED
      BY <1>1, <2>1, <2>2, WriterKept
  <1>7. ASSUME NEW p \in Proc, Crash(p) PROVE [Promise!Next]_(Promise!vars)
    <2>1. Copies' = Copies
      BY <1>7, CopiesKept DEF Crash
    <2>2. \A q \in Proc : eng'[q].pc = "idle"
      BY <1>7, WriterAlone DEF Crash, Idle, Typed, TypeOK
    <2>3. Writer' = "none"
      BY <2>2 DEF Writer
    <2> QED
      BY <1>2, <1>7, <2>1, <2>3, WriterAlone DEF Crash
  <1> QED
    BY <1>3, <1>4, <1>5, <1>6, <1>7 DEF Next, Environment, Finished

(* Whatever happens to the retrievals, the run folder keeps what Retrievals
   promises: a record of a file stays, under a number of its own, a second one
   comes only of a redownload, and one retrieval runs at a time (Engine.run and
   _run_job over Store.lock, next_path, record and latest). *)
THEOREM ImplementsRetrievals == Spec => KeepsPromise
  <1>1. Spec => [](Typed /\ Alone /\ Filed /\ Once /\ Numbered)
    BY TypedInit, TypedStep, AloneInit, AloneStep, FiledInit, FiledStep, OnceInit, OnceStep,
       NumberedInit, NumberedStep, PTL DEF Spec
  <1> QED
    BY <1>1, PromiseInit, PromiseStep, PTL DEF Spec, KeepsPromise, Promise!Spec
-----------------------------------------------------------------------------
(* The session's accounts.  What a step does to them: to the position among the
   jobs, addresses and attempts, and to the counts. *)
Working == Busy \cup {"loop"}
Live == Working \cup {"end"}

SameCounts(f, e) ==
  /\ f.done = e.done /\ f.failed = e.failed /\ f.skipped = e.skipped
  /\ f.transient = e.transient /\ f.refused = e.refused

SamePlace(f, e) == f.job = e.job /\ f.addr = e.addr

(* The locals after a step that writes no line. *)
Onward(f, e) ==
  \/ /\ e.pc = "loop" /\ f.pc = "loop"
     /\ e.job \in Jobs /\ f.job = e.job + 1 /\ f.skipped = e.skipped + 1
     /\ f.done = e.done /\ f.failed = e.failed
     /\ f.transient = e.transient /\ f.refused = e.refused /\ f.stop = e.stop
  \/ /\ SameCounts(f, e) /\ f.job = e.job
     /\ \/ e.pc = "loop" /\ e.job \notin Jobs /\ f.pc = "end" /\ f.stop = e.stop
        \/ e.pc \in Working /\ f.pc = "end" /\ f.stop = "examiner"
        \/ e.pc = "loop" /\ f.pc = "unlock"
        \/ e.pc = "loop" /\ e.job \in Jobs /\ f.pc = "pace" /\ f.stop = e.stop
        \/ /\ e.pc \in Busy \ {"backoff"} /\ f.pc \in Busy \ {"backoff"} /\ f.stop = e.stop
           /\ f.addr = e.addr /\ f.attempt = e.attempt
        \/ /\ e.pc = "backoff" /\ f.pc = "pace" /\ f.stop = e.stop
           /\ f.addr = e.addr /\ f.attempt = e.attempt + 1

LEMMA OnwardLoop ==
  ASSUME Typed, NEW p \in Proc, Loop(p)
  PROVE  Onward(eng'[p], eng[p])
  <1>0. PICK e \in Locals : e = eng[p] /\ e.pc = "loop"
    BY DEF Loop, Typed, TypeOK
  <1>1. PICK f : /\ f = eng'[p]
                 /\ \/ e.job \notin Jobs /\ f = [e EXCEPT !.pc = "end"]
                    \/ f = [e EXCEPT !.pc = "end", !.stop = "examiner"]
                    \/ f = [e EXCEPT !.pc = "unlock"]
                    \/ e.job \in Jobs /\ f = [e EXCEPT !.job = @ + 1, !.skipped = @ + 1]
                    \/ e.job \in Jobs /\ f = [e EXCEPT !.pc = "pace", !.addr = 1, !.attempt = 1]
    BY <1>0 DEF Loop, Typed, TypeOK
  <1>2. CASE e.job \notin Jobs /\ f = [e EXCEPT !.pc = "end"]
    BY <1>0, <1>1, <1>2 DEF Locals, Onward, SameCounts
  <1>3. CASE f = [e EXCEPT !.pc = "end", !.stop = "examiner"]
    BY <1>0, <1>1, <1>3 DEF Locals, Onward, SameCounts, Working
  <1>4. CASE f = [e EXCEPT !.pc = "unlock"]
    BY <1>0, <1>1, <1>4 DEF Locals, Onward, SameCounts
  <1>5. CASE e.job \in Jobs /\ f = [e EXCEPT !.job = @ + 1, !.skipped = @ + 1]
    BY <1>0, <1>1, <1>5 DEF Locals, Onward
  <1>6. CASE e.job \in Jobs /\ f = [e EXCEPT !.pc = "pace", !.addr = 1, !.attempt = 1]
    BY <1>0, <1>1, <1>6 DEF Locals, Onward, SameCounts
  <1> QED
    BY <1>1, <1>2, <1>3, <1>4, <1>5, <1>6

LEMMA OnwardOther ==
  ASSUME Typed, NEW p \in Proc,
         \/ StopSeen(p) \/ Fetched(p) \/ BackedOff(p) \/ NotDecrypted(p)
         \/ \E s \in Seqs : Send(p, s) \/ Decrypted(p, s)
  PROVE  Onward(eng'[p], eng[p])
  <1>0. PICK e \in Locals : e = eng[p]
    BY DEF Typed, TypeOK
  <1>1. CASE StopSeen(p)
    BY <1>0, <1>1 DEF StopSeen, Typed, TypeOK, Locals, Onward, SameCounts, Working, Busy
  <1>2. CASE Fetched(p)
    BY <1>0, <1>2 DEF Fetched, Typed, TypeOK, Locals, Onward, SameCounts, Busy
  <1>3. CASE BackedOff(p)
    BY <1>0, <1>3 DEF BackedOff, Typed, TypeOK, Locals, Onward, SameCounts
  <1>4. CASE NotDecrypted(p)
    BY <1>0, <1>4 DEF NotDecrypted, Typed, TypeOK, Locals, Onward, SameCounts, Busy
  <1>5. ASSUME NEW s \in Seqs, Send(p, s) PROVE Onward(eng'[p], eng[p])
    BY <1>0, <1>5 DEF Send, Typed, TypeOK, Locals, Onward, SameCounts, Busy
  <1>6. ASSUME NEW s \in Seqs, Decrypted(p, s) PROVE Onward(eng'[p], eng[p])
    BY <1>0, <1>6 DEF Decrypted, Typed, TypeOK, Locals, Onward, SameCounts, Busy
  <1> QED
    BY <1>1, <1>2, <1>3, <1>4, <1>5, <1>6

(* The locals after a job's outcome. *)
Left(f, e, outcome) ==
  /\ f.skipped = e.skipped
  /\ outcome = "done" =>
       f.done = e.done + 1 /\ f.failed = e.failed /\ f.transient = 0 /\ f.refused = 0
  /\ outcome = "refused" => /\ f.done = e.done /\ f.failed = e.failed + 1
                            /\ f.transient = e.transient /\ f.refused = e.refused + 1
  /\ outcome = "failed" => /\ f.done = e.done /\ f.failed = e.failed + 1
                           /\ f.transient = e.transient + 1 /\ f.refused = e.refused
  /\ \/ /\ f.pc = "loop" /\ f.job = e.job + 1 /\ f.stop = e.stop
        /\ f.transient < MaxFailures /\ f.refused < MaxRefusals
     \/ /\ f.pc = "end" /\ f.job = e.job
        /\ \/ f.stop = "failures" /\ f.transient >= MaxFailures
           \/ f.stop = "refused" /\ f.refused >= MaxRefusals

(* The locals after a request line with that result. *)
Requested(f, e, result) ==
  \/ result = "ok" /\ Left(f, e, "done")
  \/ result \in {"failed", "refused"} /\ Left(f, e, result)
  \/ /\ result \in {"failed", "refused"} /\ SameCounts(f, e) /\ f.stop = e.stop
     /\ f.job = e.job
     /\ \/ f.pc = "pace" /\ f.addr = e.addr + 1
        \/ result = "failed" /\ f.pc = "backoff" /\ f.addr = e.addr /\ f.attempt = e.attempt

LEMMA JobOverLeft ==
  ASSUME NEW e \in Locals, NEW outcome \in {"done", "failed", "refused"}
  PROVE  Left(JobOver(e, outcome), e, outcome)
  <1>0. e.transient \in Nat /\ e.refused \in Nat /\ MaxFailures \in Nat /\ MaxRefusals \in Nat
    BY ConstantTypes DEF Locals
  <1>1. PICK c : c = Counted(e, outcome)
    OBVIOUS
  <1>2. /\ {"pc", "stop", "job", "skipped", "done", "failed", "transient", "refused"}
               \subseteq DOMAIN c
        /\ c.skipped = e.skipped /\ c.stop = e.stop /\ c.job = e.job
        /\ c.transient \in Nat /\ c.refused \in Nat
        /\ outcome = "done" =>
             c.done = e.done + 1 /\ c.failed = e.failed /\ c.transient = 0 /\ c.refused = 0
        /\ outcome = "refused" => /\ c.done = e.done /\ c.failed = e.failed + 1
                                  /\ c.transient = e.transient /\ c.refused = e.refused + 1
        /\ outcome = "failed" => /\ c.done = e.done /\ c.failed = e.failed + 1
                                 /\ c.transient = e.transient + 1 /\ c.refused = e.refused
    <2>1. CASE outcome = "done"
      BY <1>1, <2>1 DEF Counted, Locals
    <2>2. CASE outcome = "refused"
      <3>1. c = [e EXCEPT !.failed = @ + 1, !.refused = @ + 1]
        BY <1>1, <2>2 DEF Counted
      <3> QED
        BY <2>2, <3>1 DEF Locals
    <2>3. CASE outcome = "failed"
      <3>1. c = [e EXCEPT !.failed = @ + 1, !.transient = @ + 1]
        BY <1>1, <2>3 DEF Counted
      <3> QED
        BY <2>3, <3>1 DEF Locals
    <2> QED
      BY <2>1, <2>2, <2>3
  <1>3. PICK f : /\ f = JobOver(e, outcome)
                 /\ \/ /\ f = [c EXCEPT !.pc = "end", !.stop = "failures"]
                       /\ TooMany(c.transient, MaxFailures)
                    \/ /\ f = [c EXCEPT !.pc = "end", !.stop = "refused"]
                       /\ TooMany(c.refused, MaxRefusals)
                    \/ /\ f = [c EXCEPT !.pc = "loop", !.job = @ + 1]
                       /\ ~TooMany(c.transient, MaxFailures) /\ ~TooMany(c.refused, MaxRefusals)
    BY <1>1 DEF JobOver
  <1>4. CASE f = [c EXCEPT !.pc = "end", !.stop = "failures"] /\ TooMany(c.transient, MaxFailures)
    <2>1. c.transient >= MaxFailures
      BY <1>0, <1>2, <1>4 DEF TooMany
    <2> QED
      BY <1>2, <1>3, <1>4, <2>1 DEF Left
  <1>5. CASE f = [c EXCEPT !.pc = "end", !.stop = "refused"] /\ TooMany(c.refused, MaxRefusals)
    <2>1. c.refused >= MaxRefusals
      BY <1>0, <1>2, <1>5 DEF TooMany
    <2> QED
      BY <1>2, <1>3, <1>5, <2>1 DEF Left
  <1>6. CASE /\ f = [c EXCEPT !.pc = "loop", !.job = @ + 1]
             /\ ~TooMany(c.transient, MaxFailures) /\ ~TooMany(c.refused, MaxRefusals)
    <2>1. c.transient < MaxFailures /\ c.refused < MaxRefusals
      BY <1>0, <1>2, <1>6 DEF TooMany
    <2> QED
      BY <1>2, <1>3, <1>6, <2>1 DEF Left
  <1> QED
    BY <1>3, <1>4, <1>5, <1>6

LEMMA AfterErrorRequested ==
  ASSUME NEW e \in Locals, NEW permanent \in BOOLEAN
  PROVE  Requested(AfterError(e, permanent), e, IF permanent THEN "refused" ELSE "failed")
  <1>1. PICK r \in {"failed", "refused"} : r = IF permanent THEN "refused" ELSE "failed"
    OBVIOUS
  <1>2. PICK f : f = AfterError(e, permanent)
    OBVIOUS
  <1>3. CASE ~permanent /\ f = [e EXCEPT !.pc = "backoff"]
    BY <1>1, <1>2, <1>3 DEF Locals, Requested, SameCounts
  <1>4. CASE f = [e EXCEPT !.pc = "pace", !.addr = @ + 1, !.attempt = 1]
    BY <1>1, <1>2, <1>4 DEF Locals, Requested, SameCounts
  <1>5. CASE f = JobOver(e, r)
    BY <1>1, <1>2, <1>5, JobOverLeft DEF Requested
  <1> QED
    BY <1>1, <1>2, <1>3, <1>4, <1>5 DEF AfterError

(* What the line that is appended says, and the locals after it. *)
Wrote(line, f, e) ==
  \/ /\ e.pc = "session" /\ line.kind = "session"
     /\ f.pc = "loop" /\ SameCounts(f, e) /\ f.job = e.job /\ f.stop = e.stop
  \/ /\ e.pc \in {"fetch", "decrypted"} /\ line.kind = "request"
     /\ line.job = e.job /\ line.addr = e.addr /\ line.attempt = e.attempt
     /\ Requested(f, e, line.result)
  \/ /\ e.pc = "end" /\ line.kind = "end"
     /\ line.done = e.done /\ line.failed = e.failed /\ line.skipped = e.skipped
     /\ line.stop = e.stop /\ f.pc = "unlock"

LEMMA SamePrev ==
  ASSUME Typed, NEW p \in Proc, NEW f \in Locals, Busied(f), Recorded(p, f)
  PROVE  LET g == eng'[p]
         IN /\ SameCounts(g, f) /\ g.pc = f.pc /\ g.stop = f.stop
            /\ g.job = f.job /\ g.addr = f.addr /\ g.attempt = f.attempt
  <1>1. eng'[p] = [f EXCEPT !.prev = Kept]
    BY RecordedType
  <1> QED
    BY <1>1 DEF Locals, SameCounts

LEMMA StepWrote ==
  ASSUME Typed, NEW p \in Proc, Step(p), ~Unlock(p)
  PROVE  /\ sessions' = sessions
         /\ \/ UNCHANGED <<manifest, torn>> /\ Onward(eng'[p], eng[p])
            \/ \E line \in Lines : /\ Append1(line) /\ line.session = eng[p].session
                                   /\ Wrote(line, eng'[p], eng[p])
  <1>0. PICK e \in Locals : e = eng[p] /\ Busied(e)
    BY DEF Typed, TypeOK
  <1>1. sessions' = sessions
    BY DEF Step, RecordSession, Loop, StopSeen, Fetched, BackedOff, NotDecrypted, RecordFile,
           RecordEnd, Unlock, Send, Decrypted, FetchFailed, bounds
  <1>2. ASSUME \/ Loop(p) \/ StopSeen(p) \/ Fetched(p) \/ BackedOff(p) \/ NotDecrypted(p)
               \/ \E s \in Seqs : Send(p, s) \/ Decrypted(p, s)
        PROVE  UNCHANGED <<manifest, torn>> /\ Onward(eng'[p], eng[p])
    <2>1. UNCHANGED <<manifest, torn>>
      BY <1>2 DEF Loop, StopSeen, Fetched, BackedOff, NotDecrypted, Send, Decrypted, disk
    <2> QED
      BY <1>2, <2>1, OnwardLoop, OnwardOther
  <1>3. ASSUME NEW line \in Lines, Append1(line), line.session = e.session,
               NEW f \in Locals, Busied(f), Recorded(p, f), Wrote(line, f, e)
        PROVE  \E l \in Lines : /\ Append1(l) /\ l.session = eng[p].session
                                /\ Wrote(l, eng'[p], eng[p])
    <2>1. PICK g : g = eng'[p]
      OBVIOUS
    <2>2. /\ SameCounts(g, f) /\ g.pc = f.pc /\ g.stop = f.stop
          /\ g.job = f.job /\ g.addr = f.addr /\ g.attempt = f.attempt
      BY <1>3, <2>1, SamePrev
    <2>3. Wrote(line, g, e)
      BY <1>3, <2>2 DEF Wrote, SameCounts, Requested, Left
    <2> QED
      BY <1>0, <1>3, <2>1, <2>3
  <1>4. CASE RecordSession(p)
    <2>1. PICK f : f = [e EXCEPT !.pc = "loop"]
      OBVIOUS
    <2>2. f \in Locals /\ Busied(f)
      BY <1>0, <2>1, ZenonT(60) DEF Locals, Busied, Busy
    <2>3. PICK line \in Lines : line = Line(p, "session")
      BY LineTypes
    <2>4. Wrote(line, f, e) /\ line.session = e.session
      BY <1>0, <1>4, <2>1, <2>3 DEF RecordSession, Wrote, SameCounts, Line, Locals
    <2> QED
      BY <1>0, <1>1, <1>3, <1>4, <2>1, <2>2, <2>3, <2>4 DEF RecordSession
  <1>5. CASE RecordEnd(p)
    <2>1. PICK f : f = [e EXCEPT !.pc = "unlock"]
      OBVIOUS
    <2>2. f \in Locals /\ Busied(f)
      BY <1>0, <2>1, ZenonT(60) DEF Locals, Busied, Busy
    <2>3. PICK line \in Lines : line = End(p)
      BY LineTypes
    <2>4. Wrote(line, f, e) /\ line.session = e.session
      BY <1>0, <1>5, <2>1, <2>3 DEF RecordEnd, Wrote, End, Locals
    <2> QED
      BY <1>0, <1>1, <1>3, <1>5, <2>1, <2>2, <2>3, <2>4 DEF RecordEnd
  <1>6. CASE RecordFile(p)
    <2>1. PICK f : f = JobOver(e, "done")
      OBVIOUS
    <2>2. f \in Locals /\ Busied(f)
      BY <1>0, <1>6, <2>1, JobOverType DEF RecordFile, Busied, Busy
    <2>3. PICK line \in Lines : line = Request(p, "ok")
      BY LineTypes
    <2>4. Left(f, e, "done")
      BY <2>1, JobOverLeft
    <2>5. Wrote(line, f, e) /\ line.session = e.session
      BY <1>0, <1>6, <2>3, <2>4 DEF RecordFile, Wrote, Requested, Request
    <2> QED
      BY <1>0, <1>1, <1>3, <1>6, <2>1, <2>2, <2>3, <2>5 DEF RecordFile
  <1>7. ASSUME NEW permanent \in BOOLEAN, FetchFailed(p, permanent)
        PROVE  \E l \in Lines : /\ Append1(l) /\ l.session = eng[p].session
                                /\ Wrote(l, eng'[p], eng[p])
    <2>1. PICK f : f = AfterError(e, permanent)
      OBVIOUS
    <2>2. f \in Locals /\ Busied(f)
      BY <1>0, <1>7, <2>1, AfterErrorType DEF FetchFailed, Follows, Busied, Busy
    <2>3. PICK r \in {"refused", "failed"} : r = IF permanent THEN "refused" ELSE "failed"
      OBVIOUS
    <2>4. PICK line \in Lines : line = Request(p, r)
      BY <2>3, LineTypes
    <2>5. Requested(f, e, r)
      BY <2>1, <2>3, AfterErrorRequested
    <2>6. Wrote(line, f, e) /\ line.session = e.session
      BY <1>0, <1>7, <2>4, <2>5 DEF FetchFailed, Wrote, Request
    <2> QED
      BY <1>0, <1>3, <1>7, <2>1, <2>2, <2>3, <2>4, <2>6 DEF FetchFailed
  <1> QED
    BY <1>1, <1>2, <1>4, <1>5, <1>6, <1>7 DEF Step
-----------------------------------------------------------------------------
(* Attempts in order.  What the manifest says of the session under way is behind
   where its process stands, and sessions are numbered upwards. *)
Earlier(m, e) ==
  LET l == manifest[m]
  IN /\ l.job <= e.job
     /\ e.pc = "loop" => l.job < e.job
     /\ l.job = e.job =>
          /\ l.result # "ok"
          /\ \/ l.addr < e.addr
             \/ /\ l.addr = e.addr /\ l.result = "failed"
                /\ l.attempt <= e.attempt
                /\ e.pc # "backoff" => l.attempt < e.attempt

Of(m, x) == manifest[m].kind # "junk" /\ manifest[m].session = x

Tracked(p) ==
  LET e == eng[p]
  IN /\ e.pc # "idle" => e.session = sessions
     /\ e.pc \in Live => ~torn
     /\ \A m \in DOMAIN manifest : Of(m, e.session) =>
          /\ e.pc # "session"
          /\ manifest[m].kind = "request" /\ e.pc \in Working => Earlier(m, e)
          /\ manifest[m].kind = "end" => e.pc \notin Live

Numbers ==
  \A m \in DOMAIN manifest : manifest[m].kind # "junk" =>
    /\ manifest[m].session <= sessions
    /\ manifest[m].kind = "request" => manifest[m].job \in Jobs /\ manifest[m].attempt <= Retries

Ordered == AttemptsInOrder /\ Numbers /\ \A p \in Proc : Tracked(p)

LEMMA OrderedInit == Init => Ordered
  BY EmptySeq DEF Init, Ordered, AttemptsInOrder, Numbers, Tracked, Idle, Live, Working, Busy

LEMMA LineFields ==
  ASSUME NEW l \in Lines
  PROVE  /\ l.kind \in {"session", "request", "end", "junk"}
         /\ l.kind # "junk" => l.session \in Nat
         /\ l.kind = "request" =>
              /\ l.job \in Nat /\ l.addr \in Nat /\ l.attempt \in Nat
              /\ l.result \in {"ok", "refused", "failed"}
  BY DEF Lines, Junk

LEMMA ManifestFields ==
  ASSUME Typed, NEW m \in DOMAIN manifest
  PROVE  manifest[m] \in Lines
  BY ElementOfSeq, ManifestLength DEF Typed, TypeOK

LEMMA UnderWay ==
  ASSUME Typed, NEW p \in Proc, Step(p)
  PROVE  \E e \in Locals : /\ e = eng[p] /\ e.pc # "idle" /\ e.job \in Nat
                           /\ e.attempt \in Nat /\ e.attempt <= Retries
                           /\ e.pc \in Busy => e.job \in Jobs
  <1>1. PICK e \in Locals : e = eng[p] /\ Busied(e)
    BY DEF Typed, TypeOK
  <1>2. e.pc # "idle"
    BY <1>1, StepOwn
  <1>3. e.job \in Nat /\ e.attempt \in Nat /\ e.attempt <= Retries
    BY ConstantTypes, SMTT(30) DEF Locals
  <1> QED
    BY <1>1, <1>2, <1>3 DEF Busied

(* A step that writes no line. *)
LEMMA OrderedOnward ==
  ASSUME Typed, Alone, Ordered, NEW p \in Proc, Step(p), ~Unlock(p),
         UNCHANGED <<manifest, torn, sessions>>, Onward(eng'[p], eng[p])
  PROVE  Ordered'
  <1>0. PICK e \in Locals : e = eng[p] /\ e.pc # "idle" /\ e.job \in Nat
    BY UnderWay
  <1>1. PICK f : f = eng'[p] /\ Onward(f, e) /\ Same(f, e)
    BY <1>0, StepBusy
  <1>2. \A q \in Proc : q # p => eng'[q] = Idle
    BY StepOwn DEF Alone, OneWriter
  <1>3. f.pc \in Live => e.pc \in Live
    BY <1>1 DEF Onward, Live, Working, Busy
  <1>4. f.pc # "session"
    BY <1>1 DEF Onward, Busy
  <1>5. ASSUME NEW m \in DOMAIN manifest, Of(m, e.session), manifest[m].kind = "request",
               f.pc \in Working
        PROVE  Earlier(m, f)
    <2>1. e.pc \in Working
      BY <1>1, <1>5 DEF Onward, Working, Busy
    <2>2. Earlier(m, e)
      BY <1>0, <1>5, <2>1 DEF Ordered, Tracked
    <2>3. PICK l \in Lines : l = manifest[m] /\ l.job \in Nat /\ l.addr \in Nat /\ l.attempt \in Nat
      BY <1>5, LineFields, ManifestFields
    <2>4. e.attempt \in Nat /\ e.addr \in Nat
      BY <1>0, ConstantTypes, SMTT(30) DEF Locals
    <2> QED
      BY <1>0, <1>1, <1>5, <2>1, <2>2, <2>3, <2>4
      DEF Earlier, Onward, SameCounts, Working, Busy
  <1>6. Tracked(p)'
    BY <1>0, <1>1, <1>3, <1>4, <1>5 DEF Ordered, Tracked, Same, Earlier, Of
  <1>7. \A q \in Proc : q # p => Tracked(q)'
    BY <1>2 DEF Tracked, Idle, Live, Working, Busy
  <1> QED
    BY <1>6, <1>7 DEF Ordered, AttemptsInOrder, Numbers, IsRequest

(* A step that writes one. *)
LEMMA OrderedWrote ==
  ASSUME Typed, Alone, Ordered, NEW p \in Proc, Step(p), ~Unlock(p), sessions' = sessions,
         NEW line \in Lines, Append1(line), line.session = eng[p].session,
         Wrote(line, eng'[p], eng[p])
  PROVE  Ordered'
  <1>0. PICK e \in Locals : /\ e = eng[p] /\ e.pc # "idle" /\ e.job \in Nat
                            /\ e.attempt \in Nat /\ e.attempt <= Retries
                            /\ e.pc \in Busy => e.job \in Jobs
    BY UnderWay
  <1>1. PICK f : f = eng'[p] /\ Wrote(line, f, e) /\ Same(f, e)
    BY <1>0, StepBusy
  <1>2. \A q \in Proc : q # p => eng'[q] = Idle
    BY StepOwn DEF Alone, OneWriter
  <1>3. PICK n \in Nat : n = Len(manifest) /\ DOMAIN manifest = 1 .. n
    BY ManifestLength
  <1>4. PICK new \in Lines :
          /\ new = IF torn THEN Junk ELSE line
          /\ DOMAIN manifest' = 1 .. n + 1
          /\ manifest'[n + 1] = new
          /\ \A m \in 1 .. n : manifest'[m] = manifest[m]
    BY <1>3, AppendedLine DEF Lines
  <1>5. /\ e.session = sessions /\ sessions \in Nat /\ torn' = FALSE
        /\ e.pc \in Live => new = line
        /\ new.kind # "junk" => new = line
    BY <1>0, <1>4 DEF Ordered, Tracked, Typed, TypeOK, Append1, Junk
  <1>6. f.pc \in Live \/ f.pc = "unlock"
    BY <1>1 DEF Wrote, Requested, Left, Live, Working, Busy
  <1>7. f.pc # "session"
    BY <1>6 DEF Live, Working, Busy
  <1>8. ASSUME NEW m \in 1 .. n, Of(m, e.session), manifest[m].kind = "request",
               f.pc \in Working
        PROVE  Earlier(m, f)
    <2>1. e.pc \in {"fetch", "decrypted"} /\ Requested(f, e, line.result)
      BY <1>0, <1>1, <1>3, <1>8 DEF Ordered, Tracked, Wrote, Working, Busy
    <2>2. Earlier(m, e)
      BY <1>0, <1>3, <1>8, <2>1 DEF Ordered, Tracked, Working, Busy
    <2>3. PICK l \in Lines : l = manifest[m] /\ l.job \in Nat /\ l.addr \in Nat /\ l.attempt \in Nat
      BY <1>3, <1>8, LineFields, ManifestFields
    <2>4. e.attempt \in Nat /\ e.addr \in Nat
      BY <1>0, ConstantTypes DEF Locals
    <2> QED
      BY <1>0, <1>8, <2>1, <2>2, <2>3, <2>4
      DEF Earlier, Requested, Left, SameCounts, Working, Busy
  <1>9. ASSUME new.kind = "request", f.pc \in Working
        PROVE  LET l == new
               IN /\ l.job <= f.job
                  /\ f.pc = "loop" => l.job < f.job
                  /\ l.job = f.job =>
                       /\ l.result # "ok"
                       /\ \/ l.addr < f.addr
                          \/ /\ l.addr = f.addr /\ l.result = "failed"
                             /\ l.attempt <= f.attempt
                             /\ f.pc # "backoff" => l.attempt < f.attempt
    <2>1. new = line /\ Requested(f, e, line.result)
      BY <1>1, <1>5, <1>9 DEF Wrote
    <2>2. line.job = e.job /\ line.addr = e.addr /\ line.attempt = e.attempt
      BY <1>1, <1>9, <2>1 DEF Wrote
    <2>3. e.addr \in Nat
      BY <1>0 DEF Locals
    <2> QED
      BY <1>0, <1>9, <2>1, <2>2, <2>3 DEF Requested, Left, SameCounts, Working, Busy
  <1>10. new.kind = "end" => f.pc = "unlock"
    BY <1>1, <1>5 DEF Wrote
  <1>11. Tracked(p)'
    <2>1. \A m \in 1 .. n : Of(m, e.session) /\ manifest[m].kind = "end" => f.pc \notin Live
      BY <1>0, <1>1, <1>3, <1>6 DEF Ordered, Tracked, Wrote, Live, Working, Busy
    <2>2. ASSUME NEW m \in 1 .. n + 1, Of(m, e.session)'
          PROVE  /\ manifest'[m].kind = "request" /\ f.pc \in Working => Earlier(m, f)'
                 /\ manifest'[m].kind = "end" => f.pc \notin Live
      <3>1. CASE m = n + 1
        BY <1>4, <1>9, <1>10, <3>1 DEF Earlier, Live, Working, Busy
      <3>2. CASE m \in 1 .. n
        BY <1>4, <1>8, <2>1, <2>2, <3>2 DEF Earlier, Of
      <3> QED
        BY <1>3, <3>1, <3>2
    <2> QED
      BY <1>0, <1>1, <1>4, <1>5, <1>7, <2>2 DEF Tracked, Same
  <1>12. \A q \in Proc : q # p => Tracked(q)'
    BY <1>2 DEF Tracked, Idle, Live, Working, Busy
  <1>13. Numbers'
    <2>1. new.kind # "junk" =>
            /\ new.session <= sessions
            /\ new.kind = "request" => new.job \in Jobs /\ new.attempt <= Retries
      BY <1>0, <1>1, <1>5 DEF Wrote, Busy
    <2> QED
      BY <1>3, <1>4, <2>1 DEF Numbers, Ordered
  <1>14. AttemptsInOrder'
    <2>1. SUFFICES ASSUME NEW m \in 1 .. n + 1, NEW k \in 1 .. n + 1, m < k,
                          manifest'[m].kind = "request", manifest'[k].kind = "request",
                          manifest'[m].session = manifest'[k].session,
                          manifest'[m].job = manifest'[k].job
                   PROVE  /\ manifest'[m].result # "ok"
                          /\ manifest'[k].attempt <= Retries
                          /\ \/ manifest'[m].addr < manifest'[k].addr
                             \/ /\ manifest'[m].addr = manifest'[k].addr
                                /\ manifest'[m].attempt < manifest'[k].attempt
                                /\ manifest'[m].result = "failed"
      BY <1>4 DEF AttemptsInOrder, IsRequest
    <2>2. m \in 1 .. n /\ manifest'[m] = manifest[m]
      BY <1>3, <1>4, <2>1
    <2>3. CASE k \in 1 .. n
      BY <1>3, <1>4, <2>1, <2>2, <2>3 DEF Ordered, AttemptsInOrder, IsRequest
    <2>4. CASE k = n + 1
      <3>1. new = line /\ manifest'[k] = line
        BY <1>4, <1>5, <2>1, <2>4
      <3>2. /\ e.pc \in {"fetch", "decrypted"} /\ line.job = e.job
            /\ line.addr = e.addr /\ line.attempt = e.attempt
        BY <1>1, <2>1, <3>1 DEF Wrote
      <3>3. Earlier(m, e)
        BY <1>0, <1>3, <2>1, <2>2, <3>1, <3>2 DEF Ordered, Tracked, Of, Working, Busy
      <3> QED
        BY <1>0, <2>1, <2>2, <3>1, <3>2, <3>3 DEF Earlier
    <2> QED
      BY <1>3, <2>3, <2>4
  <1> QED
    BY <1>11, <1>12, <1>13, <1>14 DEF Ordered

LEMMA OrderedStep == Typed /\ Alone /\ Ordered /\ [Next]_vars => Ordered'
  <1> SUFFICES ASSUME Typed, Alone, Ordered, [Next]_vars PROVE Ordered'
    OBVIOUS
  <1>0. sessions \in Nat
    BY DEF Typed, TypeOK
  <1>1. ASSUME manifest' = manifest, sessions' \in {sessions, sessions + 1},
               \A q \in Proc : Tracked(q)'
        PROVE  Ordered'
    <2>1. \A m \in DOMAIN manifest : manifest[m].kind # "junk" => manifest[m].session \in Nat
      BY LineFields, ManifestFields
    <2> QED
      BY <1>0, <1>1, <2>1 DEF Ordered, AttemptsInOrder, Numbers, IsRequest
  <1>2. ASSUME NEW q \in Proc, eng'[q] = Idle PROVE Tracked(q)'
    BY <1>2 DEF Tracked, Idle, Live, Working, Busy
  <1>3. ASSUME NEW p \in Proc, Step(p) PROVE Ordered'
    <2>1. CASE Unlock(p)
      <3>1. \A q \in Proc : eng'[q] = Idle
        BY <1>3, <2>1, StepOwn DEF Alone, OneWriter, Unlock, Typed, TypeOK
      <3> QED
        BY <1>1, <1>2, <2>1, <3>1 DEF Unlock, bounds
    <2>2. CASE ~Unlock(p)
      BY <1>3, <2>2, StepWrote, OrderedOnward, OrderedWrote
    <2> QED
      BY <2>1, <2>2
  <1>4. CASE RemoveStaleLock \/ UNCHANGED vars
    <2>1. UNCHANGED <<manifest, torn, sessions, eng>>
      BY <1>4 DEF RemoveStaleLock, vars, disk, bounds
    <2>2. \A q \in Proc : Tracked(q)'
      BY <2>1 DEF Ordered, Tracked, Of, Earlier
    <2> QED
      BY <1>1, <2>1, <2>2
  <1>5. CASE LockFails
    <2>1. \A q \in Proc : eng'[q] = Idle
      BY <1>5 DEF LockFails, LockFree, Alone
    <2> QED
      BY <1>1, <1>2, <1>5, <2>1 DEF LockFails
  <1>6. ASSUME NEW p \in Proc, NEW redo \in BOOLEAN, Start(p, redo) PROVE Ordered'
    <2>1. \A q \in Proc : q # p => eng'[q] = Idle
      BY <1>6 DEF Start, LockFree, Alone
    <2>2. eng'[p].pc = "session" /\ eng'[p].session = sessions + 1 /\ sessions' = sessions + 1
      BY <1>6 DEF Start, Idle, Typed, TypeOK
    <2>3. \A m \in DOMAIN manifest : ~Of(m, sessions + 1)
      BY <1>0 DEF Ordered, Numbers, Of
    <2>4. Tracked(p)'
      BY <1>6, <2>2, <2>3 DEF Start, Tracked, Of, Live, Working, Busy
    <2> QED
      BY <1>1, <1>2, <1>6, <2>1, <2>2, <2>4 DEF Start
  <1>7. ASSUME NEW p \in Proc, Stop(p) PROVE Ordered'
    <2>1. UNCHANGED <<manifest, torn, sessions>> /\ eng[p] \in Locals
      BY <1>7 DEF Stop, disk, bounds, Typed, TypeOK
    <2>2. /\ \A q \in Proc : q # p => eng'[q] = eng[q]
          /\ eng'[p].pc = eng[p].pc /\ eng'[p].session = eng[p].session
          /\ eng'[p].job = eng[p].job /\ eng'[p].addr = eng[p].addr
          /\ eng'[p].attempt = eng[p].attempt
      BY <1>7, <2>1 DEF Stop, Typed, TypeOK, Locals
    <2>3. \A q \in Proc : Tracked(q)'
      BY <2>1, <2>2 DEF Ordered, Tracked, Of, Earlier
    <2> QED
      BY <1>1, <2>1, <2>3
  <1>8. ASSUME NEW p \in Proc, Raise(p) PROVE Ordered'
    <2>1. UNCHANGED <<manifest, sessions>> /\ eng[p] \in Locals /\ eng[p].pc # "idle"
      BY <1>8 DEF Raise, Appending, Typed, TypeOK
    <2>2. /\ \A q \in Proc : q # p => eng'[q] = eng[q]
          /\ eng'[p].pc = "unlock" /\ eng'[p].session = eng[p].session
      BY <1>8, <2>1 DEF Raise, AfterRaise, Typed, TypeOK, Locals
    <2>3. \A q \in Proc : q # p => eng'[q] = Idle
      BY <2>1, <2>2 DEF Alone, OneWriter
    <2>4. Tracked(p)'
      BY <2>1, <2>2 DEF Ordered, Tracked, Live, Working, Busy
    <2> QED
      BY <1>1, <1>2, <2>1, <2>3, <2>4
  <1>9. ASSUME NEW p \in Proc, Crash(p) PROVE Ordered'
    <2>1. \A q \in Proc : eng'[q] = Idle
      BY <1>9 DEF Crash, Alone, OneWriter, Typed, TypeOK
    <2> QED
      BY <1>1, <1>2, <1>9, <2>1 DEF Crash
  <1> QED
    BY <1>3, <1>4, <1>5, <1>6, <1>7, <1>8, <1>9 DEF Next, Environment, Finished

(* A job's addresses are tried in their order, each at most Retries times with
   attempts numbered upwards, and none after the file came (_run_job's loops). *)
THEOREM AttemptsAlwaysInOrder == Spec => []AttemptsInOrder
  <1>1. Spec => [](Typed /\ Alone /\ Ordered)
    BY TypedInit, TypedStep, AloneInit, AloneStep, OrderedInit, OrderedStep, PTL DEF Spec
  <1>2. Ordered => AttemptsInOrder
    BY DEF Ordered
  <1> QED
    BY <1>1, <1>2, PTL
-----------------------------------------------------------------------------
(* The totals.  At the head of the loop and while a job is under way, the counts
   are those of the jobs before it. *)
Right(l, asked, done) ==
  /\ l.done = Cardinality(done)
  /\ Cardinality(asked) - l.done
       \in IF l.stop = "examiner" THEN {l.failed, l.failed + 1} ELSE {l.failed}
  /\ l.stop = "completed" => l.done + l.failed + l.skipped = Len(Urls)

Sums(e, asked, done) ==
  /\ e.pc \in Working \cup {"session"} => e.stop = "completed"
  /\ e.pc = "session" => e.done = 0 /\ e.failed = 0 /\ e.skipped = 0 /\ e.job = 1
  /\ e.pc \in Working =>
       /\ e.done = Cardinality(done)
       /\ e.done + e.failed = Cardinality(asked \ {e.job})
       /\ e.done + e.failed + e.skipped = e.job - 1
  /\ e.pc = "end" => Right(e, asked, done)

Counting(p) == \A x \in Nat : eng[p].session = x => Sums(eng[p], AskedIn(x), DoneIn(x))

EndsRight ==
  \A n \in DOMAIN manifest : manifest[n].kind = "end" =>
    \A x \in Nat : manifest[n].session = x => Right(manifest[n], AskedIn(x), DoneIn(x))

Accounted == EndsRight /\ \A p \in Proc : Counting(p)

LEMMA AccountedInit == Init => Accounted
  BY EmptySeq DEF Init, Accounted, EndsRight, Counting, Sums, Idle, Working, Busy

LEMMA RightEnds == Typed => (EndsRight <=> EndAccounts)
  <1> SUFFICES ASSUME Typed PROVE EndsRight <=> EndAccounts
    OBVIOUS
  <1>1. \A n \in DOMAIN manifest : manifest[n].kind = "end" => manifest[n].session \in Nat
    BY LineFields, ManifestFields
  <1> QED
    BY <1>1 DEF EndsRight, EndAccounts, Right

(* Without a new line nothing changes of what a session asked for and got. *)
LEMMA SameSums ==
  ASSUME manifest' = manifest, NEW x
  PROVE  AskedIn(x)' = AskedIn(x) /\ DoneIn(x)' = DoneIn(x)
  BY DEF AskedIn, DoneIn, IsOk, IsRequest

LEMMA SumsFinite ==
  ASSUME Typed, Numbers, NEW x
  PROVE  /\ AskedIn(x) \subseteq Jobs /\ IsFiniteSet(AskedIn(x))
         /\ DoneIn(x) \subseteq Jobs /\ IsFiniteSet(DoneIn(x))
  <1>1. IsFiniteSet(Jobs)
    BY ConstantTypes, FS_Interval DEF Jobs
  <1>2. AskedIn(x) \subseteq Jobs
    BY DEF AskedIn, IsRequest, Numbers
  <1>3. DoneIn(x) \subseteq Jobs
    BY DEF DoneIn
  <1> QED
    BY <1>1, <1>2, <1>3, FS_Subset

(* What a new line adds to them. *)
LEMMA SumsAppended ==
  ASSUME Typed, NEW line \in Lines, Append1(line), line.kind = "request" => line.job \in Jobs,
         NEW x
  PROVE  LET asked == ~torn /\ line.kind = "request" /\ line.session = x
         IN /\ AskedIn(x)' = IF asked THEN AskedIn(x) \cup {line.job} ELSE AskedIn(x)
            /\ DoneIn(x)' = IF asked /\ line.result = "ok" THEN DoneIn(x) \cup {line.job}
                                                          ELSE DoneIn(x)
  <1>0. PICK n \in Nat : n = Len(manifest) /\ DOMAIN manifest = 1 .. n
    BY ManifestLength
  <1>1. PICK new \in Lines :
          /\ new = IF torn THEN Junk ELSE line
          /\ DOMAIN manifest' = 1 .. n + 1
          /\ manifest'[n + 1] = new
          /\ \A m \in 1 .. n : manifest'[m] = manifest[m]
    BY <1>0, AppendedLine DEF Lines
  <1> DEFINE asked == new.kind = "request" /\ new.session = x
  <1>2. 1 .. n + 1 = (1 .. n) \cup {n + 1}
    BY <1>0
  <1>3. ~asked => AskedIn(x)' = AskedIn(x)
    BY <1>0, <1>1, <1>2 DEF AskedIn, IsRequest
  <1>4. asked => AskedIn(x)' = AskedIn(x) \cup {new.job}
    <2> SUFFICES ASSUME asked PROVE AskedIn(x)' = AskedIn(x) \cup {new.job}
      OBVIOUS
    <2>1. ASSUME NEW j \in AskedIn(x)' PROVE j \in AskedIn(x) \cup {new.job}
      <3>1. PICK m \in 1 .. n + 1 : /\ manifest'[m].kind = "request" /\ manifest'[m].session = x
                                   /\ j = manifest'[m].job
        BY <1>1, <2>1 DEF AskedIn, IsRequest
      <3>2. CASE m = n + 1
        BY <1>1, <3>1, <3>2
      <3>3. CASE m \in 1 .. n
        BY <1>0, <1>1, <3>1, <3>3 DEF AskedIn, IsRequest
      <3> QED
        BY <1>2, <3>2, <3>3
    <2>2. ASSUME NEW j \in AskedIn(x) PROVE j \in AskedIn(x)'
      <3>1. PICK m \in 1 .. n : /\ manifest[m].kind = "request" /\ manifest[m].session = x
                                /\ j = manifest[m].job
        BY <1>0, <2>2 DEF AskedIn, IsRequest
      <3> QED
        BY <1>1, <1>2, <3>1 DEF AskedIn, IsRequest
    <2>3. new.job \in AskedIn(x)'
      BY <1>0, <1>1 DEF AskedIn, IsRequest
    <2> QED
      BY <2>1, <2>2, <2>3
  <1>5. ASSUME NEW j \in Jobs
        PROVE  j \in DoneIn(x)' <=> \/ j \in DoneIn(x)
                                    \/ asked /\ new.result = "ok" /\ j = new.job
    BY <1>0, <1>1, <1>2 DEF DoneIn, IsOk, IsRequest
  <1>6. asked <=> ~torn /\ line.kind = "request" /\ line.session = x
    BY <1>1 DEF Junk
  <1>7. asked => new = line /\ new.job \in Jobs
    BY <1>1, <1>6
  <1> HIDE DEF asked
  <1>8. DoneIn(x)' = IF asked /\ new.result = "ok" THEN DoneIn(x) \cup {new.job} ELSE DoneIn(x)
    <2>1. DoneIn(x)' \subseteq Jobs /\ DoneIn(x) \subseteq Jobs
      BY DEF DoneIn
    <2> QED
      BY <1>5, <1>7, <2>1
  <1> QED
    BY <1>3, <1>4, <1>6, <1>7, <1>8

(* What a session asked for before the head of the loop is behind it. *)
LEMMA AskedBefore ==
  ASSUME Ordered, NEW p \in Proc, eng[p].pc = "loop", NEW j \in AskedIn(eng[p].session)
  PROVE  j < eng[p].job
  <1>1. PICK m \in DOMAIN manifest : /\ manifest[m].kind = "request" /\ j = manifest[m].job
                                     /\ manifest[m].session = eng[p].session
    BY DEF AskedIn, IsRequest
  <1> QED
    BY <1>1 DEF Ordered, Tracked, Of, Earlier, Working

(* The job under way has not come yet. *)
LEMMA NotYetDone ==
  ASSUME Ordered, NEW p \in Proc, eng[p].pc \in Busy
  PROVE  eng[p].job \notin DoneIn(eng[p].session)
  BY DEF DoneIn, IsOk, IsRequest, Ordered, Tracked, Of, Earlier, Working

LEMMA AccountedOnward ==
  ASSUME Typed, Alone, Ordered, Accounted, NEW p \in Proc, Step(p), ~Unlock(p),
         manifest' = manifest, Onward(eng'[p], eng[p])
  PROVE  Accounted'
  <1>0. PICK e \in Locals : e = eng[p] /\ e.pc # "idle" /\ e.job \in Nat
    BY UnderWay
  <1>1. PICK f : f = eng'[p] /\ Onward(f, e) /\ Same(f, e)
    BY <1>0, StepBusy
  <1>2. \A q \in Proc : q # p => eng'[q] = Idle
    BY StepOwn DEF Alone, OneWriter
  <1>3. PICK x \in Nat : x = e.session /\ x = f.session
    BY <1>1 DEF Same, Locals
  <1>4. PICK A, D : /\ A = AskedIn(x) /\ AskedIn(x)' = A /\ IsFiniteSet(A)
                    /\ D = DoneIn(x) /\ DoneIn(x)' = D
    BY SameSums, SumsFinite DEF Ordered
  <1>5. Sums(e, A, D)
    BY <1>0, <1>3, <1>4 DEF Accounted, Counting
  <1>6. e.pc = "loop" => A \ {e.job} = A /\ A \ {e.job + 1} = A
    <2>1. e.pc = "loop" => \A j \in A : j < e.job
      BY <1>0, <1>3, <1>4, AskedBefore
    <2>2. A \subseteq Nat
      BY <1>4, SumsFinite, ConstantTypes DEF Ordered
    <2> QED
      BY <1>0, <2>1, <2>2
  <1>7. e.pc \in Working
    BY <1>1 DEF Onward, Working, Busy
  <1>8. e.done \in Nat /\ e.failed \in Nat /\ e.skipped \in Nat
    BY DEF Locals
  <1>9. Sums(f, A, D)
    <2>1. CASE e.pc = "loop" /\ f.pc = "loop"
      <3>1. /\ f.job = e.job + 1 /\ f.skipped = e.skipped + 1
            /\ f.done = e.done /\ f.failed = e.failed /\ f.stop = e.stop
        BY <1>0, <1>1, <2>1 DEF Onward, Busy
      <3>2. /\ e.stop = "completed" /\ e.done = Cardinality(D)
            /\ e.done + e.failed = Cardinality(A)
            /\ e.done + e.failed + e.skipped = e.job - 1
        BY <1>5, <1>6, <2>1 DEF Sums, Working
      <3>3. f.done + f.failed + f.skipped = f.job - 1
        BY <1>0, <1>8, <3>1, <3>2
      <3> QED
        BY <1>6, <2>1, <3>1, <3>2, <3>3 DEF Sums, Working, Busy
    <2>2. CASE (e.pc = "loop" /\ f.pc = "pace") \/ (e.pc \in Busy /\ f.pc \in Busy)
      BY <1>1, <1>5, <2>2 DEF Onward, Sums, SameCounts, Working, Busy
    <2>3. CASE f.pc = "end" /\ f.stop = "examiner"
      <3>1. Cardinality(A) \in Nat
        BY <1>4, FS_CardinalityType
      <3>2. Cardinality(A \ {e.job}) \in {Cardinality(A), Cardinality(A) - 1}
        BY <1>4, FS_RemoveElement
      <3>3. SameCounts(f, e)
        BY <1>1, <2>3 DEF Onward, Busy
      <3>4. e.done = Cardinality(D) /\ e.done + e.failed = Cardinality(A \ {e.job})
        BY <1>5, <1>7 DEF Sums
      <3>5. Cardinality(A) - e.done \in {e.failed, e.failed + 1}
        BY <1>8, <3>1, <3>2, <3>4
      <3> QED
        BY <2>3, <3>3, <3>4, <3>5 DEF Sums, Right, SameCounts, Working, Busy
    <2>4. CASE f.pc = "end" /\ f.stop # "examiner"
      <3>1. e.pc = "loop" /\ e.job \notin Jobs /\ SameCounts(f, e)
        BY <1>1, <2>4 DEF Onward, Busy
      <3>2. e.job - 1 = Len(Urls)
        <4>1. Len(Urls) \in Nat /\ e.job \in 1 .. Len(Urls) + 1
          BY ConstantTypes DEF Locals
        <4> QED
          BY <3>1, <4>1 DEF Jobs
      <3>3. /\ e.done = Cardinality(D) /\ e.done + e.failed = Cardinality(A)
            /\ e.done + e.failed + e.skipped = Len(Urls)
        BY <1>5, <1>6, <3>1, <3>2 DEF Sums, Working
      <3>4. Cardinality(A) - e.done = e.failed
        BY <1>8, <3>3
      <3> QED
        BY <2>4, <3>1, <3>3, <3>4 DEF Sums, Right, SameCounts, Working, Busy
    <2>5. CASE f.pc = "unlock"
      BY <2>5 DEF Sums, Working, Busy
    <2> QED
      BY <1>1, <2>1, <2>2, <2>3, <2>4, <2>5 DEF Onward, Busy, Working
  <1>10. Counting(p)'
    BY <1>1, <1>3, <1>4, <1>9 DEF Counting
  <1>11. \A q \in Proc : q # p => Counting(q)'
    BY <1>2 DEF Counting, Sums, Idle, Working, Busy
  <1>12. EndsRight'
    <2>1. \A y : AskedIn(y)' = AskedIn(y) /\ DoneIn(y)' = DoneIn(y)
      BY SameSums
    <2> QED
      BY <2>1 DEF Accounted, EndsRight, Right
  <1> QED
    BY <1>10, <1>11, <1>12 DEF Accounted

(* What a request line makes of the counts, by its result. *)
LEMMA SumsRequested ==
  ASSUME NEW e \in Locals, NEW f, NEW A, NEW D, NEW D1, NEW r,
         e.job \in Nat, e.pc \in Busy, Sums(e, A, D), Requested(f, e, r),
         IsFiniteSet(A), A \subseteq Nat, IsFiniteSet(D), e.job \notin D,
         D1 = IF r = "ok" THEN D \cup {e.job} ELSE D,
         f.pc = "loop" => \A j \in A : j <= e.job
  PROVE  Sums(f, A \cup {e.job}, D1)
  <1> DEFINE B == A \cup {e.job}
  <1>1. /\ e.stop = "completed" /\ e.done = Cardinality(D)
        /\ e.done + e.failed = Cardinality(A \ {e.job})
        /\ e.done + e.failed + e.skipped = e.job - 1
    BY DEF Sums, Working
  <1>2. e.done \in Nat /\ e.failed \in Nat /\ e.skipped \in Nat
    BY DEF Locals
  <1>3. B \ {e.job} = A \ {e.job}
    OBVIOUS
  <1>4. Cardinality(B) = Cardinality(A \ {e.job}) + 1
    <2>1. IsFiniteSet(A \ {e.job})
      BY FS_RemoveElement
    <2>2. B = (A \ {e.job}) \cup {e.job}
      OBVIOUS
    <2> QED
      BY <2>1, <2>2, FS_AddElement
  <1>5. Cardinality(D1) = IF r = "ok" THEN e.done + 1 ELSE e.done
    <2>1. Cardinality(D \cup {e.job}) = Cardinality(D) + 1
      BY FS_AddElement
    <2> QED
      BY <1>1, <2>1
  <1> HIDE DEF B
  <1> SUFFICES Sums(f, B, D1)
    BY DEF B
  <1>6. CASE Left(f, e, IF r = "ok" THEN "done" ELSE r) /\ r \in {"ok", "failed", "refused"}
    <2>1. /\ f.done = Cardinality(D1) /\ f.done + f.failed = Cardinality(B)
          /\ f.done + f.failed + f.skipped = e.job
          /\ f.done \in Nat /\ f.failed \in Nat
      <3>1. /\ f.skipped = e.skipped
            /\ r = "ok" => f.done = e.done + 1 /\ f.failed = e.failed
            /\ r # "ok" => f.done = e.done /\ f.failed = e.failed + 1
        BY <1>6 DEF Left
      <3>2. f.done = Cardinality(D1)
        BY <1>5, <3>1
      <3>3. /\ f.done \in Nat /\ f.failed \in Nat /\ f.skipped \in Nat
            /\ f.done + f.failed = e.done + e.failed + 1
        BY <1>2, <3>1
      <3>4. f.done + f.failed + f.skipped = e.done + e.failed + e.skipped + 1
        BY <1>2, <3>1, <3>3
      <3> QED
        BY <1>1, <1>4, <3>2, <3>3, <3>4
    <2>2. CASE f.pc = "loop" /\ f.job = e.job + 1 /\ f.stop = e.stop
      <3>1. e.job + 1 \notin B
        BY <2>2 DEF B
      <3>2. B \ {f.job} = B
        BY <2>2, <3>1
      <3> QED
        <4>1. /\ f.stop = "completed" /\ f.done = Cardinality(D1)
              /\ f.done + f.failed = Cardinality(B \ {f.job})
              /\ f.done + f.failed + f.skipped = f.job - 1
          <5>1. f.job - 1 = e.job
            BY <2>2
          <5> QED
            BY <1>1, <2>1, <2>2, <3>2, <5>1
        <4> QED
          BY <2>2, <4>1 DEF Sums, Working, Busy
    <2>3. CASE f.pc = "end" /\ f.job = e.job /\ f.stop \in {"failures", "refused"}
      <3>1. Cardinality(B) - f.done = f.failed
        BY <1>2, <2>1
      <3> QED
        BY <2>1, <2>3, <3>1 DEF Sums, Right, Working, Busy
    <2> QED
      BY <1>6, <2>2, <2>3 DEF Left
  <1>7. CASE r # "ok" /\ SameCounts(f, e) /\ f.stop = e.stop /\ f.job = e.job /\ f.pc \in Busy
    BY <1>1, <1>3, <1>5, <1>7 DEF Sums, SameCounts, Working, Busy
  <1> QED
    BY <1>6, <1>7 DEF Requested, Busy

LEMMA AccountedWrote ==
  ASSUME Typed, Alone, Ordered, Accounted, NEW p \in Proc, Step(p), ~Unlock(p),
         NEW line \in Lines, Append1(line), line.session = eng[p].session,
         Wrote(line, eng'[p], eng[p])
  PROVE  Accounted'
  <1>0. PICK e \in Locals : /\ e = eng[p] /\ e.pc # "idle" /\ e.job \in Nat
                            /\ e.pc \in Busy => e.job \in Jobs
    BY UnderWay
  <1>1. PICK f : f = eng'[p] /\ Wrote(line, f, e) /\ Same(f, e)
    BY <1>0, StepBusy
  <1>2. \A q \in Proc : q # p => eng'[q] = Idle
    BY StepOwn DEF Alone, OneWriter
  <1>3. PICK x \in Nat : x = e.session /\ x = f.session /\ x = line.session
    BY <1>0, <1>1 DEF Same, Locals
  <1>4. PICK n \in Nat : n = Len(manifest) /\ DOMAIN manifest = 1 .. n
    BY ManifestLength
  <1>5. PICK new \in Lines :
          /\ new = IF torn THEN Junk ELSE line
          /\ DOMAIN manifest' = 1 .. n + 1
          /\ manifest'[n + 1] = new
          /\ \A m \in 1 .. n : manifest'[m] = manifest[m]
    BY <1>4, AppendedLine DEF Lines
  <1>6. PICK A, D : /\ A = AskedIn(x) /\ IsFiniteSet(A) /\ A \subseteq Nat
                    /\ D = DoneIn(x) /\ IsFiniteSet(D)
    BY SumsFinite, ConstantTypes DEF Ordered
  <1>7. Sums(e, A, D)
    BY <1>0, <1>3, <1>6 DEF Accounted, Counting
  <1>8. e.pc \in Live => ~torn
    BY <1>0 DEF Ordered, Tracked
  <1>9. line.kind = "request" => line.job \in Jobs
    BY <1>0, <1>1 DEF Wrote, Busy
  <1>10. ASSUME NEW y, line.kind # "request" \/ y # x
         PROVE  AskedIn(y)' = AskedIn(y) /\ DoneIn(y)' = DoneIn(y)
    BY <1>3, <1>9, <1>10, SumsAppended
  <1>11. ASSUME e.pc = "session" PROVE Counting(p)'
    <2>1. A = {} /\ D = {}
      <3>1. \A m \in DOMAIN manifest : ~Of(m, x)
        BY <1>0, <1>3, <1>11 DEF Ordered, Tracked
      <3> QED
        BY <1>6, <3>1 DEF Of, AskedIn, DoneIn, IsOk, IsRequest
    <2>2. line.kind = "session" /\ f.pc = "loop" /\ SameCounts(f, e) /\ f.job = 1
          /\ f.stop = "completed" /\ f.done = 0 /\ f.failed = 0 /\ f.skipped = 0
      BY <1>1, <1>7, <1>11 DEF Wrote, Sums, SameCounts
    <2>3. Sums(f, A, D)
      <3>1. Cardinality({}) = 0 /\ {} \ {1} = {}
        BY FS_EmptySet
      <3> QED
        BY <2>1, <2>2, <3>1 DEF Sums, Working, Busy
    <2>4. AskedIn(x)' = A /\ DoneIn(x)' = D
      BY <1>6, <1>10, <2>2
    <2> QED
      BY <1>1, <1>3, <2>3, <2>4 DEF Counting
  <1>12. ASSUME line.kind = "request" PROVE Counting(p)'
    <2>1. /\ e.pc \in {"fetch", "decrypted"} /\ line.job = e.job /\ e.job \in Jobs
          /\ Requested(f, e, line.result)
      BY <1>0, <1>1, <1>12 DEF Wrote, Busy
    <2>2. PICK D1 : D1 = IF line.result = "ok" THEN D \cup {e.job} ELSE D
      OBVIOUS
    <2>3. AskedIn(x)' = A \cup {e.job} /\ DoneIn(x)' = D1
      BY <1>3, <1>6, <1>8, <1>9, <1>12, <2>1, <2>2, SumsAppended DEF Live, Working, Busy
    <2>4. e.job \notin D
      BY <1>0, <1>3, <1>6, <2>1, NotYetDone DEF Busy
    <2>5. \A j \in A : j <= e.job
      <3>1. ASSUME NEW j \in A PROVE j <= e.job
        <4>1. PICK m \in DOMAIN manifest : /\ manifest[m].kind = "request" /\ j = manifest[m].job
                                           /\ manifest[m].session = x
          BY <1>6, <3>1 DEF AskedIn, IsRequest
        <4> QED
          BY <1>0, <1>3, <2>1, <4>1 DEF Ordered, Tracked, Of, Earlier, Working, Busy
      <3> QED
        BY <3>1
    <2>6. Sums(f, A \cup {e.job}, D1)
      BY <1>0, <1>6, <1>7, <2>1, <2>2, <2>4, <2>5, SumsRequested DEF Busy
    <2> QED
      BY <1>1, <1>3, <2>3, <2>6 DEF Counting
  <1>13. ASSUME e.pc = "end" PROVE Counting(p)'
    <2>1. f.pc = "unlock"
      BY <1>1, <1>13 DEF Wrote
    <2> QED
      BY <1>1, <2>1 DEF Counting, Sums, Working, Busy
  <1>14. Counting(p)'
    BY <1>1, <1>11, <1>12, <1>13 DEF Wrote
  <1>15. \A q \in Proc : q # p => Counting(q)'
    BY <1>2 DEF Counting, Sums, Idle, Working, Busy
  <1>16. EndsRight'
    <2>1. SUFFICES ASSUME NEW k \in 1 .. n + 1, NEW y \in Nat,
                          manifest'[k].kind = "end", manifest'[k].session = y
                   PROVE  Right(manifest'[k], AskedIn(y)', DoneIn(y)')
      BY <1>5 DEF EndsRight, Right
    <2>2. CASE k \in 1 .. n
      <3>1. manifest'[k] = manifest[k] /\ Right(manifest[k], AskedIn(y), DoneIn(y))
        BY <1>4, <1>5, <2>1, <2>2 DEF Accounted, EndsRight
      <3>2. line.kind # "request" \/ y # x
        <4>1. SUFFICES ASSUME line.kind = "request", y = x PROVE FALSE
          OBVIOUS
        <4>2. e.pc \in Live
          BY <1>1, <4>1 DEF Wrote, Live, Working, Busy
        <4> QED
          BY <1>0, <1>3, <1>4, <2>1, <2>2, <3>1, <4>1, <4>2 DEF Ordered, Tracked, Of
      <3> QED
        BY <1>10, <3>1, <3>2
    <2>3. CASE k = n + 1
      <3>1. new = line /\ line.kind = "end" /\ y = x
        BY <1>3, <1>5, <2>1, <2>3 DEF Junk
      <3>2. /\ e.pc = "end" /\ line.done = e.done /\ line.failed = e.failed
            /\ line.skipped = e.skipped /\ line.stop = e.stop
        BY <1>1, <3>1 DEF Wrote
      <3>3. Right(line, A, D)
        BY <1>7, <3>2 DEF Sums, Right
      <3> QED
        BY <1>5, <1>6, <1>10, <2>3, <3>1, <3>3
    <2> QED
      BY <1>4, <2>2, <2>3
  <1> QED
    BY <1>14, <1>15, <1>16 DEF Accounted

LEMMA AccountedStep == Typed /\ Alone /\ Ordered /\ Accounted /\ [Next]_vars => Accounted'
  <1> SUFFICES ASSUME Typed, Alone, Ordered, Accounted, [Next]_vars PROVE Accounted'
    OBVIOUS
  <1>1. ASSUME manifest' = manifest, \A q \in Proc : Counting(q)' PROVE Accounted'
    <2>1. \A y : AskedIn(y)' = AskedIn(y) /\ DoneIn(y)' = DoneIn(y)
      BY <1>1, SameSums
    <2> QED
      BY <1>1, <2>1 DEF Accounted, EndsRight, Right
  <1>2. ASSUME NEW q \in Proc, eng'[q] = Idle PROVE Counting(q)'
    BY <1>2 DEF Counting, Sums, Idle, Working, Busy
  <1>3. ASSUME NEW p \in Proc, Step(p) PROVE Accounted'
    <2>1. CASE Unlock(p)
      <3>1. \A q \in Proc : eng'[q] = Idle
        BY <1>3, <2>1, StepOwn DEF Alone, OneWriter, Unlock, Typed, TypeOK
      <3> QED
        BY <1>1, <1>2, <2>1, <3>1 DEF Unlock
    <2>2. CASE ~Unlock(p)
      BY <1>3, <2>2, StepWrote, AccountedOnward, AccountedWrote
    <2> QED
      BY <2>1, <2>2
  <1>4. ASSUME manifest' = manifest, NEW q \in Proc,
               eng'[q].pc = eng[q].pc, eng'[q].session = eng[q].session,
               SameCounts(eng'[q], eng[q]), eng'[q].job = eng[q].job,
               eng'[q].stop = eng[q].stop
        PROVE  Counting(q)'
    <2>1. \A y : AskedIn(y)' = AskedIn(y) /\ DoneIn(y)' = DoneIn(y)
      BY <1>4, SameSums
    <2>2. PICK e : e = eng[q]
      OBVIOUS
    <2>3. PICK f : /\ f = eng'[q] /\ f.pc = e.pc /\ f.session = e.session /\ f.job = e.job
                   /\ f.stop = e.stop /\ f.done = e.done /\ f.failed = e.failed
                   /\ f.skipped = e.skipped
      BY <1>4, <2>2 DEF SameCounts
    <2>4. Counting(q)
      BY DEF Accounted
    <2> QED
      BY <1>4, <2>1, <2>2, <2>3, <2>4 DEF Counting, Sums, Right
  <1>5. CASE RemoveStaleLock \/ LockFails \/ UNCHANGED vars
    <2>1. UNCHANGED <<manifest, eng>>
      BY <1>5 DEF RemoveStaleLock, LockFails, vars, disk
    <2> QED
      BY <1>1, <1>4, <2>1 DEF SameCounts
  <1>6. ASSUME NEW p \in Proc, NEW redo \in BOOLEAN, Start(p, redo) PROVE Accounted'
    <2>1. \A q \in Proc : q # p => eng'[q] = Idle
      BY <1>6 DEF Start, LockFree, Alone
    <2>2. /\ eng'[p].pc = "session" /\ eng'[p].stop = "completed" /\ eng'[p].job = 1
          /\ eng'[p].done = 0 /\ eng'[p].failed = 0 /\ eng'[p].skipped = 0
      BY <1>6 DEF Start, Idle, Typed, TypeOK
    <2>3. Counting(p)'
      BY <2>2 DEF Counting, Sums, Working, Busy
    <2> QED
      BY <1>1, <1>2, <1>6, <2>1, <2>3 DEF Start
  <1>7. ASSUME NEW p \in Proc, Stop(p) PROVE Accounted'
    <2>1. manifest' = manifest /\ eng[p] \in Locals
      BY <1>7 DEF Stop, disk, Typed, TypeOK
    <2>2. /\ \A q \in Proc : q # p => eng'[q] = eng[q]
          /\ eng'[p].pc = eng[p].pc /\ eng'[p].session = eng[p].session
          /\ SameCounts(eng'[p], eng[p]) /\ eng'[p].job = eng[p].job
          /\ eng'[p].stop = eng[p].stop
      BY <1>7, <2>1 DEF Stop, Typed, TypeOK, Locals, SameCounts
    <2> QED
      BY <1>1, <1>4, <2>1, <2>2 DEF SameCounts
  <1>8. ASSUME NEW p \in Proc, Raise(p) PROVE Accounted'
    <2>1. manifest' = manifest /\ eng[p] \in Locals /\ eng[p].pc # "idle"
      BY <1>8 DEF Raise, Appending, Typed, TypeOK
    <2>2. eng'[p].pc = "unlock" /\ \A q \in Proc : q # p => eng'[q] = eng[q]
      BY <1>8, <2>1 DEF Raise, AfterRaise, Typed, TypeOK, Locals
    <2>3. Counting(p)'
      BY <2>2 DEF Counting, Sums, Working, Busy
    <2> QED
      BY <1>1, <1>4, <2>1, <2>2, <2>3 DEF SameCounts
  <1>9. ASSUME NEW p \in Proc, Crash(p) PROVE Accounted'
    <2>1. \A q \in Proc : eng'[q] = Idle
      BY <1>9 DEF Crash, Alone, OneWriter, Typed, TypeOK
    <2> QED
      BY <1>1, <1>2, <1>9, <2>1 DEF Crash
  <1> QED
    BY <1>3, <1>5, <1>6, <1>7, <1>8, <1>9 DEF Next, Environment, Finished

(* The totals of an end line are those of its session's request lines, and a
   completed retrieval accounts for every job (Engine.run's counts, from the loop
   over the jobs to the record of the end). *)
THEOREM EndsAccount == Spec => []EndAccounts
  <1>1. Spec => [](Typed /\ Alone /\ Ordered /\ Accounted)
    BY TypedInit, TypedStep, AloneInit, AloneStep, OrderedInit, OrderedStep,
       AccountedInit, AccountedStep, PTL DEF Spec
  <1>2. Typed /\ Accounted => EndAccounts
    BY RightEnds DEF Accounted
  <1> QED
    BY <1>1, <1>2, PTL
-----------------------------------------------------------------------------
(* Giving up.  The jobs of session x that ended so since its last file came, as
   they stand at line k; those of them that are not job j. *)
Streak(k, x, result) ==
  {m \in DOMAIN manifest :
     /\ Outcome(m, result) /\ manifest[m].session = x
     /\ \A i \in m .. k : \A j \in Jobs : manifest[i].session = x => ~IsOk(i, j)}

Elsewhere(k, x, result, j) == {m \in Streak(k, x, result) : manifest[m].job # j}

Within(stop, failed, refused) ==
  /\ Cardinality(failed) <= MaxFailures /\ Cardinality(refused) <= MaxRefusals
  /\ stop = "failures" => Cardinality(failed) = MaxFailures
  /\ stop = "refused" => Cardinality(refused) = MaxRefusals
  /\ stop = "completed" => Cardinality(failed) < MaxFailures /\ Cardinality(refused) < MaxRefusals

(* The two counts are those of the jobs before the one under way. *)
Waits(p) ==
  \A k, x, j \in Nat :
    Len(manifest) = k /\ eng[p].session = x /\ eng[p].job = j =>
      LET e == eng[p]
      IN /\ e.pc = "session" => e.transient = 0 /\ e.refused = 0
         /\ e.pc \in Working => /\ e.transient = Cardinality(Elsewhere(k, x, "failed", j))
                                /\ e.refused = Cardinality(Elsewhere(k, x, "refused", j))
                                /\ e.transient < MaxFailures /\ e.refused < MaxRefusals
         /\ e.pc = "end" => Within(e.stop, Streak(k, x, "failed"), Streak(k, x, "refused"))

EndsWithin ==
  \A k \in DOMAIN manifest : manifest[k].kind = "end" =>
    \A x \in Nat : manifest[k].session = x =>
      Within(manifest[k].stop, Streak(k, x, "failed"), Streak(k, x, "refused"))

Patient == EndsWithin /\ \A p \in Proc : Waits(p)

LEMMA PatientInit == Init => Patient
  BY EmptySeq DEF Init, Patient, EndsWithin, Waits, Idle, Working, Busy

LEMMA WithinEnds == Typed => (EndsWithin <=> GivesUp)
  <1> SUFFICES ASSUME Typed PROVE EndsWithin <=> GivesUp
    OBVIOUS
  <1>1. \A k \in DOMAIN manifest : manifest[k].kind = "end" => manifest[k].session \in Nat
    BY LineFields, ManifestFields
  <1> QED
    BY <1>1, ZenonT(60) DEF EndsWithin, GivesUp, Within, Streak

LEMMA SameStreaks ==
  ASSUME manifest' = manifest, NEW k, NEW x, NEW r
  PROVE  /\ Streak(k, x, r)' = Streak(k, x, r)
         /\ \A j : Elsewhere(k, x, r, j)' = Elsewhere(k, x, r, j)
  BY DEF Streak, Elsewhere, Outcome, IsOk, IsRequest

LEMMA StreakFinite ==
  ASSUME Typed, NEW k, NEW x, NEW r, NEW j
  PROVE  /\ IsFiniteSet(Streak(k, x, r)) /\ Cardinality(Streak(k, x, r)) \in Nat
         /\ IsFiniteSet(Elsewhere(k, x, r, j)) /\ Cardinality(Elsewhere(k, x, r, j)) \in Nat
  <1>1. IsFiniteSet(DOMAIN manifest)
    BY ManifestLength, FS_Interval
  <1>2. Streak(k, x, r) \subseteq DOMAIN manifest /\ Elsewhere(k, x, r, j) \subseteq DOMAIN manifest
    BY DEF Streak, Elsewhere
  <1> QED
    BY <1>1, <1>2, FS_Subset, FS_CardinalityType

(* At most one of them is about j: a job has one last line. *)
LEMMA OneOutcome ==
  ASSUME Typed, NEW k, NEW x, NEW r, NEW j
  PROVE  Cardinality(Streak(k, x, r)) <= Cardinality(Elsewhere(k, x, r, j)) + 1
  <1>1. CASE \E m \in Streak(k, x, r) : manifest[m].job = j
    <2>1. PICK m \in Streak(k, x, r) : manifest[m].job = j
      BY <1>1
    <2>2. ASSUME NEW i \in Streak(k, x, r), manifest[i].job = j PROVE i = m
      <3>1. i <= m /\ m <= i /\ i \in Nat /\ m \in Nat
        BY <2>1, <2>2, ManifestLength DEF Streak, Outcome
      <3> QED
        BY <3>1
    <2>3. Streak(k, x, r) = Elsewhere(k, x, r, j) \cup {m}
      BY <2>1, <2>2 DEF Elsewhere
    <2> QED
      BY <2>3, StreakFinite, FS_AddElement
  <1>2. CASE \A m \in Streak(k, x, r) : manifest[m].job # j
    <2>1. Streak(k, x, r) = Elsewhere(k, x, r, j)
      BY <1>2 DEF Elsewhere
    <2> QED
      BY <2>1, StreakFinite
  <1> QED
    BY <1>1, <1>2

(* What a new line makes of them. *)
LEMMA StreakAppended ==
  ASSUME Typed, NEW line \in Lines, Append1(line), line.kind = "request" => line.job \in Jobs,
         NEW x, NEW r, NEW n \in Nat, n = Len(manifest)
  PROVE  LET asked == ~torn /\ line.kind = "request" /\ line.session = x
         IN /\ ~asked => /\ \A k \in 1 .. n : Streak(k, x, r)' = Streak(k, x, r)
                         /\ Streak(n + 1, x, r)' = Streak(n, x, r)
            /\ asked /\ line.result = "ok" => Streak(n + 1, x, r)' = {}
            /\ asked /\ line.result # "ok" =>
                 Streak(n + 1, x, r)' =
                   Elsewhere(n, x, r, line.job) \cup IF r = line.result THEN {n + 1} ELSE {}
  <1>0. DOMAIN manifest = 1 .. n
    BY ManifestLength
  <1>1. PICK new \in Lines :
          /\ new = IF torn THEN Junk ELSE line
          /\ DOMAIN manifest' = 1 .. n + 1
          /\ manifest'[n + 1] = new
          /\ \A m \in 1 .. n : manifest'[m] = manifest[m]
    BY AppendedLine DEF Lines
  <1> DEFINE asked == new.kind = "request" /\ new.session = x
  <1>2. asked <=> ~torn /\ line.kind = "request" /\ line.session = x
    BY <1>1 DEF Junk
  <1>3. asked => new = line
    BY <1>1, <1>2
  <1>4. 1 .. n + 1 = (1 .. n) \cup {n + 1} /\ n + 1 \notin 1 .. n
    OBVIOUS
  <1>5. \A m \in 1 .. n : \A j : IsOk(m, j)' <=> IsOk(m, j)
    BY <1>1 DEF IsOk, IsRequest
  <1>6. ~asked => \A j : ~(manifest'[n + 1].session = x /\ IsOk(n + 1, j)')
    BY <1>1 DEF IsOk, IsRequest
  <1>7. ASSUME NEW m \in 1 .. n, manifest[m].session = x
        PROVE  Outcome(m, r)' <=> Outcome(m, r) /\ ~(asked /\ new.job = manifest[m].job)
    <2>1. ~(n + 1 <= m)
      OBVIOUS
    <2> QED
      BY <1>0, <1>1, <1>4, <1>7, <2>1 DEF Outcome, IsRequest
  <1>8. manifest'[n + 1].session = x => (Outcome(n + 1, r)' <=> asked /\ new.result = r)
    <2>1. \A k \in 1 .. n + 1 : k <= n + 1
      OBVIOUS
    <2> QED
      BY <1>1, <2>1 DEF Outcome, IsRequest
  <1> DEFINE Clear(m, k) == \A i \in m .. k : \A j \in Jobs : manifest[i].session = x => ~IsOk(i, j)
  <1>9. ASSUME NEW m \in 1 .. n, NEW k \in 1 .. n
        PROVE  Clear(m, k)' <=> Clear(m, k)
    <2>1. \A i \in m .. k : i \in 1 .. n
      OBVIOUS
    <2> QED
      BY <1>1, <1>5, <2>1
  <1>10. ASSUME NEW m \in 1 .. n
         PROVE  Clear(m, n + 1)' <=> Clear(m, n) /\ ~(asked /\ new.result = "ok")
    <2>1. m .. n + 1 = (m .. n) \cup {n + 1}
      OBVIOUS
    <2>2. \A i \in m .. n : i \in 1 .. n
      OBVIOUS
    <2>3. asked => new.job \in Jobs
      BY <1>2, <1>3
    <2>4. asked /\ new.result = "ok" => IsOk(n + 1, new.job)'
      BY <1>1 DEF IsOk, IsRequest
    <2>5. new.result # "ok" => \A j : ~IsOk(n + 1, j)'
      BY <1>1 DEF IsOk, IsRequest
    <2> QED
      BY <1>1, <1>5, <1>6, <2>1, <2>2, <2>3, <2>4, <2>5
  <1>11. Clear(n + 1, n + 1)' <=> ~(asked /\ new.result = "ok")
    <2>1. (n + 1) .. (n + 1) = {n + 1}
      OBVIOUS
    <2>3. asked => new.job \in Jobs
      BY <1>2, <1>3
    <2>4. asked /\ new.result = "ok" => IsOk(n + 1, new.job)'
      BY <1>1 DEF IsOk, IsRequest
    <2>5. new.result # "ok" => \A j : ~IsOk(n + 1, j)'
      BY <1>1 DEF IsOk, IsRequest
    <2> QED
      BY <1>1, <1>6, <2>1, <2>3, <2>4, <2>5
  <1>12. \A k, m : m \in Streak(k, x, r) <=>
                     m \in 1 .. n /\ manifest[m].session = x /\ Outcome(m, r) /\ Clear(m, k)
    BY <1>0 DEF Streak
  <1>13. \A k, m : m \in Streak(k, x, r)' <=>
                     m \in 1 .. n + 1 /\ manifest'[m].session = x /\ Outcome(m, r)' /\ Clear(m, k)'
    BY <1>1 DEF Streak
  <1>14. \A k, m, j : m \in Elsewhere(k, x, r, j) <=> m \in Streak(k, x, r) /\ manifest[m].job # j
    BY DEF Elsewhere
  <1>15. manifest'[n + 1] = new /\ \A m \in 1 .. n : manifest'[m] = manifest[m]
    BY <1>1
  <1> HIDE DEF asked, Clear
  <1>16. ASSUME ~asked, NEW k \in 1 .. n PROVE Streak(k, x, r)' = Streak(k, x, r)
    <2>1. n + 1 \notin Streak(k, x, r)'
      BY <1>8, <1>13, <1>15, <1>16
    <2>2. ASSUME NEW m \in 1 .. n PROVE m \in Streak(k, x, r)' <=> m \in Streak(k, x, r)
      BY <1>4, <1>7, <1>9, <1>12, <1>13, <1>15, <1>16
    <2>3. \A m : m \in Streak(k, x, r) \/ m \in Streak(k, x, r)' => m \in 1 .. n \/ m = n + 1
      BY <1>4, <1>12, <1>13
    <2> QED
      BY <1>4, <1>12, <2>1, <2>2, <2>3
  <1>17. ASSUME ~asked PROVE Streak(n + 1, x, r)' = Streak(n, x, r)
    <2>1. n + 1 \notin Streak(n + 1, x, r)'
      BY <1>8, <1>13, <1>15, <1>17
    <2>2. ASSUME NEW m \in 1 .. n PROVE m \in Streak(n + 1, x, r)' <=> m \in Streak(n, x, r)
      BY <1>4, <1>7, <1>10, <1>12, <1>13, <1>15, <1>17
    <2>3. \A m : m \in Streak(n, x, r) \/ m \in Streak(n + 1, x, r)' => m \in 1 .. n \/ m = n + 1
      BY <1>4, <1>12, <1>13
    <2> QED
      BY <1>4, <1>12, <2>1, <2>2, <2>3
  <1>18. ASSUME asked, new.result = "ok" PROVE Streak(n + 1, x, r)' = {}
    BY <1>4, <1>10, <1>11, <1>13, <1>18
  <1>19. ASSUME asked, new.result # "ok"
         PROVE  Streak(n + 1, x, r)' =
                  Elsewhere(n, x, r, new.job) \cup IF r = new.result THEN {n + 1} ELSE {}
    <2>1. new.session = x
      BY <1>19 DEF asked
    <2> QED
      BY <1>4, <1>7, <1>8, <1>10, <1>11, <1>12, <1>13, <1>14, <1>15, <1>19, <2>1
  <1> QED
    BY <1>2, <1>3, <1>16, <1>17, <1>18, <1>19

LEMMA StreakUntouched ==
  ASSUME Typed, NEW line \in Lines, Append1(line), line.kind = "request" => line.job \in Jobs,
         NEW n \in Nat, n = Len(manifest), NEW x, line.kind # "request" \/ line.session # x
  PROVE  \A r : /\ \A k \in 1 .. n : Streak(k, x, r)' = Streak(k, x, r)
                /\ Streak(n + 1, x, r)' = Streak(n, x, r)
  BY StreakAppended

LEMMA StreakAsked ==
  ASSUME Typed, ~torn, NEW line \in Lines, Append1(line), line.kind = "request",
         line.job \in Jobs, NEW n \in Nat, n = Len(manifest)
  PROVE  \A r :
           /\ line.result = "ok" => Streak(n + 1, line.session, r)' = {}
           /\ line.result # "ok" =>
                Streak(n + 1, line.session, r)' =
                  Elsewhere(n, line.session, r, line.job)
                    \cup IF r = line.result THEN {n + 1} ELSE {}
  BY StreakAppended, SMTT(30)

(* At the head of the loop, none of them is about the job that comes. *)
LEMMA NoneHere ==
  ASSUME Typed, Ordered, NEW p \in Proc, eng[p].pc = "loop", NEW k, NEW r
  PROVE  LET S == Streak(k, eng[p].session, r)
         IN /\ Elsewhere(k, eng[p].session, r, eng[p].job) = S
            /\ Elsewhere(k, eng[p].session, r, eng[p].job + 1) = S
  <1>1. eng[p].job \in Nat
    BY ConstantTypes, SMTT(30) DEF Typed, TypeOK, Locals
  <1>2. ASSUME NEW m \in Streak(k, eng[p].session, r)
        PROVE  manifest[m].job \in Nat /\ manifest[m].job < eng[p].job
    <2>1. /\ m \in DOMAIN manifest /\ manifest[m].kind = "request"
          /\ manifest[m].session = eng[p].session
      BY DEF Streak, Outcome, IsRequest
    <2>2. manifest[m].job \in Nat
      BY <2>1, LineFields, ManifestFields
    <2> QED
      BY <2>1, <2>2 DEF Ordered, Tracked, Of, Earlier, Working
  <1> QED
    BY <1>1, <1>2 DEF Elsewhere

LEMMA PatientOnward ==
  ASSUME Typed, Alone, Ordered, Accounted, Patient, NEW p \in Proc, Step(p), ~Unlock(p),
         manifest' = manifest, Onward(eng'[p], eng[p])
  PROVE  Patient'
  <1>0. PICK e \in Locals : e = eng[p] /\ e.pc # "idle" /\ e.job \in Nat
    BY UnderWay
  <1>1. PICK f : f = eng'[p] /\ Onward(f, e) /\ Same(f, e)
    BY <1>0, StepBusy
  <1>2. \A q \in Proc : q # p => eng'[q] = Idle
    BY StepOwn DEF Alone, OneWriter
  <1>3. PICK x \in Nat : x = e.session /\ x = f.session
    BY <1>1 DEF Same, Locals
  <1>4. PICK n \in Nat : n = Len(manifest)
    BY ManifestLength
  <1>5. e.pc \in Working
    BY <1>1 DEF Onward, Working, Busy
  <1>6. /\ e.transient = Cardinality(Elsewhere(n, x, "failed", e.job))
        /\ e.refused = Cardinality(Elsewhere(n, x, "refused", e.job))
        /\ e.transient < MaxFailures /\ e.refused < MaxRefusals
    <2>1. Waits(p) /\ eng[p].job \in Nat
      BY <1>0 DEF Patient
    <2> QED
      BY <1>0, <1>3, <1>4, <1>5, <2>1 DEF Waits
  <1>7. e.pc = "loop" => \A r : /\ Elsewhere(n, x, r, e.job) = Streak(n, x, r)
                                /\ Elsewhere(n, x, r, e.job + 1) = Streak(n, x, r)
    BY <1>0, <1>3, NoneHere
  <1>8. e.stop = "completed"
    <2>1. Sums(e, AskedIn(x), DoneIn(x))
      BY <1>0, <1>3 DEF Accounted, Counting
    <2> QED
      BY <1>5, <2>1 DEF Sums
  <1>9. ASSUME f.pc \in Working PROVE Waits(p)'
    <2>1. f.job \in {e.job, e.job + 1} /\ (f.job # e.job => e.pc = "loop")
          /\ f.transient = e.transient /\ f.refused = e.refused
      BY <1>1, <1>9 DEF Onward, SameCounts, Working, Busy
    <2>2. /\ f.transient = Cardinality(Elsewhere(n, x, "failed", f.job))
          /\ f.refused = Cardinality(Elsewhere(n, x, "refused", f.job))
      BY <1>6, <1>7, <2>1
    <2>3. \A r, j : Elsewhere(n, x, r, j)' = Elsewhere(n, x, r, j)
      BY SameStreaks
    <2> QED
      BY <1>1, <1>3, <1>4, <1>6, <1>9, <2>1, <2>2, <2>3 DEF Waits, Working, Busy
  <1>10. ASSUME f.pc = "end" PROVE Waits(p)'
    <2>1. SameCounts(f, e) /\ (f.stop = "examiner" \/ (e.pc = "loop" /\ f.stop = e.stop))
      BY <1>1, <1>10 DEF Onward, Busy
    <2>2. /\ MaxFailures \in Nat /\ MaxRefusals \in Nat
          /\ \A r : /\ Cardinality(Streak(n, x, r)) \in Nat
                    /\ Cardinality(Elsewhere(n, x, r, e.job)) \in Nat
                    /\ Cardinality(Streak(n, x, r)) <= Cardinality(Elsewhere(n, x, r, e.job)) + 1
      BY ConstantTypes, StreakFinite, OneOutcome
    <2>3. Within(f.stop, Streak(n, x, "failed"), Streak(n, x, "refused"))
      <3>1. CASE f.stop = "examiner"
        BY <1>6, <2>2, <3>1 DEF Within
      <3>2. CASE e.pc = "loop" /\ f.stop = "completed"
        BY <1>6, <1>7, <2>2, <3>2 DEF Within
      <3> QED
        BY <1>8, <2>1, <3>1, <3>2
    <2>4. \A r : Streak(n, x, r)' = Streak(n, x, r)
      BY SameStreaks
    <2> QED
      BY <1>1, <1>3, <1>4, <1>10, <2>3, <2>4 DEF Waits, Working, Busy
  <1>11. ASSUME f.pc = "unlock" PROVE Waits(p)'
    BY <1>1, <1>11 DEF Waits, Working, Busy
  <1>12. Waits(p)'
    BY <1>1, <1>9, <1>10, <1>11 DEF Onward, Working, Busy
  <1>13. \A q \in Proc : q # p => Waits(q)'
    BY <1>2 DEF Waits, Idle, Working, Busy
  <1>14. EndsWithin'
    <2>1. \A k, y, r : Streak(k, y, r)' = Streak(k, y, r)
      BY SameStreaks
    <2> QED
      BY <2>1 DEF Patient, EndsWithin
  <1> QED
    BY <1>12, <1>13, <1>14 DEF Patient

LEMMA PatientRequested ==
  ASSUME Typed, Ordered, Patient, NEW p \in Proc,
         NEW e \in Locals, e = eng[p], e.pc \in {"fetch", "decrypted"}, e.job \in Jobs,
         NEW f, f = eng'[p], NEW x \in Nat, x = e.session, x = f.session,
         NEW line \in Lines, Append1(line), line.kind = "request",
         line.session = x, line.job = e.job, Requested(f, e, line.result)
  PROVE  Waits(p)'
  <1>0. PICK n \in Nat : n = Len(manifest) /\ DOMAIN manifest = 1 .. n
    BY ManifestLength
  <1>1. ~torn /\ e.job \in Nat
    BY ConstantTypes DEF Ordered, Tracked, Live, Working, Busy
  <1>2. /\ Len(manifest') = n + 1 /\ DOMAIN manifest' = 1 .. n + 1
        /\ manifest'[n + 1] = line
        /\ \A m \in 1 .. n : manifest'[m] = manifest[m]
    BY <1>0, <1>1, AppendedLine
  <1>3. /\ e.transient = Cardinality(Elsewhere(n, x, "failed", e.job))
        /\ e.refused = Cardinality(Elsewhere(n, x, "refused", e.job))
        /\ e.transient < MaxFailures /\ e.refused < MaxRefusals
    <2>1. Waits(p) /\ eng[p].job \in Nat
      BY <1>1 DEF Patient
    <2>2. e.pc \in Working
      BY DEF Working, Busy
    <2> QED
      BY <1>0, <2>1, <2>2 DEF Waits
  <1>4. /\ MaxFailures \in Nat /\ MaxFailures > 0 /\ MaxRefusals \in Nat /\ MaxRefusals > 0
        /\ e.transient \in Nat /\ e.refused \in Nat
    <2>1. e.transient \in Nat /\ e.refused \in Nat
      BY DEF Locals
    <2> QED
      BY <2>1, EngineAssumption
  <1> DEFINE E(r) == Elsewhere(n, x, r, e.job)
             S(r) == Streak(n + 1, x, r)'
             T(r, j) == Elsewhere(n + 1, x, r, j)'
  <1>5. ASSUME NEW r
        PROVE  /\ line.result = "ok" => S(r) = {}
               /\ line.result # "ok" /\ r = line.result => S(r) = E(r) \cup {n + 1}
               /\ line.result # "ok" /\ r # line.result => S(r) = E(r)
    <2>0. line.job \in Jobs /\ ~torn
      BY <1>1
    <2>1. \A q : /\ line.result = "ok" => Streak(n + 1, line.session, q)' = {}
                 /\ line.result # "ok" =>
                      Streak(n + 1, line.session, q)' =
                        Elsewhere(n, line.session, q, line.job)
                          \cup IF q = line.result THEN {n + 1} ELSE {}
      BY <1>0, <2>0, StreakAsked
    <2> QED
      BY <2>1
  <1>6. \A r, j : T(r, j) = {m \in S(r) : manifest'[m].job # j}
    BY DEF Elsewhere
  <1>7. \A r : \A m \in E(r) : /\ m \in 1 .. n /\ manifest'[m].job # e.job
                               /\ manifest'[m].job \in Nat /\ manifest'[m].job <= e.job
    <2>1. SUFFICES ASSUME NEW r, NEW m \in E(r)
                   PROVE  /\ m \in 1 .. n /\ manifest[m].job # e.job
                          /\ manifest[m].job \in Nat /\ manifest[m].job <= e.job
      BY <1>2, <1>0 DEF Elsewhere, Streak
    <2>2. /\ m \in 1 .. n /\ manifest[m].job # e.job
          /\ manifest[m].kind = "request" /\ manifest[m].session = x
      BY <1>0, <2>1 DEF Elsewhere, Streak, Outcome, IsRequest
    <2>3. manifest[m].job \in Nat
      BY <1>0, <2>2, LineFields, ManifestFields
    <2> QED
      BY <1>0, <2>2, <2>3 DEF Ordered, Tracked, Of, Earlier, Working, Busy
  <1>8. \A r : IsFiniteSet(E(r)) /\ n + 1 \notin E(r) /\ Cardinality(E(r) \cup {n + 1}) = Cardinality(E(r)) + 1
    <2>1. \A r : n + 1 \notin E(r)
      BY <1>0 DEF Elsewhere, Streak
    <2>2. \A r : IsFiniteSet(E(r))
      BY StreakFinite
    <2> QED
      BY <2>1, <2>2, FS_AddElement
  <1> HIDE DEF E, S, T
  <1>9. CASE line.result = "ok" /\ Left(f, e, "done")
    <2>1. /\ \A r : S(r) = {} /\ \A j : T(r, j) = {}
          /\ Cardinality({}) = 0
      BY <1>5, <1>6, <1>9, FS_EmptySet
    <2>2. CASE f.pc = "loop"
      <3>1. f.transient = 0 /\ f.refused = 0
        BY <1>9 DEF Left
      <3>2. \A j : /\ f.transient = Cardinality(T("failed", j))
                   /\ f.refused = Cardinality(T("refused", j))
                   /\ f.transient < MaxFailures /\ f.refused < MaxRefusals
        BY <1>4, <2>1, <3>1
      <3> QED
        BY <1>2, <2>2, <3>2 DEF Waits, T
    <2>3. CASE f.pc = "end"
      <3>1. FALSE
        BY <1>4, <1>9, <2>3 DEF Left
      <3> QED
        BY <1>2, <2>3, <3>1 DEF Waits, S, Working, Busy
    <2> QED
      BY <1>9, <2>2, <2>3 DEF Left
  <1>10. CASE line.result \in {"failed", "refused"} /\ Left(f, e, line.result)
    <2>1. f.transient = Cardinality(S("failed")) /\ f.refused = Cardinality(S("refused"))
      <3>1. CASE line.result = "failed"
        <4>1. S("failed") = E("failed") \cup {n + 1} /\ S("refused") = E("refused")
          BY <1>5, <3>1
        <4>2. f.transient = e.transient + 1 /\ f.refused = e.refused
          BY <1>10, <3>1 DEF Left
        <4> QED
          BY <1>3, <1>8, <4>1, <4>2 DEF E
      <3>2. CASE line.result = "refused"
        <4>1. S("refused") = E("refused") \cup {n + 1} /\ S("failed") = E("failed")
          BY <1>5, <3>2
        <4>2. f.transient = e.transient /\ f.refused = e.refused + 1
          BY <1>10, <3>2 DEF Left
        <4> QED
          BY <1>3, <1>8, <4>1, <4>2 DEF E
      <3> QED
        BY <1>10, <3>1, <3>2
    <2>2. CASE f.pc = "loop"
      <3>1. f.job = e.job + 1 /\ f.transient < MaxFailures /\ f.refused < MaxRefusals
        BY <1>10, <2>2 DEF Left
      <3>2. \A r : \A m \in S(r) : manifest'[m].job # e.job + 1
        BY <1>1, <1>2, <1>5, <1>7, <1>10
      <3>3. \A r : T(r, f.job) = S(r)
        BY <1>6, <3>1, <3>2
      <3> QED
        BY <1>2, <2>1, <2>2, <3>1, <3>3 DEF Waits, T
    <2>3. CASE f.pc = "end"
      <3>1. /\ f.stop # "completed" /\ f.transient <= MaxFailures /\ f.refused <= MaxRefusals
            /\ f.stop = "failures" => f.transient = MaxFailures
            /\ f.stop = "refused" => f.refused = MaxRefusals
        <4>1. /\ f.stop # "completed" /\ f.transient \in {e.transient, e.transient + 1}
              /\ f.refused \in {e.refused, e.refused + 1}
              /\ f.stop = "failures" => f.transient >= MaxFailures
              /\ f.stop = "refused" => f.refused >= MaxRefusals
          BY <1>10, <2>3 DEF Left
        <4> QED
          BY <1>3, <1>4, <4>1
      <3>2. Within(f.stop, S("failed"), S("refused"))
        BY <2>1, <3>1 DEF Within
      <3> QED
        BY <1>2, <2>3, <3>2 DEF Waits, S, Working, Busy
    <2> QED
      BY <1>10, <2>2, <2>3 DEF Left
  <1>11. CASE /\ line.result \in {"failed", "refused"} /\ SameCounts(f, e)
              /\ f.job = e.job /\ f.pc \in {"pace", "backoff"}
    <2>1. \A r : T(r, e.job) = E(r)
      BY <1>2, <1>5, <1>6, <1>7, <1>11, ZenonT(60)
    <2>2. /\ f.transient = Cardinality(T("failed", f.job))
          /\ f.refused = Cardinality(T("refused", f.job))
          /\ f.transient < MaxFailures /\ f.refused < MaxRefusals
      BY <1>3, <1>11, <2>1 DEF SameCounts, E
    <2> QED
      BY <1>2, <1>11, <2>2 DEF Waits, T
  <1> QED
    BY <1>9, <1>10, <1>11 DEF Requested

LEMMA PatientWrote ==
  ASSUME Typed, Alone, Ordered, Patient, NEW p \in Proc, Step(p), ~Unlock(p),
         NEW line \in Lines, Append1(line), line.session = eng[p].session,
         Wrote(line, eng'[p], eng[p])
  PROVE  Patient'
  <1>0. PICK e \in Locals : /\ e = eng[p] /\ e.pc # "idle" /\ e.job \in Nat
                            /\ e.pc \in Busy => e.job \in Jobs
    BY UnderWay
  <1>1. PICK f : f = eng'[p] /\ Wrote(line, f, e) /\ Same(f, e)
    BY <1>0, StepBusy
  <1>2. \A q \in Proc : q # p => eng'[q] = Idle
    BY StepOwn DEF Alone, OneWriter
  <1>3. PICK x \in Nat : x = e.session /\ x = f.session /\ x = line.session
    BY <1>0, <1>1 DEF Same, Locals
  <1>4. PICK n \in Nat : n = Len(manifest) /\ DOMAIN manifest = 1 .. n
    BY ManifestLength
  <1>5. PICK new \in Lines :
          /\ new = IF torn THEN Junk ELSE line
          /\ Len(manifest') = n + 1 /\ DOMAIN manifest' = 1 .. n + 1
          /\ manifest'[n + 1] = new
          /\ \A m \in 1 .. n : manifest'[m] = manifest[m]
    BY <1>4, AppendedLine DEF Lines
  <1>6. Waits(p) /\ eng[p].job \in Nat
    BY <1>0 DEF Patient
  <1>7. line.kind = "request" => line.job \in Jobs
    BY <1>0, <1>1 DEF Wrote, Busy
  <1>8. ASSUME NEW y, NEW r, line.kind # "request" \/ y # x
        PROVE  /\ \A k \in 1 .. n : Streak(k, y, r)' = Streak(k, y, r)
               /\ Streak(n + 1, y, r)' = Streak(n, y, r)
    <2>1. line.kind # "request" \/ line.session # y
      BY <1>3, <1>8
    <2> QED
      BY <1>4, <1>7, <2>1, StreakUntouched
  <1>9. ASSUME e.pc = "session" PROVE Waits(p)'
    <2>1. \A m \in DOMAIN manifest : ~Of(m, x)
      BY <1>0, <1>3, <1>9 DEF Ordered, Tracked
    <2>2. \A r : Streak(n, x, r) = {}
      BY <2>1 DEF Of, Streak, Outcome, IsRequest
    <2>3. line.kind = "session" /\ f.pc = "loop" /\ SameCounts(f, e)
      BY <1>1, <1>9 DEF Wrote
    <2>4. \A r : Streak(n + 1, x, r)' = {}
      BY <1>8, <2>2, <2>3
    <2>5. \A r, j : Elsewhere(n + 1, x, r, j)' = {}
      BY <2>4 DEF Elsewhere
    <2>6. e.transient = 0 /\ e.refused = 0
      BY <1>0, <1>3, <1>4, <1>6, <1>9 DEF Waits
    <2>7. 0 < MaxFailures /\ 0 < MaxRefusals /\ Cardinality({}) = 0
      BY EngineAssumption, FS_EmptySet
    <2> QED
      BY <1>1, <1>3, <1>5, <2>3, <2>5, <2>6, <2>7 DEF Waits, SameCounts
  <1>10. ASSUME line.kind = "request" PROVE Waits(p)'
    <2>1. /\ e.pc \in {"fetch", "decrypted"} /\ line.job = e.job /\ e.job \in Jobs
          /\ Requested(f, e, line.result)
      BY <1>0, <1>1, <1>10 DEF Wrote, Busy
    <2> QED
      BY <1>0, <1>1, <1>3, <1>10, <2>1, PatientRequested
  <1>11. ASSUME e.pc = "end" PROVE Waits(p)'
    <2>1. f.pc = "unlock"
      BY <1>1, <1>11 DEF Wrote
    <2> QED
      BY <1>1, <2>1 DEF Waits, Working, Busy
  <1>12. Waits(p)'
    BY <1>1, <1>9, <1>10, <1>11 DEF Wrote
  <1>13. \A q \in Proc : q # p => Waits(q)'
    BY <1>2 DEF Waits, Idle, Working, Busy
  <1>14. EndsWithin'
    <2>1. SUFFICES ASSUME NEW k \in 1 .. n + 1, NEW y \in Nat,
                          manifest'[k].kind = "end", manifest'[k].session = y
                   PROVE  Within(manifest'[k].stop, Streak(k, y, "failed")',
                                 Streak(k, y, "refused")')
      BY <1>5 DEF EndsWithin, Within
    <2>2. CASE k \in 1 .. n
      <3>1. /\ manifest'[k] = manifest[k]
            /\ Within(manifest[k].stop, Streak(k, y, "failed"), Streak(k, y, "refused"))
        BY <1>4, <1>5, <2>1, <2>2 DEF Patient, EndsWithin
      <3>2. line.kind # "request" \/ y # x
        <4>1. SUFFICES ASSUME line.kind = "request", y = x PROVE FALSE
          OBVIOUS
        <4>2. e.pc \in Live
          BY <1>1, <4>1 DEF Wrote, Live, Working, Busy
        <4> QED
          BY <1>0, <1>3, <1>4, <2>1, <2>2, <3>1, <4>1, <4>2 DEF Ordered, Tracked, Of
      <3> QED
        BY <1>8, <2>2, <3>1, <3>2
    <2>3. CASE k = n + 1
      <3>1. new = line /\ line.kind = "end" /\ y = x
        BY <1>3, <1>5, <2>1, <2>3 DEF Junk
      <3>2. e.pc = "end" /\ line.stop = e.stop
        BY <1>1, <3>1 DEF Wrote
      <3>3. Within(line.stop, Streak(n, x, "failed"), Streak(n, x, "refused"))
        BY <1>0, <1>3, <1>4, <1>6, <3>2 DEF Waits
      <3> QED
        BY <1>5, <1>8, <2>3, <3>1, <3>3
    <2> QED
      BY <1>4, <2>2, <2>3
  <1> QED
    BY <1>12, <1>13, <1>14 DEF Patient

LEMMA PatientStep ==
  Typed /\ Alone /\ Ordered /\ Accounted /\ Patient /\ [Next]_vars => Patient'
  <1> SUFFICES ASSUME Typed, Alone, Ordered, Accounted, Patient, [Next]_vars PROVE Patient'
    OBVIOUS
  <1>1. ASSUME manifest' = manifest, \A q \in Proc : Waits(q)' PROVE Patient'
    <2>1. \A k, y, r : Streak(k, y, r)' = Streak(k, y, r)
      BY <1>1, SameStreaks
    <2> QED
      BY <1>1, <2>1 DEF Patient, EndsWithin
  <1>2. ASSUME NEW q \in Proc, eng'[q] = Idle PROVE Waits(q)'
    BY <1>2 DEF Waits, Idle, Working, Busy
  <1>3. ASSUME NEW p \in Proc, Step(p) PROVE Patient'
    <2>1. CASE Unlock(p)
      <3>1. \A q \in Proc : eng'[q] = Idle
        BY <1>3, <2>1, StepOwn DEF Alone, OneWriter, Unlock, Typed, TypeOK
      <3> QED
        BY <1>1, <1>2, <2>1, <3>1 DEF Unlock
    <2>2. CASE ~Unlock(p)
      BY <1>3, <2>2, StepWrote, PatientOnward, PatientWrote
    <2> QED
      BY <2>1, <2>2
  <1>4. ASSUME manifest' = manifest, NEW q \in Proc,
               eng'[q].pc = eng[q].pc, eng'[q].session = eng[q].session,
               SameCounts(eng'[q], eng[q]), eng'[q].job = eng[q].job,
               eng'[q].stop = eng[q].stop
        PROVE  Waits(q)'
    <2>1. \A k, y, r, j : /\ Streak(k, y, r)' = Streak(k, y, r)
                          /\ Elsewhere(k, y, r, j)' = Elsewhere(k, y, r, j)
      BY <1>4, SameStreaks
    <2>2. PICK e : e = eng[q]
      OBVIOUS
    <2>3. PICK f : /\ f = eng'[q] /\ f.pc = e.pc /\ f.session = e.session /\ f.job = e.job
                   /\ f.stop = e.stop /\ f.transient = e.transient /\ f.refused = e.refused
      BY <1>4, <2>2 DEF SameCounts
    <2>4. Waits(q)
      BY DEF Patient
    <2> QED
      BY <1>4, <2>1, <2>2, <2>3, <2>4 DEF Waits
  <1>5. CASE RemoveStaleLock \/ LockFails \/ UNCHANGED vars
    <2>1. UNCHANGED <<manifest, eng>>
      BY <1>5 DEF RemoveStaleLock, LockFails, vars, disk
    <2> QED
      BY <1>1, <1>4, <2>1 DEF SameCounts
  <1>6. ASSUME NEW p \in Proc, NEW redo \in BOOLEAN, Start(p, redo) PROVE Patient'
    <2>1. \A q \in Proc : q # p => eng'[q] = Idle
      BY <1>6 DEF Start, LockFree, Alone
    <2>2. eng'[p].pc = "session" /\ eng'[p].transient = 0 /\ eng'[p].refused = 0
      BY <1>6 DEF Start, Idle, Typed, TypeOK
    <2>3. Waits(p)'
      BY <2>2 DEF Waits, Working, Busy
    <2> QED
      BY <1>1, <1>2, <1>6, <2>1, <2>3 DEF Start
  <1>7. ASSUME NEW p \in Proc, Stop(p) PROVE Patient'
    <2>1. manifest' = manifest /\ eng[p] \in Locals
      BY <1>7 DEF Stop, disk, Typed, TypeOK
    <2>2. /\ \A q \in Proc : q # p => eng'[q] = eng[q]
          /\ eng'[p].pc = eng[p].pc /\ eng'[p].session = eng[p].session
          /\ SameCounts(eng'[p], eng[p]) /\ eng'[p].job = eng[p].job
          /\ eng'[p].stop = eng[p].stop
      BY <1>7, <2>1 DEF Stop, Typed, TypeOK, Locals, SameCounts
    <2> QED
      BY <1>1, <1>4, <2>1, <2>2 DEF SameCounts
  <1>8. ASSUME NEW p \in Proc, Raise(p) PROVE Patient'
    <2>1. manifest' = manifest /\ eng[p] \in Locals /\ eng[p].pc # "idle"
      BY <1>8 DEF Raise, Appending, Typed, TypeOK
    <2>2. eng'[p].pc = "unlock" /\ \A q \in Proc : q # p => eng'[q] = eng[q]
      BY <1>8, <2>1 DEF Raise, AfterRaise, Typed, TypeOK, Locals
    <2>3. Waits(p)'
      BY <2>2 DEF Waits, Working, Busy
    <2> QED
      BY <1>1, <1>4, <2>1, <2>2, <2>3 DEF SameCounts
  <1>9. ASSUME NEW p \in Proc, Crash(p) PROVE Patient'
    <2>1. \A q \in Proc : eng'[q] = Idle
      BY <1>9 DEF Crash, Alone, OneWriter, Typed, TypeOK
    <2> QED
      BY <1>1, <1>2, <1>9, <2>1 DEF Crash
  <1> QED
    BY <1>3, <1>5, <1>6, <1>7, <1>8, <1>9 DEF Next, Environment, Finished

(* "The run stops after 5 transient failures in a row, or 25 refused addresses":
   no end line has more jobs behind it that ended so since the last file came, and
   one that says completed has fewer (Engine.run's two limits, JobOver). *)
THEOREM AlwaysGivesUp == Spec => []GivesUp
  <1>1. Spec => [](Typed /\ Alone /\ Ordered /\ Accounted /\ Patient)
    BY TypedInit, TypedStep, AloneInit, AloneStep, OrderedInit, OrderedStep,
       AccountedInit, AccountedStep, PatientInit, PatientStep, PTL DEF Spec
  <1>2. Typed /\ Patient => GivesUp
    BY WithinEnds DEF Patient
  <1> QED
    BY <1>1, <1>2, PTL
=============================================================================
