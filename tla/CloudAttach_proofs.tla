------------------------- MODULE CloudAttach_proofs -------------------------
(***************************************************************************)
(* Theorems about CloudAttach: what a report says of a retrieved file is about  *)
(* the file it links to, and a report never goes back behind an earlier one.     *)
(***************************************************************************)
EXTENDS CloudAttach, CloudEngine_proofs, WellFoundedInduction

(* The reports add nothing to what the retrievals do. *)
LEMMA AttachIsEngine == AttachSpec => Spec
  <1>1. AttachInit => Init
    BY DEF AttachInit
  <1>2. [AttachNext]_<<vars, attachVars>> => [Next]_vars
    BY DEF AttachNext, AttachStep, BeginReport, Publish, EndReport, CutReport
  <1> QED
    BY <1>1, <1>2, PTL DEF AttachSpec, Spec

LEMMA EngineAlways == AttachSpec => [](Typed /\ Alone /\ Filed)
  BY AttachIsEngine, FiledAlways, PTL
-----------------------------------------------------------------------------
(* The newest line of a job. *)
LEMMA HasLeast ==
  ASSUME NEW S \in SUBSET Nat, S # {}
  PROVE  \E m \in S : \A n \in S : m <= n
  <1> DEFINE R == {ss \in Nat \X Nat : ss[1] < ss[2]}
  <1>1. R = OpToRel(<, Nat)
    BY DEF OpToRel
  <1>2. IsWellFoundedOn(R, Nat)
    BY <1>1, NatLessThanWellFounded
  <1> HIDE DEF R
  <1>3. \E m \in S : \A n \in S : ~(<<n, m>> \in R)
    BY <1>2, WFMin
  <1>4. \A m, n \in S : <<n, m>> \in R <=> n < m
    BY DEF R
  <1>5. PICK m \in S : \A n \in S : ~(n < m)
    BY <1>3, <1>4
  <1> QED
    BY <1>5

LEMMA HasGreatest ==
  ASSUME NEW S \in SUBSET Nat, S # {}, NEW top \in Nat, \A n \in S : n <= top
  PROVE  \E m \in S : \A n \in S : n <= m
  <1> DEFINE T == {t \in Nat : \E n \in S : t = top - n}
  <1>1. \A n \in S : top - n \in T
    OBVIOUS
  <1>2. PICK t \in T : \A u \in T : t <= u
    BY <1>1, HasLeast
  <1>3. PICK m \in S : t = top - m
    BY <1>2
  <1>4. ASSUME NEW n \in S PROVE n <= m
    <2>1. top - m <= top - n
      BY <1>1, <1>2, <1>3
    <2> QED
      BY <2>1
  <1> QED
    BY <1>4

LEMMA AttachableLines ==
  ASSUME Typed, NEW j
  PROVE  /\ Attachable(j) \subseteq 1 .. Len(manifest)
         /\ 0 \notin Attachable(j)
         /\ Newest(Attachable(j)) \in Attachable(j) \cup {0}
         /\ \A n \in Attachable(j) : n <= Newest(Attachable(j))
  <1>1. Attachable(j) \subseteq 1 .. Len(manifest) /\ Len(manifest) \in Nat
    BY ManifestLength DEF Attachable
  <1>2. CASE Attachable(j) = {}
    BY <1>2 DEF Newest
  <1>3. CASE Attachable(j) # {}
    <2>1. \E m \in Attachable(j) : \A n \in Attachable(j) : n <= m
      <3>1. PICK S : S = Attachable(j)
        OBVIOUS
      <3>2. PICK top \in Nat : top = Len(manifest)
        BY <1>1
      <3>3. S \in SUBSET Nat /\ S # {} /\ \A n \in S : n <= top
        BY <1>1, <1>3, <3>1, <3>2
      <3>4. \E m \in S : \A n \in S : n <= m
        BY <3>3, HasGreatest
      <3> QED
        BY <3>1, <3>4
    <2> QED
      BY <1>1, <1>3, <2>1 DEF Newest
  <1> QED
    BY <1>1, <1>2, <1>3

(* What a job's lines say stays as it is, and lines are only added. *)
LEMMA LinesStay ==
  ASSUME Typed, [Next]_vars
  PROVE  \A j : \A n \in Attachable(j) : n \in Attachable(j)' /\ Name(j, n)' = Name(j, n)
  <1>1. \/ manifest' = manifest
        \/ \E line \in Lines : Append1(line)
    <2>1. ASSUME NEW p \in Proc, Step(p)
          PROVE  manifest' = manifest \/ \E line \in Lines : Append1(line)
      BY <2>1, StepWrites DEF Writes
    <2>2. Environment \/ Finished \/ UNCHANGED vars => manifest' = manifest
      BY DEF Environment, RemoveStaleLock, LockFails, Stop, Raise, Crash, Start, Finished,
             vars, disk
    <2> QED
      BY <2>1, <2>2 DEF Next
  <1>2. \A n \in DOMAIN manifest : n \in DOMAIN manifest' /\ manifest'[n] = manifest[n]
    <2>1. ASSUME NEW line \in Lines, Append1(line)
          PROVE  \A n \in DOMAIN manifest : n \in DOMAIN manifest' /\ manifest'[n] = manifest[n]
      <3>1. PICK k \in Nat : k = Len(manifest) /\ DOMAIN manifest = 1 .. k
        BY ManifestLength
      <3>2. DOMAIN manifest' = 1 .. k + 1 /\ \A m \in 1 .. k : manifest'[m] = manifest[m]
        BY <2>1, <3>1, AppendedLine
      <3> QED
        BY <3>1, <3>2
    <2> QED
      BY <1>1, <2>1
  <1> QED
    BY <1>2 DEF Attachable, IsOk, IsRequest, Name

(* A line and its files: the name in the report tells a job's lines apart, and the
   decrypted file is the line's own. *)
LEMMA OneLine ==
  ASSUME Filed, NEW j \in Jobs, NEW i \in Jobs, NEW n \in Attachable(j), NEW m \in Attachable(i),
         Name(j, n) = Name(i, m)
  PROVE  j = i /\ n = m
  <1>1. j = i /\ manifest[n].seq = manifest[m].seq
    BY DEF Name
  <1>2. /\ [job |-> j, seq |-> manifest[n].seq, line |-> n] \in enc
        /\ [job |-> j, seq |-> manifest[n].seq, line |-> m] \in enc
    BY <1>1 DEF Filed, RecordedFilesKept, Attachable
  <1> QED
    BY <1>1, <1>2 DEF Filed, NeverOverwritten

LEMMA OwnFile ==
  ASSUME Filed, NEW j \in Jobs, NEW n \in Attachable(j)
  PROVE  Source(j, n) # {} /\ \A f \in Source(j, n) : f.line = n
  <1>1. [job |-> j, seq |-> manifest[n].stored, line |-> n] \in dec
    BY DEF Filed, RecordedFilesKept, Attachable
  <1>2. [job |-> j, seq |-> manifest[n].stored, line |-> n] \in Source(j, n)
    BY <1>1 DEF Source
  <1> QED
    BY <1>1, <1>2 DEF Source, Filed, NeverOverwritten
-----------------------------------------------------------------------------
(* The strengthened invariant: every published file is named after a line of its
   job and holds that line's bytes or part of a copy; what the report has read are
   the job's lines, no older than what the last one showed; and what is shown, or is
   behind the report under way, has been published. *)
Sent ==
  \A f \in published : \E j \in Jobs : \E n \in Attachable(j) :
    f.name = Name(j, n) /\ f.line \in {0, n}

Out(j, n) == Exists(Name(j, n))

Told(j) ==
  \A s, l \in Nat : shown[j] = s /\ report.latest[j] = l =>
    /\ s # 0 => s \in Attachable(j) /\ Out(j, s)
    /\ l # 0 => l \in Attachable(j)
    /\ report.pc = "publishing" => s <= l /\ (l # 0 /\ j < report.at => Out(j, l))

Reporting ==
  /\ report \in [pc : {"idle", "publishing"}, latest : [Jobs -> Nat], at : Nat \ {0}]
  /\ shown \in [Jobs -> Nat]

Publishing == Sent /\ Reporting /\ \A j \in Jobs : Told(j)

LEMMA PublishingInit == AttachInit => Publishing
  BY DEF AttachInit, Publishing, Sent, Told, Out, Reporting, NoReport

LEMMA Known ==
  ASSUME Publishing, NEW j \in Jobs
  PROVE  \E s, l \in Nat :
           /\ s = shown[j] /\ l = report.latest[j]
           /\ s # 0 => s \in Attachable(j) /\ Out(j, s)
           /\ l # 0 => l \in Attachable(j)
           /\ report.pc = "publishing" => s <= l /\ (l # 0 /\ j < report.at => Out(j, l))
  BY DEF Publishing, Reporting, Told

LEMMA NotAttached ==
  ASSUME Filed, Publishing, NEW j \in Jobs
  PROVE  Attached(j) <=> report.latest[j] # 0
  BY OwnFile, Known DEF Attached

(* A step of the retrievals. *)
LEMMA PublishingEngine ==
  ASSUME Typed, Publishing, [Next]_vars, UNCHANGED attachVars
  PROVE  Publishing'
  <1>1. /\ published' = published /\ shown' = shown /\ report' = report
    BY DEF attachVars
  <1>2. \A j : \A n \in Attachable(j) : n \in Attachable(j)' /\ Name(j, n)' = Name(j, n)
    BY LinesStay
  <1>3. Sent'
    <2>1. SUFFICES ASSUME NEW f \in published
                   PROVE  \E j \in Jobs : \E n \in Attachable(j)' :
                            f.name = Name(j, n)' /\ f.line \in {0, n}
      BY <1>1 DEF Sent
    <2>2. PICK j \in Jobs : \E n \in Attachable(j) : f.name = Name(j, n) /\ f.line \in {0, n}
      BY DEF Publishing, Sent
    <2> QED
      BY <1>2, <2>2
  <1>4. ASSUME NEW j \in Jobs PROVE Told(j)'
    <2>1. Told(j)
      BY DEF Publishing
    <2>2. \A n \in Attachable(j) : Out(j, n) => Out(j, n)'
      BY <1>1, <1>2 DEF Out, Exists
    <2> QED
      BY <1>1, <1>2, <2>1, <2>2 DEF Told
  <1>5. Reporting'
    BY <1>1 DEF Publishing, Reporting
  <1> QED
    BY <1>3, <1>4, <1>5 DEF Publishing

(* The manifest is read: the newest line of a job is none older than the one
   shown. *)
LEMMA PublishingBegin ==
  ASSUME Typed, Publishing, BeginReport
  PROVE  Publishing'
  <1>1. /\ UNCHANGED vars /\ published' = published /\ shown' = shown
        /\ report' = [pc |-> "publishing", at |-> 1,
                      latest |-> [j \in Jobs |-> Newest(Attachable(j))]]
    BY DEF BeginReport
  <1>2. manifest' = manifest
    BY <1>1 DEF vars, disk
  <1>3. \A j : /\ Attachable(j)' = Attachable(j)
              /\ \A n : Name(j, n)' = Name(j, n) /\ (Out(j, n)' <=> Out(j, n))
    BY <1>1, <1>2 DEF Attachable, IsOk, IsRequest, Name, Out, Exists
  <1>4. \A j : /\ Newest(Attachable(j)) \in Attachable(j) \cup {0}
              /\ Newest(Attachable(j)) \in Nat
              /\ \A n \in Attachable(j) : n <= Newest(Attachable(j))
    BY AttachableLines, ManifestLength
  <1>5. ASSUME NEW j \in Jobs PROVE Told(j)'
    <2>1. PICK s, l \in Nat : s = shown[j] /\ (s # 0 => s \in Attachable(j) /\ Out(j, s))
      BY Known
    <2>2. PICK n \in Nat : /\ n = Newest(Attachable(j)) /\ n \in Attachable(j) \cup {0}
                           /\ s <= n
      BY <1>4, <2>1
    <2>3. /\ report'.pc = "publishing" /\ report'.at = 1 /\ report'.latest[j] = n
          /\ shown'[j] = s
      BY <1>1, <2>1, <2>2
    <2>4. ~(j < 1)
      BY DEF Jobs
    <2> QED
      BY <1>3, <2>1, <2>2, <2>3, <2>4 DEF Told
  <1>6. Sent'
    BY <1>1, <1>3 DEF Publishing, Sent
  <1>7. Reporting'
    BY <1>1, <1>4 DEF Publishing, Reporting
  <1> QED
    BY <1>5, <1>6, <1>7 DEF Publishing

(* The steps of a report under way leave the manifest and the files. *)
LEMMA SameLines ==
  ASSUME UNCHANGED vars
  PROVE  \A j : /\ Attachable(j)' = Attachable(j)
               /\ \A n : Name(j, n)' = Name(j, n)
  <1>1. manifest' = manifest
    BY DEF vars, disk
  <1> QED
    BY <1>1 DEF Attachable, IsOk, IsRequest, Name

LEMMA PublishingPublish ==
  ASSUME Typed, Filed, Publishing, Publish
  PROVE  Publishing'
  <1>0. PICK i \in Jobs : i = report.at
    BY DEF Publish
  <1>1. PICK n \in Nat : n = report.latest[i] /\ (n # 0 => n \in Attachable(i))
    BY Known
  <1>2. PICK name : name = Name(i, n)
    OBVIOUS
  <1>3. PICK new : new = {[name |-> name, line |-> f.line] : f \in Source(i, n)}
    OBVIOUS
  <1>4. /\ report.pc = "publishing" /\ UNCHANGED vars /\ shown' = shown
        /\ report' = [report EXCEPT !.at = @ + 1]
        /\ published' = IF Attached(i) /\ ~Exists(name) THEN published \cup new ELSE published
    BY <1>0, <1>1, <1>2, <1>3 DEF Publish
  <1>5. /\ report'.at = i + 1 /\ report'.latest = report.latest
        /\ report'.pc = report.pc /\ Reporting'
    BY <1>0, <1>4 DEF Publishing, Reporting
  <1>6. Attached(i) <=> n # 0
    BY <1>1, NotAttached
  <1>7. n # 0 => \E f \in new : f.name = name
    <2>1. n # 0 => Source(i, n) # {}
      BY <1>1, OwnFile
    <2>2. \A f \in Source(i, n) : [name |-> name, line |-> f.line] \in new
      BY <1>3
    <2> QED
      BY <2>1, <2>2
  <1>8. \A f \in new : n # 0 => f.name = name /\ f.line = n
    BY <1>1, <1>3, OwnFile
  <1>9. \A j : /\ Attachable(j)' = Attachable(j)
              /\ \A m : Name(j, m)' = Name(j, m) /\ (Out(j, m) => Out(j, m)')
    <2>1. \A j, m : Out(j, m) => Out(j, m)'
      BY <1>4, SameLines DEF Out, Exists
    <2> QED
      BY <1>4, <2>1, SameLines
  <1>10. n # 0 => Out(i, n)'
    <2>1. n # 0 => \E f \in published' : f.name = name
      BY <1>4, <1>6, <1>7 DEF Exists
    <2>2. Name(i, n)' = name
      BY <1>2, <1>9
    <2> QED
      BY <2>1, <2>2 DEF Out, Exists
  <1>11. Sent'
    <2>1. \A f \in published' : \E j \in Jobs : \E m \in Attachable(j) :
            f.name = Name(j, m) /\ f.line \in {0, m}
      BY <1>1, <1>2, <1>4, <1>6, <1>8 DEF Publishing, Sent
    <2> QED
      BY <1>9, <2>1 DEF Sent
  <1>12. ASSUME NEW j \in Jobs PROVE Told(j)'
    <2>1. PICK s, l \in Nat :
            /\ s = shown[j] /\ l = report.latest[j]
            /\ s # 0 => s \in Attachable(j) /\ Out(j, s)
            /\ l # 0 => l \in Attachable(j)
            /\ s <= l /\ (l # 0 /\ j < i => Out(j, l))
      BY <1>0, <1>4, Known
    <2>2. shown'[j] = s /\ report'.latest[j] = l /\ report'.at = i + 1
      BY <1>4, <1>5, <2>1
    <2>3. j < i + 1 => j < i \/ j = i
      BY DEF Jobs
    <2>4. l # 0 /\ j < i + 1 => Out(j, l)'
      BY <1>1, <1>9, <1>10, <2>1, <2>3
    <2> QED
      BY <1>9, <2>1, <2>2, <2>4 DEF Told
  <1> QED
    BY <1>5, <1>11, <1>12 DEF Publishing

(* The report ends having come past every job, so all it shows is published. *)
LEMMA PublishingEnd ==
  ASSUME Typed, Filed, Publishing, EndReport
  PROVE  /\ Publishing'
         /\ \A j \in Jobs : shown'[j] >= shown[j]
  <1>1. /\ report.pc = "publishing" /\ report.at \notin Jobs /\ UNCHANGED vars
        /\ report' = NoReport /\ published' = published
        /\ shown' = [j \in Jobs |-> IF Attached(j) THEN report.latest[j] ELSE 0]
    BY DEF EndReport
  <1>2. \A j \in Jobs : shown'[j] = report.latest[j]
    BY <1>1, NotAttached
  <1>3. \A j \in Jobs : j < report.at
    BY <1>1, ConstantTypes DEF Publishing, Reporting, Jobs
  <1>4. Reporting' /\ Reporting
    BY <1>1, <1>2 DEF Publishing, Reporting, NoReport
  <1>5. ASSUME NEW j \in Jobs PROVE Told(j)' /\ shown'[j] >= shown[j]
    <2>1. PICK s, l \in Nat :
            /\ s = shown[j] /\ l = report.latest[j]
            /\ l # 0 => l \in Attachable(j)
            /\ s <= l /\ (l # 0 => Out(j, l))
      BY <1>1, <1>3, Known
    <2>2. report'.pc = "idle" /\ report'.latest[j] = 0 /\ shown'[j] = l
      BY <1>1, <1>2, <2>1 DEF NoReport
    <2>3. Out(j, l) => Out(j, l)'
      BY <1>1, SameLines DEF Out, Exists
    <2>4. Told(j)'
      BY <1>1, <2>1, <2>2, <2>3, SameLines DEF Told
    <2> QED
      BY <2>1, <2>2, <2>4
  <1>6. Sent'
    BY <1>1, SameLines DEF Publishing, Sent
  <1> QED
    BY <1>4, <1>5, <1>6 DEF Publishing

LEMMA PublishingCut ==
  ASSUME Typed, Filed, Publishing, CutReport
  PROVE  Publishing'
  <1> DEFINE i == report.at
             n == report.latest[i]
  <1>1. UNCHANGED vars /\ shown' = shown /\ report' = NoReport
    BY DEF CutReport
  <1>2. \/ published' = published
        \/ /\ i \in Jobs /\ Attached(i)
           /\ published' = published \cup {[name |-> Name(i, n), line |-> 0]}
    BY DEF CutReport
  <1>3. Attached(i) /\ i \in Jobs => n \in Attachable(i)
    BY Known DEF Attached
  <1>4. Sent'
    <2>1. \A f \in published' : \E j \in Jobs : \E m \in Attachable(j) :
            f.name = Name(j, m) /\ f.line \in {0, m}
      BY <1>2, <1>3 DEF Publishing, Sent
    <2> QED
      BY <1>1, <2>1, SameLines DEF Sent
  <1>5. ASSUME NEW j \in Jobs PROVE Told(j)'
    <2>1. Told(j) /\ report'.pc = "idle" /\ report'.latest[j] = 0 /\ shown' = shown
      BY <1>1 DEF Publishing, NoReport
    <2>2. \A m : Out(j, m) => Out(j, m)'
      BY <1>1, <1>2, SameLines DEF Out, Exists
    <2>3. Attachable(j)' = Attachable(j)
      BY <1>1, SameLines
    <2>4. PICK s \in Nat : s = shown[j] /\ (s # 0 => s \in Attachable(j) /\ Out(j, s))
      BY Known
    <2> QED
      BY <2>1, <2>2, <2>3, <2>4 DEF Told
  <1>6. Reporting'
    BY <1>1 DEF Publishing, Reporting, NoReport
  <1> QED
    BY <1>4, <1>5, <1>6 DEF Publishing

LEMMA PublishingStep == Typed /\ Filed /\ Publishing /\ [AttachNext]_<<vars, attachVars>> => Publishing'
  <1> SUFFICES ASSUME Typed, Filed, Publishing, [AttachNext]_<<vars, attachVars>>
               PROVE  Publishing'
    OBVIOUS
  <1>1. CASE (Next /\ UNCHANGED attachVars) \/ UNCHANGED <<vars, attachVars>>
    <2>1. [Next]_vars /\ UNCHANGED attachVars
      BY <1>1
    <2> QED
      BY <2>1, PublishingEngine
  <1>2. CASE AttachStep
    BY <1>2, PublishingBegin, PublishingPublish, PublishingEnd, PublishingCut DEF AttachStep
  <1> QED
    BY <1>1, <1>2 DEF AttachNext

LEMMA PublishingAlways == AttachSpec => [](Typed /\ Filed /\ Publishing)
  <1>1. AttachInit /\ [][AttachNext]_<<vars, attachVars>> /\ [](Typed /\ Filed) => []Publishing
    BY PublishingInit, PublishingStep, PTL
  <1> QED
    BY <1>1, EngineAlways, PTL DEF AttachSpec

(* What a report says of a retrieved file, it says of the file it links to (attach,
   which names the copy after the encrypted file's number and takes the bytes of the
   decrypted one). *)
THEOREM AlwaysShownRight == AttachSpec => []ShownRight
  <1>1. Filed /\ Publishing => ShownRight
    <2> SUFFICES ASSUME Filed, Publishing, NEW j \in Jobs, shown[j] # 0
                 PROVE  \E f \in published : f.name = Name(j, shown[j]) /\ f.line \in {0, shown[j]}
      BY DEF ShownRight
    <2>1. shown[j] \in Attachable(j) /\ Exists(Name(j, shown[j]))
      BY Known DEF Out
    <2>2. PICK f \in published : f.name = Name(j, shown[j])
      BY <2>1 DEF Exists
    <2>3. PICK i \in Jobs : \E n \in Attachable(i) : f.name = Name(i, n) /\ f.line \in {0, n}
      BY ZenonT(60) DEF Publishing, Sent
    <2>4. PICK n \in Attachable(i) : f.name = Name(i, n) /\ f.line \in {0, n}
      BY <2>3, ZenonT(60)
    <2>5. n = shown[j]
      BY <2>1, <2>2, <2>4, OneLine, ZenonT(60)
    <2> QED
      BY <2>2, <2>4, <2>5
  <1> QED
    BY <1>1, PublishingAlways, PTL

(* A report never goes back behind an earlier one, and misses nothing that was
   recorded when it began (attach, through Store.records). *)
THEOREM NeverGoesBack == AttachSpec => ShowsLatest
  <1>1. Typed /\ Filed /\ Publishing /\ [AttachNext]_<<vars, attachVars>> =>
          [\A j \in Jobs :
             /\ shown'[j] >= shown[j]
             /\ BeginReport => \A n \in Attachable(j) : n <= report'.latest[j]]_<<vars, attachVars>>
    <2> SUFFICES ASSUME Typed, Filed, Publishing, AttachNext, NEW j \in Jobs
                 PROVE  /\ shown'[j] >= shown[j]
                        /\ BeginReport => \A n \in Attachable(j) : n <= report'.latest[j]
      OBVIOUS
    <2>1. shown'[j] >= shown[j]
      <3>1. shown[j] >= shown[j]
        BY DEF Publishing, Reporting
      <3>2. shown' = shown \/ EndReport
        BY DEF AttachNext, AttachStep, BeginReport, Publish, CutReport, attachVars
      <3> QED
        BY <3>1, <3>2, PublishingEnd
    <2>2. BeginReport => report'.latest[j] = Newest(Attachable(j))
      BY DEF BeginReport
    <2> QED
      BY <2>1, <2>2, AttachableLines
  <1> QED
    BY <1>1, PublishingAlways, PTL DEF AttachSpec, ShowsLatest
=============================================================================
