--------------------------- MODULE SqliteReadings ---------------------------
(***************************************************************************)
(* scripts/data/sqlite_open.py: every database of the evidence is read     *)
(* twice, with its -wal applied and without, from copies staged in a       *)
(* folder.  The app on the phone writes and checkpoints until the phone is *)
(* acquired; then the tool opens the databases one after the other, each   *)
(* in a temporary folder of its own or in the report's working directory,  *)
(* where all databases of one file name share one folder.                  *)
(*                                                                         *)
(* One page holds at most one row, so a page image is that row's value or  *)
(* Gone.  Databases stands for files of ONE base name in different         *)
(* accounts (scdb-27.sqlite3 of every Snapchat profile on the phone).      *)
(***************************************************************************)
EXTENDS Integers, Sequences, Functions, FiniteSetsExt

CONSTANTS
  Databases,   \* databases of the same file name
  Pages,       \* page numbers, which are also the keys of the rows
  Images,      \* values a row may take
  Gone,        \* the image of a page without a row
  Unformed,    \* a main file without a schema: everything lives in the -wal
  NoView,      \* no database is open
  MaxWrites    \* bound: frames the app writes to all the databases together

ASSUME SqliteReadingsAssumption ==
  /\ Databases # {}
  /\ Pages \subseteq Nat
  /\ Gone \notin Images
  /\ MaxWrites \in Nat

VARIABLES
  main,      \* database -> page images of the file, or Unformed
  log,       \* database -> frames of the -wal file, in file order
  live,      \* database -> leading frames that belong to the current log;
             \* those after it are left over from before a restart
  back,      \* database -> leading frames copied into main by a checkpoint
  writes,    \* frames written (history, for the bound)
  acquired,  \* the phone has been acquired: nothing writes any more
  work,      \* withwal/ of sqlite_views/<name> in the working directory
  view       \* the Views open, or NoView

phone == <<main, log, live, back, writes>>
vars == <<main, log, live, back, writes, acquired, work, view>>

Frame == [page : Pages, image : Images \cup {Gone}]
Empty == [p \in Pages |-> Gone]

-----------------------------------------------------------------------------
(* What SQLite reads.                                                      *)

\* The newest of the first n frames of each page over the main file.
Applied(file, frames, n) ==
  IF file = Unformed /\ n = 0 THEN Unformed
  ELSE [p \in Pages |->
          LET mine == {i \in 1 .. n : frames[i].page = p}
          IN IF mine # {} THEN frames[Max(mine)].image
             ELSE IF file = Unformed THEN Gone ELSE file[p]]

\* The rows of a reading by rowid, the order of _fetch's answer: none when it
\* would not open.
Rows(reading) ==
  [p \in {q \in Pages : reading # Unformed /\ reading[q] # Gone} |->
     [key |-> p, value |-> reading[p]]]

-----------------------------------------------------------------------------
(* The app on the phone.                                                   *)

\* A frame is appended to the current log.  Once every frame of it has been
\* checkpointed, the log restarts at the head of the file, and the frames it
\* does not overwrite stay behind it.
Write(d) ==
  /\ ~acquired
  /\ writes < MaxWrites
  /\ \E p \in Pages, i \in Images \cup {Gone} :
       LET start == IF back[d] = live[d] THEN 0 ELSE live[d]
           frame == [page |-> p, image |-> i]
       IN /\ i # Gone \/ (main[d] # Unformed \/ live[d] > 0)
          /\ log' = [log EXCEPT ![d] = SubSeq(@, 1, start) \o <<frame>>
                                         \o SubSeq(@, start + 2, Len(@))]
          /\ live' = [live EXCEPT ![d] = start + 1]
          /\ back' = [back EXCEPT ![d] = IF start = 0 THEN 0 ELSE @]
  /\ writes' = writes + 1
  /\ UNCHANGED <<main, acquired, work, view>>

\* A checkpoint copies frames into the file, all of them or, when a reader
\* holds the log, some.
Checkpoint(d) ==
  /\ ~acquired
  /\ \E n \in back[d] + 1 .. live[d] :
       /\ main' = [main EXCEPT ![d] = Applied(@, log[d], n)]
       /\ back' = [back EXCEPT ![d] = n]
  /\ UNCHANGED <<log, live, writes, acquired, work, view>>

\* The last connection of the app closes: checkpoint and no -wal.
CloseApp(d) ==
  /\ ~acquired
  /\ log[d] # <<>>
  /\ main' = [main EXCEPT ![d] = Applied(@, log[d], live[d])]
  /\ log' = [log EXCEPT ![d] = <<>>]
  /\ live' = [live EXCEPT ![d] = 0]
  /\ back' = [back EXCEPT ![d] = 0]
  /\ UNCHANGED <<writes, acquired, work, view>>

Acquire ==
  /\ ~acquired
  /\ acquired' = TRUE
  /\ UNCHANGED <<phone, work, view>>

-----------------------------------------------------------------------------
(* The two readings of one database.                                       *)

NoCopy == [main |-> Unformed, log |-> <<>>, live |-> 0]

\* Mutant: the -wal is not staged beside the copy.
Staged_NoSidecars(old, d) ==
  [main |-> main[d], log |-> old.log, live |-> old.live]

\* _stage with sidecars: the file goes over the copy of that name; a -wal is
\* copied when there is one, and one already in the folder is left alone.
Staged(old, d) ==
  [main |-> main[d],
   log |-> IF log[d] # <<>> THEN log[d] ELSE old.log,
   live |-> IF log[d] # <<>> THEN live[d] ELSE old.live]

\* open_views: the copy with the -wal and, only when the evidence has one, a
\* second copy without.
OpenViews(d, inWork) ==
  /\ acquired
  /\ view = NoView
  /\ LET copy == Staged(IF inWork THEN work ELSE NoCopy, d)
         merged == Applied(copy.main, copy.log, copy.live)
     IN /\ work' = IF inWork THEN copy ELSE work
        /\ view' = [db |-> d, inWork |-> inWork, merged |-> merged,
                    single |-> log[d] = <<>>,
                    mainOnly |-> IF log[d] = <<>> THEN merged ELSE main[d]]
  /\ UNCHANGED <<phone, acquired>>

\* Views.close removes a temporary folder; the working directory keeps its
\* copies until the report has been written.
Close ==
  /\ view # NoView
  /\ view' = NoView
  /\ UNCHANGED <<phone, acquired, work>>

-----------------------------------------------------------------------------
(* read_table, query_both and superseded_wal_pages.                        *)

BOTH == "main+wal"
WAL_ONLY == "wal-only"
MAIN_ONLY == "main-only"

\* What a report is handed: a row, its marker, its rowid, and with which row of
\* the merged reading it is listed (none: after them all).
Entry(row, marker, at, beside) == [row |-> row, marker |-> marker, at |-> at, beside |-> beside]
Marked(rows, ids, marker) == {Entry(rows[i], marker, i, {i}) : i \in ids}
Removed(old, ids, beside) == {Entry(old[k], MAIN_ONLY, k, beside) : k \in ids}

\* Mutant: rows of a table without a primary key match on a column they share.
KeyOf_SharedColumn(row, keyed) == IF keyed THEN row.key ELSE 0

\* _key_of: the primary key, or the whole row of a table without one.
KeyOf(row, keyed) == IF keyed THEN row.key ELSE row

\* A table without a primary key does not show the page a row is on.
Fetch(reading, keyed) ==
  LET rows == Rows(reading)
  IN [p \in DOMAIN rows |->
        IF keyed THEN rows[p] ELSE [key |-> 0, value |-> rows[p].value]]

\* The merged rows in order, each followed the first time its key is met by
\* the checkpointed rows of that key that differ; then the checkpointed rows
\* of the keys never met.
Compared(rows, old, keyed) ==
  LET counterparts(i) == {k \in DOMAIN old : KeyOf(old[k], keyed) = KeyOf(rows[i], keyed)}
      agreed == {i \in DOMAIN rows : \E k \in counterparts(i) : old[k] = rows[i]}
      first == {i \in DOMAIN rows : \A j \in DOMAIN rows :
                  j < i => KeyOf(rows[j], keyed) # KeyOf(rows[i], keyed)}
      unmet == {k \in DOMAIN old : \A i \in DOMAIN rows : k \notin counterparts(i)}
  IN UNION { Marked(rows, agreed, BOTH),
             Marked(rows, DOMAIN rows \ agreed, WAL_ONLY),
             UNION {Removed(old, {k \in counterparts(i) : old[k] # rows[i]}, {i}) : i \in first},
             Removed(old, unmet, {}) }

ReadTable(v, keyed) ==
  LET rows == Fetch(v.merged, keyed)
  IN IF v.mainOnly = Unformed \/ v.single
     THEN Marked(rows, DOMAIN rows, BOTH)
     ELSE Compared(rows, Fetch(v.mainOnly, keyed), keyed)

\* Whole result rows: what the log added cannot be told, only what it removed.
QueryBoth(v, keyed) ==
  LET rows == Fetch(v.merged, keyed)
      old == Fetch(v.mainOnly, keyed)
      lost == {k \in DOMAIN old : \A i \in DOMAIN rows : rows[i] # old[k]}
  IN Marked(rows, DOMAIN rows, BOTH)
     \cup IF v.mainOnly = Unformed \/ v.single THEN {} ELSE Removed(old, lost, {})

\* Mutant: the first frame of a page is kept out instead of the last.
Superseded_AllButFirst(frames) ==
  {i \in DOMAIN frames : \E j \in 1 .. i - 1 : frames[j].page = frames[i].page}

\* superseded_wal_pages: every frame of the FILE but the last of its page.
\* The frames' salts are not read, so left-over frames count as well.
Superseded(frames) ==
  {i \in DOMAIN frames : \E j \in i + 1 .. Len(frames) : frames[j].page = frames[i].page}

-----------------------------------------------------------------------------

Init ==
  /\ main \in [Databases -> {Empty, Unformed}]
  /\ log = [d \in Databases |-> <<>>]
  /\ live = [d \in Databases |-> 0]
  /\ back = [d \in Databases |-> 0]
  /\ writes = 0
  /\ acquired = FALSE
  /\ work = NoCopy
  /\ view = NoView

Next ==
  \/ Acquire
  \/ Close
  \/ \E d \in Databases :
       \/ Write(d)
       \/ Checkpoint(d)
       \/ CloseApp(d)
       \/ \E inWork \in BOOLEAN : OpenViews(d, inWork)

Spec == Init /\ [][Next]_vars

-----------------------------------------------------------------------------
(* Properties.                                                             *)

Reading == [Pages -> Images \cup {Gone}] \cup {Unformed}

\* A staged copy, and the readings of an open database.
Copies == [main : Reading, log : Seq(Frame), live : Nat]
Views == [db : Databases, inWork : BOOLEAN, merged : Reading, single : BOOLEAN,
          mainOnly : Reading]

TypeOK ==
  /\ main \in [Databases -> Reading]
  /\ log \in [Databases -> Seq(Frame)]
  /\ live \in [Databases -> Nat] /\ back \in [Databases -> Nat]
  /\ \A d \in Databases : back[d] <= live[d] /\ live[d] <= Len(log[d])
  /\ writes \in 0 .. MaxWrites
  /\ acquired \in BOOLEAN
  /\ work \in Copies /\ work.live <= Len(work.log)
  /\ view \in Views \cup {NoView}

\* What the evidence of a database says, with its log and without.
Current(d) == Applied(main[d], log[d], live[d])

\* A database opened in a folder of its own, or in the working directory with
\* a -wal that replaces the one staged before it, is read as the evidence has
\* it: the merged reading is the app's state, the other one the last
\* checkpoint (open_views, _stage).
OwnReadings ==
  view # NoView /\ (~view.inWork \/ log[view.db] # <<>>) =>
    /\ view.merged = Current(view.db)
    /\ log[view.db] # <<>> => view.mainOnly = main[view.db]

ValuesOf(out, marker) == {e.row : e \in {f \in out : f.marker = marker}}

\* No row of a reading is handed out twice.
Once(out) ==
  \A e, f \in out : e.at = f.at /\ (e.marker = MAIN_ONLY <=> f.marker = MAIN_ONLY) => e = f

\* Every row version of either reading comes out of read_table, and its marker
\* says which reading has it, whether the log changed it, deleted it, or left
\* several equal rows; query_both marks as removed exactly what the log removed.
RowsAccounted ==
  view # NoView /\ view.mainOnly # Unformed =>
    \A keyed \in BOOLEAN :
      LET new == Range(Fetch(view.merged, keyed))
          old == Range(Fetch(view.mainOnly, keyed))
          table == ReadTable(view, keyed)
          query == QueryBoth(view, keyed)
      IN /\ ValuesOf(table, BOTH) = new \cap old
         /\ ValuesOf(table, WAL_ONLY) = new \ old
         /\ ValuesOf(table, MAIN_ONLY) = old \ new
         /\ ValuesOf(query, BOTH) = new
         /\ ValuesOf(query, MAIN_ONLY) = old \ new
         /\ Once(table) /\ Once(query)

\* Nothing the current log holds is out of reach: each of its frames is what
\* the merged reading shows for its page, or is handed out for carving, even
\* when frames of an earlier log lie behind it in the file.
LogReached ==
  \A d \in Databases : \A i \in 1 .. live[d] :
    \/ Current(d)[log[d][i].page] = log[d][i].image
    \/ i \in Superseded(log[d])

\* The merged reading of every database opened is that database "with its
\* -wal applied (the app's current state)" (sqlite_open.py:137).  The
\* -wal of the account read before it is left beside the copy.
MergedIsItsOwn == view # NoView => view.merged = Current(view.db)

=============================================================================
