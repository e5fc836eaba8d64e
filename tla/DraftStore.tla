----------------------------- MODULE DraftStore -----------------------------
(***************************************************************************)
(* The draft store: the in-memory queue, the revision-guarded coalescing   *)
(* writer of draft_history.json (DraftStore.save_history), the SQLite      *)
(* archive it mirrors into (history_store), the id counter that server.py  *)
(* keeps a second copy of, deletes and clears, and a crash with the        *)
(* SQLite-first load.                                                      *)
(*                                                                         *)
(* A draft is abstracted to its id, the moment it was created (which tells *)
(* two drafts with one id apart), a version that every edit bumps, and the *)
(* draft whose content it was copied from, if any.                         *)
(***************************************************************************)
EXTENDS Naturals, FiniteSets, SequencesExt

CONSTANTS
  Creator,        \* the thread under the dictation gate, running server.create_draft
  Pool,           \* thread-pool threads: draft routes, the Library, a wipe
  None,           \* no file, no lock holder
  Ops,            \* the operations the pool threads perform
  Limit,          \* max_history
  MaxDrafts,      \* bound: drafts created
  MaxVersion,     \* bound: version of a draft
  JsonMayFail,    \* whether writing the snapshot may raise
  MirrorMayFail,  \* whether upsert_many may swallow an SQLite error
  MayCrash        \* whether the process may die

Threads == {Creator} \union Pool
OpNames == {"update", "delete", "library", "clear", "libclear", "wipe"}

ASSUME DraftStoreAssumption ==
  /\ Creator \notin Pool /\ None \notin Threads
  /\ Ops \subseteq OpNames
  /\ Limit \in Nat \ {0} /\ MaxDrafts \in Nat /\ MaxVersion \in Nat \ {0}
  /\ JsonMayFail \in BOOLEAN /\ MirrorMayFail \in BOOLEAN /\ MayCrash \in BOOLEAN

VARIABLES
  queue,     \* draft_queue
  next,      \* DraftStore.next_draft_id
  sNext,     \* server.next_draft_id
  request,   \* _request_rev
  written,   \* _written_rev
  full,      \* _pending_full_mirror
  ids,       \* _pending_changed_ids
  writer,    \* holder of _write_lock (snapshot_lock)
  json,      \* draft_history.json: None or the rows of the snapshot
  archive,   \* the rows of the drafts table
  thr,       \* per thread: program counter and locals
  born,      \* drafts created so far
  acked,     \* history: per draft, the newest version a save returned for
  doomed,    \* history: drafts some delete, clear or wipe has set out to remove, or
             \* took with it
  gone       \* history: drafts whose delete, clear or wipe has returned

memVs  == << queue, next, sNext >>
saveVs == << request, written, full, ids >>
diskVs == << json, archive >>
ghosts == << acked, doomed, gone >>
vars   == << memVs, saveVs, writer, diskVs, thr, born, ghosts >>

Rec    == [id : Nat, at : 1..MaxDrafts, ver : 1..MaxVersion]
Pcs    == {"idle", "create", "copy", "request", "enter", "snapshot", "replace", "mirror",
           "sync", "archive", "clearArchive", "wipeJson", "wipeDb"}
Idle   == [pc |-> "idle", op |-> "none", id |-> 0, at |-> 0, ver |-> 0, rev |-> 0, upto |-> 0,
           all |-> FALSE, owed |-> {}, snap |-> << >>, victims |-> {}]
\* A thread that holds _write_lock.
Writing == {"snapshot", "replace", "mirror"}

Ats(rows) == { r.at : r \in rows }
Rows(s)   == ToSet(s)
OnFile    == IF json = None THEN {} ELSE Rows(json)
\* get_draft_by_id: the first entry with the id.
Find(id)  == SelectInSeq(queue, LAMBDA r : r.id = id)
Trim(s)   == IF Len(s) > Limit THEN SubSeq(s, Len(s) - Limit + 1, Len(s)) ELSE s
-----------------------------------------------------------------------------
Init ==
  /\ queue = << >> /\ next = 1 /\ sNext = 1
  /\ request = 0 /\ written = 0 /\ full = FALSE /\ ids = {}
  /\ writer = None
  /\ json = None /\ archive = {}
  /\ thr = [t \in Threads |-> Idle]
  /\ born = 0
  /\ acked = [a \in 1..MaxDrafts |-> 0]
  /\ doomed = {} /\ gone = {}
-----------------------------------------------------------------------------
(* save_history, from any operation.  thr[t].id is changed_draft_id, 0 when a *)
(* full mirror is asked for.                                                  *)

Request(t) ==
  /\ thr[t].pc = "request"
  /\ request' = request + 1
  /\ IF thr[t].id = 0 THEN full' = TRUE /\ UNCHANGED ids
                      ELSE ids' = ids \union {thr[t].id} /\ UNCHANGED full
  /\ thr' = [thr EXCEPT ![t].pc = "enter", ![t].rev = request + 1]
  /\ UNCHANGED << memVs, written, writer, diskVs, born, ghosts >>

\* What an operation does once its save has returned.
AfterSave(t, removed) ==
  LET next_pc == CASE thr[t].op = "create"   -> "sync"
                   [] thr[t].op = "delete"   -> "archive"
                   [] thr[t].op = "libclear" -> "clearArchive"
                   [] thr[t].op = "wipe"     -> "wipeJson"
                   [] OTHER                  -> "idle"
  IN IF next_pc = "idle"
       THEN /\ thr' = [thr EXCEPT ![t] = Idle]
            /\ gone' = gone \union removed
       ELSE /\ thr' = [thr EXCEPT ![t].pc = next_pc, ![t].snap = << >>, ![t].owed = {},
                                  ![t].rev = 0, ![t].upto = 0, ![t].all = FALSE,
                                  ![t].victims = removed]
            /\ UNCHANGED gone

Acknowledge(t) ==
  acked' = IF thr[t].at # 0 /\ thr[t].ver > acked[thr[t].at]
             THEN [acked EXCEPT ![thr[t].at] = thr[t].ver] ELSE acked

\* A saver whose revision a newer flush has covered returns at once.
CoveredNext(t) == written + 1 >= thr[t].rev
Covered(t) == written >= thr[t].rev

Coalesce(t) ==
  /\ thr[t].pc = "enter" /\ writer = None /\ Covered(t)
  /\ AfterSave(t, thr[t].victims) /\ Acknowledge(t)
  /\ UNCHANGED << memVs, saveVs, writer, diskVs, born, doomed >>

ClaimUnlocked(t) ==
  /\ thr[t].pc = "enter" /\ ~Covered(t)
  /\ writer' = t
  /\ thr' = [thr EXCEPT ![t].pc = "snapshot", ![t].upto = request, ![t].all = full,
                        ![t].owed = IF full THEN {} ELSE ids]
  /\ full' = FALSE /\ ids' = {}
  /\ UNCHANGED << memVs, request, written, diskVs, born, ghosts >>
Claim(t) ==
  /\ thr[t].pc = "enter" /\ writer = None /\ ~Covered(t)
  /\ writer' = t
  /\ thr' = [thr EXCEPT ![t].pc = "snapshot", ![t].upto = request, ![t].all = full,
                        ![t].owed = IF full THEN {} ELSE ids]
  /\ full' = FALSE /\ ids' = {}
  /\ UNCHANGED << memVs, request, written, diskVs, born, ghosts >>

Snapshot(t) ==
  /\ thr[t].pc = "snapshot"
  /\ thr' = [thr EXCEPT ![t].pc = "replace", ![t].snap = queue]
  /\ UNCHANGED << memVs, saveVs, writer, diskVs, born, ghosts >>

\* The temporary file is renamed over the snapshot, then the revision is stamped.
Replace(t) ==
  /\ thr[t].pc = "replace"
  /\ json' = thr[t].snap
  /\ written' = IF thr[t].upto > written THEN thr[t].upto ELSE written
  /\ thr' = [thr EXCEPT ![t].pc = "mirror"]
  /\ UNCHANGED << memVs, request, full, ids, writer, archive, born, ghosts >>

\* Writing raised: the mirror debt is re-armed and the error only logged; a
\* removal that was saving has not removed anything for good.
Rearm(t) ==
  IF thr[t].all THEN full' = TRUE /\ UNCHANGED ids
                ELSE ids' = ids \union thr[t].owed /\ UNCHANGED full
ReplaceFails(t) ==
  /\ JsonMayFail /\ thr[t].pc = "replace"
  /\ Rearm(t)
  /\ writer' = None
  /\ AfterSave(t, {})
  /\ UNCHANGED << memVs, request, written, diskVs, born, acked, doomed >>

\* The rows of a snapshot, the last one where an id occurs twice.
LastRows(s) ==
  { s[i] : i \in { j \in 1..Len(s) : \A k \in (j + 1)..Len(s) : s[k].id # s[j].id } }

Mirrored(t) == { r \in LastRows(thr[t].snap) : thr[t].all \/ r.id \in thr[t].owed }

\* INSERT ... ON CONFLICT(id) DO UPDATE.
Upsert(rows, news) == { r \in rows : \A n \in news : n.id # r.id } \union news

Mirror(t) ==
  /\ thr[t].pc = "mirror"
  /\ \/ archive' = Upsert(archive, Mirrored(t))
     \/ MirrorMayFail /\ UNCHANGED archive
  /\ writer' = None
  /\ AfterSave(t, thr[t].victims) /\ Acknowledge(t)
  /\ UNCHANGED << memVs, saveVs, json, born, doomed >>

SaveStep(t) ==
  Request(t) \/ Coalesce(t) \/ Claim(t) \/ Snapshot(t) \/ Replace(t) \/ ReplaceFails(t) \/ Mirror(t)
-----------------------------------------------------------------------------
(* The operations.  Each changes the queue under draft_lock and saves after   *)
(* releasing it.                                                              *)

Saving(op, id, at, ver) ==
  [Idle EXCEPT !.pc = "request", !.op = op, !.id = id, !.at = at, !.ver = ver]

Enqueue(t, op) ==
  LET rec == [id |-> next, at |-> born + 1, ver |-> 1]
  IN /\ queue' = Trim(Append(queue, rec))
     /\ born' = born + 1
     /\ thr' = [thr EXCEPT ![t] = Saving(op, rec.id, rec.at, rec.ver)]

\* server.create_draft: the store's counter is set from server.py's copy, the
\* draft is created and saved, and the copy is refreshed at the very end.
CreateBegin ==
  /\ thr[Creator].pc = "idle" /\ born < MaxDrafts
  /\ \A t \in Pool : thr[t].op # "wipe"   \* a wipe has the dictation gate
  /\ next' = sNext
  /\ thr' = [thr EXCEPT ![Creator].pc = "create"]
  /\ UNCHANGED << queue, sNext, saveVs, writer, diskVs, born, ghosts >>

CounterKept == next
CounterBumped == next + 1

CreateQueued ==
  /\ thr[Creator].pc = "create" /\ born < MaxDrafts
  /\ Enqueue(Creator, "create")
  /\ next' = CounterBumped
  /\ UNCHANGED << sNext, saveVs, writer, diskVs, ghosts >>

CreateSync ==
  /\ thr[Creator].pc = "sync"
  /\ sNext' = next
  /\ thr' = [thr EXCEPT ![Creator] = Idle]
  /\ UNCHANGED << queue, next, saveVs, writer, diskVs, born, ghosts >>

\* Library duplicate, restore and edited reopen: the source is read (from the
\* queue, the archive, or by transcribing its recording again), and then
\* create_from_record numbers the copy from the store's counter and never touches
\* server.py's.  Neither half asks whether a wipe is in progress.
LibraryRead(t) ==
  /\ "library" \in Ops /\ thr[t].pc = "idle" /\ born < MaxDrafts
  /\ Rows(queue) \union archive # {}
  /\ thr' = [thr EXCEPT ![t].pc = "copy"]
  /\ UNCHANGED << memVs, saveVs, writer, diskVs, born, ghosts >>

LibraryCreate(t) ==
  /\ thr[t].pc = "copy" /\ born < MaxDrafts
  /\ Enqueue(t, "library")
  /\ next' = next + 1
  /\ UNCHANGED << sNext, saveVs, writer, diskVs, ghosts >>

\* Any route that changes one draft.
Update(t, i) ==
  LET rec == queue[i] IN
  /\ "update" \in Ops /\ thr[t].pc = "idle" /\ i = Find(rec.id) /\ rec.ver < MaxVersion
  /\ queue' = [queue EXCEPT ![i].ver = @ + 1]
  /\ thr' = [thr EXCEPT ![t] = Saving("update", rec.id, rec.at, rec.ver + 1)]
  /\ UNCHANGED << next, sNext, saveVs, writer, diskVs, born, ghosts >>

\* The members of a finite set of numbers, in increasing order.
Ascending(S) ==
  CHOOSE f \in [1..Cardinality(S) -> S] :
    /\ S = { f[k] : k \in 1..Cardinality(S) }
    /\ \A j, k \in 1..Cardinality(S) : j < k => f[j] < f[k]

\* Library delete: DraftStore.delete_draft under the write lock and draft_lock
\* (it rewrites the snapshot and drops the queue entry), its save, then the
\* archive row (DeleteArchived, under the snapshot lock, which is the same lock).
Without(id) ==
  LET stay == Ascending({ i \in 1..Len(json) : json[i].id # id })
  IN IF json = None THEN None ELSE [k \in DOMAIN stay |-> json[stay[k]]]
DeleteQueued(t, id) ==
  LET i == Find(id)
      rest == IF i = 0 THEN queue ELSE RemoveAt(queue, i)
      named == Ats({ r \in archive : r.id = id }) \union (IF i = 0 THEN {} ELSE {queue[i].at})
      victims == named \ Ats(Rows(rest))   \* not a namesake the queue keeps
  IN /\ "delete" \in Ops /\ thr[t].pc = "idle" /\ named # {}
     /\ writer = None
     /\ json' = Without(id)
     /\ queue' = rest
     /\ thr' = [thr EXCEPT ![t] = [Saving("delete", id, 0, 0) EXCEPT
                                     !.pc = IF i = 0 THEN "archive" ELSE "request",
                                     !.victims = victims]]
     /\ doomed' = doomed \union named
     /\ UNCHANGED << next, sNext, saveVs, writer, archive, born, acked, gone >>

DeleteArchived(t) ==
  /\ thr[t].pc = "archive" /\ writer = None
  /\ json' = Without(thr[t].id)
  /\ archive' = { r \in archive : r.id # thr[t].id }
  /\ thr' = [thr EXCEPT ![t] = Idle]
  /\ gone' = gone \union thr[t].victims
  /\ UNCHANGED << memVs, saveVs, writer, born, acked, doomed >>

\* DELETE /drafts, Library clear and the wipe all empty the queue and ask for a
\* full save, which leaves the archive as it is: DELETE /drafts stops there, so it
\* removes nothing for good.  The Library then clears the archive (with the row of
\* a draft born meanwhile), the wipe deletes both files.
Empty(t, op) ==
  LET taken   == Ats(Rows(queue)) \union IF op = "clear" THEN {} ELSE Ats(archive \union OnFile)
      victims == IF op = "clear" THEN {} ELSE taken
  IN /\ op \in Ops /\ thr[t].pc = "idle" /\ taken # {}
     /\ op = "wipe" => thr[Creator].pc = "idle"
     /\ queue' = << >>
     /\ thr' = [thr EXCEPT ![t] = [Saving(op, 0, 0, 0) EXCEPT !.victims = victims]]
     /\ doomed' = doomed \union taken
     /\ UNCHANGED << next, sNext, saveVs, writer, diskVs, born, acked, gone >>

ClearArchive(t) ==
  /\ thr[t].pc = "clearArchive"
  /\ archive' = {}
  /\ thr' = [thr EXCEPT ![t] = Idle]
  /\ gone' = gone \union thr[t].victims
  /\ doomed' = doomed \union Ats(archive)
  /\ UNCHANGED << memVs, saveVs, writer, json, born, acked >>

WipeJson(t) ==
  /\ thr[t].pc = "wipeJson"
  /\ json' = None
  /\ thr' = [thr EXCEPT ![t].pc = "wipeDb"]
  /\ UNCHANGED << memVs, saveVs, writer, archive, born, ghosts >>

WipeDb(t) ==
  /\ thr[t].pc = "wipeDb"
  /\ archive' = {}
  /\ thr' = [thr EXCEPT ![t] = Idle]
  /\ gone' = gone \union thr[t].victims
  /\ UNCHANGED << memVs, saveVs, writer, json, born, acked, doomed >>
-----------------------------------------------------------------------------
\* The newest Limit rows of the archive, oldest first.
Recent ==
  LET newest == { r \in archive : Cardinality({ n \in archive : n.at > r.at }) < Limit }
      order  == Ascending(Ats(newest))
  IN [k \in DOMAIN order |-> CHOOSE r \in newest : r.at = order[k]]

\* A crash and the next startup: load_history reads the archive, or imports the
\* snapshot when the archive has no row (and renames it), and numbers on from
\* the largest id it loaded.
LoadsJson == archive = {} /\ json # None
Loaded == IF LoadsJson THEN json ELSE Recent
NextId(s) == IF s = << >> THEN 1 ELSE 1 + Max({ r.id : r \in Rows(s) })

CrashAndRestart ==
  /\ MayCrash
  /\ queue' = Loaded
  /\ next' = NextId(Loaded) /\ sNext' = NextId(Loaded)
  /\ json' = IF LoadsJson THEN None ELSE json
  /\ archive' = IF LoadsJson THEN Upsert(archive, LastRows(json)) ELSE archive
  /\ request' = 0 /\ written' = 0 /\ full' = FALSE /\ ids' = {}
  /\ writer' = None
  /\ thr' = [t \in Threads |-> Idle]
  /\ UNCHANGED << born, ghosts >>

OpStep(t) ==
  \/ LibraryRead(t) \/ LibraryCreate(t)
  \/ \E i \in 1..Len(queue) : Update(t, i)
  \/ \E id \in 1..MaxDrafts : DeleteQueued(t, id)
  \/ \E op \in {"clear", "libclear", "wipe"} : Empty(t, op)
  \/ DeleteArchived(t) \/ ClearArchive(t) \/ WipeJson(t) \/ WipeDb(t)

Next ==
  \/ CreateBegin \/ CreateQueued \/ CreateSync
  \/ \E t \in Threads : SaveStep(t)
  \/ \E t \in Pool : OpStep(t)
  \/ CrashAndRestart

Spec == Init /\ [][Next]_vars
-----------------------------------------------------------------------------
(* Properties. *)

TypeOK ==
  /\ queue \in Seq(Rec) /\ next \in Nat /\ sNext \in Nat
  /\ request \in Nat /\ written \in 0..request
  /\ full \in BOOLEAN /\ ids \subseteq Nat
  /\ writer \in Threads \union {None}
  /\ \A t \in Threads : writer = t <=> thr[t].pc \in Writing
  /\ json = None \/ json \in Seq(Rec)
  /\ archive \subseteq Rec
  /\ \A t \in Threads : thr[t].pc \in Pcs /\ thr[t].snap \in Seq(Rec)
  /\ born \in 0..MaxDrafts
  /\ acked \in [1..MaxDrafts -> 0..MaxVersion]
  /\ doomed \subseteq 1..MaxDrafts /\ gone \subseteq doomed

\* No two drafts of the queue share an id ("no id race is possible",
\* services/library.py:191-193), and none takes the id of another draft's
\* archive row.
UniqueIds ==
  /\ \A i, j \in 1..Len(queue) : queue[i].id = queue[j].id => i = j
  /\ \A i \in 1..Len(queue), r \in archive : r.id = queue[i].id => r.at = queue[i].at

AckedIsArchived ==
  \A a \in 1..MaxDrafts \ doomed :
    acked[a] > 0 => \E r \in archive : r.at = a /\ r.ver >= acked[a]

MirrorDebtKept ==
  \A i \in 1..Len(queue) :
    \/ queue[i] \in archive
    \/ full \/ queue[i].id \in ids
    \/ \E t \in Threads : thr[t].pc \in {"request", "enter"} /\ thr[t].id \in {0, queue[i].id}
    \/ \E t \in Threads : thr[t].pc \in Writing

\* Coalescing drops no update, whoever writes it.  A change whose save has
\* returned without an error is in the archive, so a restart (which reads the
\* archive first) brings it back; and a queue entry the archive does not match
\* is still owed to it: a save is on its way, or its id is pending for the next
\* flush.
SavedSurvives == AckedIsArchived /\ MirrorDebtKept

\* A draft whose delete, clear or wipe has returned is nowhere a restart could
\* load it from, and not in the queue either.
GoneStaysGone ==
  Ats(Rows(queue) \union archive \union OnFile) \intersect gone = {}

\* Neither file ever goes back to an older version of a draft ("a stale snapshot
\* can never regress the file", drafts.py:70-75).
NoRegress ==
  [][/\ \A r \in archive, n \in archive' : r.at = n.at => n.ver >= r.ver
     /\ \A r \in OnFile, n \in OnFile' : r.at = n.at => n.ver >= r.ver]_vars
=============================================================================
