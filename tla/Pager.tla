------------------------------ MODULE Pager -------------------------------
(* The pager of sqlite3.c: how the connections of one process to one        *)
(* database file lock it, cache its pages, and change it under a rollback   *)
(* journal, with the process dying between any two file operations and with *)
(* file operations that fail.  journal_mode is DELETE.  A page holds a      *)
(* number; that of page 1 is the change counter.                            *)
EXTENDS Naturals, Sequences, FiniteSets

CONSTANTS Conn, Data, Input, MaxPage, MaxChange, NoPage, NoView, Found

ASSUME PagerAssumption ==
  /\ IsFiniteSet(Conn)
  /\ Data \subseteq Nat
  /\ Input \subseteq Data
  /\ MaxPage \in Nat \ {0}
  /\ MaxChange \in Nat
  /\ NoPage \notin Nat
  /\ Found \subseteq [size : 0..MaxPage, page : [1..MaxPage -> Nat]]

\* Behind the end of a file unixRead gives zeros.
ASSUME FoundAssumption ==
  \A f \in Found : /\ \A p \in 2..f.size : f.page[p] \in Data
                  /\ \A p \in 1..MaxPage : p > f.size => f.page[p] = 0

VARIABLES
  file,      \* size in pages and pages of the database file
  jrnl,      \* segments of the journal file, << >> when it is absent or empty; what an older journal has left behind
             \* them fails the checksum, which starts from a new random number in every header, and is left out
  inode,     \* unixInodeInfo: eFileLock and nShared
  fileLock,  \* unixFile.eFileLock of each connection
  pager      \* the Pager of each connection

vars == <<file, jrnl, inode, fileLock, pager>>

Page == 1..MaxPage

\* Levels of eFileLock and eLock, values of eState
NO == 0
SHARED == 1
RESERVED == 2
PENDING == 3
EXCLUSIVE == 4

OPEN == 0
READER == 1
WRITER_LOCKED == 2
CACHEMOD == 3
DBMOD == 4
FINISHED == 5
ERROR == 6

NoCache == [p \in Page |-> NoPage]

\* op is the call in progress: none, flush (phase one writes its pages), finish (phase two), failed (only a rollback
\* may follow), rollback or hot (records are played back); list is what flush has to write, todo what playback has to
\* read.  held says that the connection has had the lock before, so that its cache may be of use.
NewPager ==
  [eState |-> OPEN, eLock |-> NO, op |-> "none", list |-> {}, todo |-> {}, held |-> FALSE,
   cache |-> NoCache, dirty |-> {}, needSync |-> {}, dbSize |-> 0, dbOrigSize |-> 0,
   dbFileVers |-> 0, changeCountDone |-> FALSE, inJournal |-> {}, hdr |-> 0]

Init ==
  /\ file \in Found
  /\ jrnl = << >>
  /\ inode = [eFileLock |-> NO, nShared |-> 0]
  /\ fileLock = [c \in Conn |-> NO]
  /\ pager = [c \in Conn |-> NewPager]

---------------------------------------------------------------------------
(* Locks *)

Refused(c, lock) ==
  /\ fileLock[c] # inode.eFileLock
  /\ inode.eFileLock >= PENDING \/ lock > SHARED

TakeShared(c) ==
  /\ ~Refused(c, SHARED)
  /\ fileLock' = [fileLock EXCEPT ![c] = SHARED]
  /\ inode' = [eFileLock |-> IF inode.eFileLock = RESERVED THEN RESERVED ELSE SHARED,
               nShared |-> inode.nShared + 1]

Raise(c, lock) ==
  /\ fileLock' = [fileLock EXCEPT ![c] = lock]
  /\ inode' = [inode EXCEPT !.eFileLock = lock]

\* Mutant: EXCLUSIVE is granted while others still read.
ExclusiveOverReaders(c) == pager[c].eLock = EXCLUSIVE \/ ~Refused(c, EXCLUSIVE)

\* pagerLockDb(EXCLUSIVE_LOCK): granted, or busy, which leaves a PENDING lock behind
ExclusiveFree(c) ==
  \/ pager[c].eLock = EXCLUSIVE
  \/ ~Refused(c, EXCLUSIVE) /\ inode.nShared <= 1
ExclusiveBusy(c) ==
  /\ pager[c].eLock # EXCLUSIVE
  /\ ~Refused(c, EXCLUSIVE)
  /\ inode.nShared > 1

ReservedFree(c) == pager[c].eLock >= RESERVED \/ ~Refused(c, RESERVED)

Downgrade(c) ==
  IF fileLock[c] > SHARED THEN Raise(c, SHARED) ELSE UNCHANGED <<fileLock, inode>>

Release(c) ==
  /\ fileLock' = [fileLock EXCEPT ![c] = NO]
  /\ inode' = IF fileLock[c] = NO THEN inode
              ELSE [eFileLock |-> IF inode.nShared = 1 THEN NO
                                  ELSE IF fileLock[c] > SHARED THEN SHARED ELSE inode.eFileLock,
                    nShared |-> inode.nShared - 1]

---------------------------------------------------------------------------
(* The two files *)

Written(f, p, v) ==
  [size |-> IF p > f.size THEN p ELSE f.size, page |-> [f.page EXCEPT ![p] = v]]

Truncated(f, n) ==
  [size |-> n, page |-> [p \in Page |-> IF p <= n THEN f.page[p] ELSE 0]]

FileVers == IF file.size = 0 THEN 0 ELSE file.page[1]

NewSegment(orig) == [magic |-> FALSE, nRec |-> 0, orig |-> orig, recs |-> << >>]

WithRecord(j, p, v) == [j EXCEPT ![Len(j)].recs = Append(@, [page |-> p, val |-> v])]

\* Mutant: the count in the header leaves out the last record.
SyncedShort(j) ==
  [j EXCEPT ![Len(j)].magic = TRUE, ![Len(j)].nRec = IF j[Len(j)].recs = << >> THEN 0 ELSE Len(j[Len(j)].recs) - 1]

\* syncJournal writes magic and nRec of the last header.
Synced(j) == [j EXCEPT ![Len(j)].magic = TRUE, ![Len(j)].nRec = Len(j[Len(j)].recs)]

\* What pager_playback reads: of the segment own, whose header this transaction wrote last, everything.
Count(k, own) == IF k = own /\ jrnl[k].nRec = 0 THEN Len(jrnl[k].recs) ELSE jrnl[k].nRec
Playable(own) ==
  UNION {{k} \X (1..Count(k, own)) : k \in {n \in DOMAIN jrnl : \A i \in 1..n : jrnl[i].magic \/ i = own}}

Before(r, s) == r[1] < s[1] \/ (r[1] = s[1] /\ r[2] <= s[2])

HotJournal == jrnl # << >> /\ inode.eFileLock <= SHARED /\ file.size > 0 /\ jrnl[1].magic

---------------------------------------------------------------------------
(* Read transactions and recovery *)

\* Mutant: the cache is kept whatever the version of the file.
OpenedUnchecked(P) ==
  LET fetch == P.cache[1] = NoPage
  IN  [P EXCEPT !.eState = READER, !.eLock = SHARED, !.held = TRUE, !.op = "none", !.dbSize = file.size,
                !.cache = IF fetch THEN [@ EXCEPT ![1] = file.page[1]] ELSE @,
                !.dbFileVers = IF fetch /\ file.size > 0 THEN file.page[1] ELSE @]

\* The end of sqlite3PagerSharedLock, and lockBtree, which fetches page 1
Opened(P) ==
  LET cache == IF P.held /\ P.dbFileVers # FileVers THEN NoCache ELSE P.cache
      fetch == cache[1] = NoPage
  IN  [P EXCEPT !.eState = READER, !.eLock = SHARED, !.held = TRUE, !.op = "none", !.dbSize = file.size,
                !.cache = IF fetch THEN [cache EXCEPT ![1] = file.page[1]] ELSE cache,
                !.dbFileVers = IF fetch /\ file.size > 0 THEN file.page[1] ELSE P.dbFileVers]

\* lockBtree takes a page 1 without a header for a file that is not a database, and lets go of the lock again.
Accepted(P) == P.dbSize = 0 \/ P.cache[1] # 0

\* pager_unlock
Unlocked(P) ==
  [NewPager EXCEPT !.held = P.held, !.dbFileVers = P.dbFileVers,
                   !.cache = IF P.eState = ERROR THEN NoCache ELSE P.cache]

SharedLock(c) ==
  /\ pager[c].eState = OPEN /\ pager[c].op = "none"
  /\ ~HotJournal
  /\ Accepted(Opened(pager[c]))
  /\ TakeShared(c)
  /\ jrnl' = IF inode.eFileLock <= SHARED /\ file.size = 0 THEN << >> ELSE jrnl
  /\ pager' = [pager EXCEPT ![c] = Opened(@)]
  /\ UNCHANGED file

BeginHotRollback(c) ==
  /\ pager[c].eState = OPEN /\ pager[c].op = "none"
  /\ HotJournal
  /\ ~Refused(c, SHARED) /\ inode.nShared = 0
  /\ fileLock' = [fileLock EXCEPT ![c] = EXCLUSIVE]
  /\ inode' = [eFileLock |-> EXCLUSIVE, nShared |-> 1]
  /\ file' = Truncated(file, jrnl[1].orig)
  /\ pager' = [pager EXCEPT ![c] = [@ EXCEPT !.eLock = EXCLUSIVE, !.op = "hot", !.todo = Playable(0),
                                             !.dbSize = jrnl[1].orig,
                                             !.cache = IF Playable(0) = {} THEN pager[c].cache ELSE NoCache]]
  /\ UNCHANGED jrnl

\* pager_playback_one_page
Replayed(P, r) ==
  LET rec == jrnl[r[1]].recs[r[2]]
      cached == P.cache[rec.page] # NoPage
  IN  [P EXCEPT !.todo = P.todo \ {r},
                !.cache = IF cached THEN [P.cache EXCEPT ![rec.page] = rec.val] ELSE P.cache,
                !.dbFileVers = IF cached /\ rec.page = 1 THEN rec.val ELSE P.dbFileVers]

PlayRecord(c, r) ==
  LET P == pager[c]
      rec == jrnl[r[1]].recs[r[2]]
      toFile == P.op = "hot" \/ (P.eState >= DBMOD /\ r[1] < P.hdr)
  IN  /\ P.op \in {"hot", "rollback"}
      /\ r \in P.todo /\ \A s \in P.todo : Before(r, s)
      /\ file' = IF toFile THEN Written(file, rec.page, rec.val) ELSE file
      /\ pager' = [pager EXCEPT ![c] = Replayed(P, r)]
      /\ UNCHANGED <<jrnl, inode, fileLock>>

EndHotRollback(c) ==
  /\ pager[c].op = "hot" /\ pager[c].todo = {}
  /\ jrnl' = << >>
  /\ IF Accepted(Opened(pager[c]))
     THEN Downgrade(c) /\ pager' = [pager EXCEPT ![c] = Opened(@)]
     ELSE Release(c) /\ pager' = [pager EXCEPT ![c] = Unlocked(Opened(@))]
  /\ UNCHANGED file

\* A file operation of the playback fails, the deletion of the journal included.
HotRollbackFails(c) ==
  /\ pager[c].op = "hot"
  /\ Release(c)
  /\ pager' = [pager EXCEPT ![c] = Unlocked([@ EXCEPT !.eState = ERROR])]
  /\ UNCHANGED <<file, jrnl>>

\* Page p is read from the file.
Fetch(c, p) ==
  /\ pager[c].eState \in READER..DBMOD /\ pager[c].op = "none"
  /\ pager[c].cache[p] = NoPage /\ p <= pager[c].dbSize
  /\ pager' = [pager EXCEPT ![c] = [@ EXCEPT !.cache[p] = file.page[p]]]
  /\ UNCHANGED <<file, jrnl, inode, fileLock>>

\* The page cache recycles the frame of page 1, which is in use in every transaction.  Other pages are recycled when
\* they are spilled; elsewhere a recycled page is like one that has not been read yet.
Recycle(c) ==
  /\ pager[c].eState = OPEN /\ pager[c].op = "none"
  /\ pager' = [pager EXCEPT ![c] = [@ EXCEPT !.cache[1] = NoPage]]
  /\ UNCHANGED <<file, jrnl, inode, fileLock>>

\* pagerUnlockAndRollback when there is nothing to roll back
EndRead(c) ==
  /\ pager[c].eState \in {READER, ERROR} /\ pager[c].op = "none"
  /\ Release(c)
  /\ pager' = [pager EXCEPT ![c] = Unlocked(@)]
  /\ UNCHANGED <<file, jrnl>>

Close(c) ==
  /\ pager[c].eState = OPEN /\ pager[c].op = "none"
  /\ pager' = [pager EXCEPT ![c] = NewPager]
  /\ UNCHANGED <<file, jrnl, inode, fileLock>>

---------------------------------------------------------------------------
(* Write transactions *)

Begin(c) ==
  LET P == pager[c]
  IN  /\ P.eState = READER /\ P.op = "none"
      /\ ReservedFree(c)
      /\ IF P.eLock < RESERVED THEN Raise(c, RESERVED) ELSE UNCHANGED <<fileLock, inode>>
      /\ pager' = [pager EXCEPT ![c] = [P EXCEPT !.eState = WRITER_LOCKED, !.dbOrigSize = P.dbSize,
                                                !.eLock = IF P.eLock < RESERVED THEN RESERVED ELSE P.eLock]]
      /\ UNCHANGED <<file, jrnl>>

\* BEGIN EXCLUSIVE while others read keeps RESERVED in the Pager and PENDING in the file.
BeginExclusive(c) ==
  /\ pager[c].eState = READER /\ pager[c].op = "none"
  /\ ReservedFree(c)
  /\ IF inode.nShared = 1
     THEN /\ Raise(c, EXCLUSIVE)
          /\ pager' = [pager EXCEPT ![c] = [@ EXCEPT !.eState = WRITER_LOCKED, !.dbOrigSize = pager[c].dbSize,
                                                     !.eLock = EXCLUSIVE]]
     ELSE /\ Raise(c, PENDING)
          /\ pager' = [pager EXCEPT ![c] = [@ EXCEPT !.eLock = RESERVED]]
  /\ UNCHANGED <<file, jrnl>>

Writer(c) == pager[c].eState \in {WRITER_LOCKED, CACHEMOD, DBMOD} /\ pager[c].op = "none"

\* pager_write and the change of the page by its caller
Write(c, p, v) ==
  LET P == pager[c]
      old == IF P.cache[p] # NoPage THEN P.cache[p] ELSE file.page[p]
      first == P.eState = WRITER_LOCKED
      open == IF first THEN << NewSegment(P.dbSize) >> ELSE jrnl
      journal == p <= P.dbOrigSize /\ p \notin P.inJournal
  IN  /\ Writer(c)
      /\ p <= P.dbSize + 1
      /\ jrnl' = IF journal THEN WithRecord(open, p, old) ELSE open
      /\ pager' = [pager EXCEPT ![c] =
           [P EXCEPT !.eState = IF first THEN CACHEMOD ELSE P.eState,
                     !.hdr = IF first THEN 1 ELSE P.hdr,
                     !.cache = [P.cache EXCEPT ![p] = IF p = 1 THEN old ELSE v],
                     !.dirty = P.dirty \cup {p},
                     !.dbSize = IF p > P.dbSize THEN p ELSE P.dbSize,
                     !.inJournal = IF journal THEN P.inJournal \cup {p} ELSE P.inJournal,
                     !.needSync = IF journal \/ (p > P.dbOrigSize /\ P.eState # DBMOD) THEN P.needSync \cup {p}
                                  ELSE P.needSync]]
      /\ UNCHANGED <<file, inode, fileLock>>

\* The journal cannot be written: the page is dirty and unchanged, and the statement rolls back.
WriteFails(c, p) ==
  LET P == pager[c]
  IN  /\ Writer(c) /\ P.eState # WRITER_LOCKED
      /\ p <= P.dbOrigSize /\ p \notin P.inJournal /\ P.cache[p] # NoPage
      /\ pager' = [pager EXCEPT ![c] = [P EXCEPT !.dirty = P.dirty \cup {p}, !.needSync = P.needSync \cup {p},
                                                !.op = "failed"]]
      /\ UNCHANGED <<file, jrnl, inode, fileLock>>

\* pagerStress: the cache is full and writes out dirty page p; page 1 is in use and stays.
MustSync(c, p) == p \in pager[c].needSync \/ pager[c].eState = CACHEMOD
Stress(c, p) ==
  /\ Writer(c)
  /\ p \in pager[c].dirty \ {1}
  /\ IF MustSync(c, p)
     THEN /\ ExclusiveFree(c)
          /\ Raise(c, EXCLUSIVE)
          /\ jrnl' = Append(Synced(jrnl), NewSegment(pager[c].dbOrigSize))
     ELSE UNCHANGED <<jrnl, inode, fileLock>>
AfterStress(c, p) ==
  IF MustSync(c, p)
  THEN [pager[c] EXCEPT !.eState = DBMOD, !.eLock = EXCLUSIVE, !.needSync = {}, !.hdr = Len(jrnl) + 1]
  ELSE pager[c]

Spill(c, p) ==
  LET P == AfterStress(c, p)
  IN  /\ Stress(c, p)
      /\ file' = Written(file, p, P.cache[p])
      /\ \E kept \in {NoPage, P.cache[p]} :
           pager' = [pager EXCEPT ![c] = [P EXCEPT !.dirty = P.dirty \ {p}, !.cache = [P.cache EXCEPT ![p] = kept]]]
SpillFails(c, p) ==
  /\ Stress(c, p)
  /\ pager' = [pager EXCEPT ![c] = [AfterStress(c, p) EXCEPT !.eState = ERROR]]
  /\ UNCHANGED file
SpillBusy(c, p) ==
  /\ Writer(c)
  /\ p \in pager[c].dirty \ {1} /\ MustSync(c, p)
  /\ ExclusiveBusy(c)
  /\ Raise(c, PENDING)
  /\ UNCHANGED <<file, jrnl, pager>>

\* pager_incr_changecounter: page 1 is made writable and counted up in the cache.
Counted(P) ==
  LET journal == 1 <= P.dbOrigSize /\ 1 \notin P.inJournal
  IN  IF P.changeCountDone THEN P
      ELSE [P EXCEPT !.changeCountDone = TRUE, !.cache = [P.cache EXCEPT ![1] = P.dbFileVers + 1],
                     !.dirty = P.dirty \cup {1},
                     !.inJournal = IF journal THEN P.inJournal \cup {1} ELSE P.inJournal,
                     !.needSync = IF journal THEN P.needSync \cup {1} ELSE P.needSync]
CountedJournal(P) ==
  IF ~P.changeCountDone /\ 1 <= P.dbOrigSize /\ 1 \notin P.inJournal
  THEN WithRecord(jrnl, 1, P.cache[1])
  ELSE jrnl

Commit(c) ==
  /\ Writer(c) /\ pager[c].eState # WRITER_LOCKED
  /\ pager[c].dbFileVers < MaxChange
  /\ ExclusiveFree(c)
  /\ Raise(c, EXCLUSIVE)
  /\ LET P == Counted(pager[c])
     IN  /\ jrnl' = Synced(CountedJournal(pager[c]))
         /\ pager' = [pager EXCEPT ![c] =
              [P EXCEPT !.eState = DBMOD, !.eLock = EXCLUSIVE, !.needSync = {}, !.hdr = Len(jrnl) + 1,
                        !.op = "flush", !.list = P.dirty]]
  /\ UNCHANGED file
CommitBusy(c) ==
  /\ Writer(c) /\ pager[c].eState # WRITER_LOCKED
  /\ pager[c].dbFileVers < MaxChange
  /\ ExclusiveBusy(c)
  /\ Raise(c, PENDING)
  /\ jrnl' = CountedJournal(pager[c])
  /\ pager' = [pager EXCEPT ![c] = Counted(@)]
  /\ UNCHANGED file
SyncFails(c) ==
  /\ Writer(c) /\ pager[c].eState # WRITER_LOCKED
  /\ pager[c].dbFileVers < MaxChange
  /\ ExclusiveFree(c)
  /\ Raise(c, EXCLUSIVE)
  /\ jrnl' = CountedJournal(pager[c])
  /\ pager' = [pager EXCEPT ![c] = [Counted(@) EXCEPT !.eLock = EXCLUSIVE, !.op = "failed"]]
  /\ UNCHANGED file

\* One page of pager_write_pagelist, which is sorted by page number
FlushPage(c, p) ==
  LET P == pager[c]
      v == IF p = 1 THEN P.dbFileVers + 1 ELSE P.cache[p]
  IN  /\ P.op = "flush"
      /\ p \in P.list /\ \A q \in P.list : p <= q
      /\ file' = Written(file, p, v)
      /\ pager' = [pager EXCEPT ![c] = [P EXCEPT !.list = P.list \ {p}, !.cache = [P.cache EXCEPT ![p] = v],
                                                !.dbFileVers = IF p = 1 THEN v ELSE P.dbFileVers]]
      /\ UNCHANGED <<jrnl, inode, fileLock>>
FlushFails(c) ==
  /\ pager[c].op = "flush"
  /\ pager' = [pager EXCEPT ![c] = [@ EXCEPT !.op = "failed", !.list = {}]]
  /\ UNCHANGED <<file, jrnl, inode, fileLock>>
EndFlush(c) ==
  /\ pager[c].op = "flush" /\ pager[c].list = {}
  /\ pager' = [pager EXCEPT ![c] = [@ EXCEPT !.op = "finish", !.eState = FINISHED, !.dirty = {}]]
  /\ UNCHANGED <<file, jrnl, inode, fileLock>>

\* Mutant: the change counter counts as done in the next transaction, too.
EndedCounted(P) ==
  [P EXCEPT !.eState = READER, !.eLock = SHARED, !.op = "none", !.todo = {}, !.dirty = {}, !.needSync = {},
            !.inJournal = {}, !.hdr = 0, !.dbOrigSize = 0,
            !.cache = [p \in Page |-> IF p <= P.dbSize THEN P.cache[p] ELSE IF p = 1 THEN 0 ELSE NoPage]]

\* pager_end_transaction, when the journal has been deleted or there is none
Ended(P) ==
  [P EXCEPT !.eState = READER, !.eLock = SHARED, !.op = "none", !.todo = {}, !.dirty = {}, !.needSync = {},
            !.changeCountDone = FALSE, !.inJournal = {}, !.hdr = 0, !.dbOrigSize = 0,
            !.cache = [p \in Page |-> IF p <= P.dbSize THEN P.cache[p] ELSE IF p = 1 THEN 0 ELSE NoPage]]

CommitPhaseTwo(c) ==
  /\ pager[c].op = "finish"
  /\ jrnl' = << >>
  /\ Downgrade(c)
  /\ pager' = [pager EXCEPT ![c] = Ended(@)]
  /\ UNCHANGED file
CommitPhaseTwoFails(c) ==
  /\ pager[c].op = "finish"
  /\ Downgrade(c)
  /\ pager' = [pager EXCEPT ![c] = [Ended(@) EXCEPT !.eState = ERROR]]
  /\ UNCHANGED <<file, jrnl>>

\* Commit or rollback of a transaction that has written nothing
EndUnchanged(c) ==
  /\ pager[c].eState = WRITER_LOCKED /\ pager[c].op = "none"
  /\ Downgrade(c)
  /\ pager' = [pager EXCEPT ![c] = Ended(@)]
  /\ UNCHANGED <<file, jrnl>>

Rollback(c) ==
  /\ pager[c].eState \in {CACHEMOD, DBMOD} /\ pager[c].op \in {"none", "failed"}
  /\ file' = IF pager[c].eState = DBMOD THEN Truncated(file, jrnl[1].orig) ELSE file
  /\ pager' = [pager EXCEPT ![c] = [@ EXCEPT !.op = "rollback", !.todo = Playable(pager[c].hdr),
                                             !.dbSize = jrnl[1].orig]]
  /\ UNCHANGED <<jrnl, inode, fileLock>>
EndRollback(c) ==
  /\ pager[c].op = "rollback" /\ pager[c].todo = {}
  /\ jrnl' = << >>
  /\ Downgrade(c)
  /\ pager' = [pager EXCEPT ![c] = Ended(@)]
  /\ UNCHANGED file
\* A record cannot be read or written, or the journal cannot be deleted.
RollbackFails(c) ==
  /\ pager[c].op = "rollback"
  /\ IF pager[c].todo = {}
     THEN /\ Downgrade(c)
          /\ pager' = [pager EXCEPT ![c] = [Ended(@) EXCEPT !.eState = ERROR]]
     ELSE /\ pager' = [pager EXCEPT ![c] = [@ EXCEPT !.eState = ERROR, !.op = "none", !.todo = {}]]
          /\ UNCHANGED <<fileLock, inode>>
  /\ UNCHANGED <<file, jrnl>>

---------------------------------------------------------------------------
\* The process dies; the next one opens the same file.
Crash ==
  /\ pager' = [c \in Conn |-> NewPager]
  /\ fileLock' = [c \in Conn |-> NO]
  /\ inode' = [eFileLock |-> NO, nShared |-> 0]
  /\ UNCHANGED <<file, jrnl>>

Reading(c) ==
  \/ SharedLock(c) \/ EndRead(c) \/ Close(c)
  \/ BeginHotRollback(c) \/ EndHotRollback(c) \/ HotRollbackFails(c)
  \/ Recycle(c) \/ \E p \in Page : Fetch(c, p)

Playing(c) == \E r \in pager[c].todo : PlayRecord(c, r)

Writing(c) ==
  \/ Begin(c) \/ BeginExclusive(c) \/ EndUnchanged(c)
  \/ \E p \in Page, v \in Input : Write(c, p, v)
  \/ \E p \in Page : WriteFails(c, p) \/ Spill(c, p) \/ SpillFails(c, p) \/ SpillBusy(c, p)
  \/ Rollback(c) \/ EndRollback(c) \/ RollbackFails(c)

Committing(c) ==
  \/ Commit(c) \/ CommitBusy(c) \/ SyncFails(c)
  \/ \E p \in Page : FlushPage(c, p)
  \/ FlushFails(c) \/ EndFlush(c) \/ CommitPhaseTwo(c) \/ CommitPhaseTwoFails(c)

\* One thread: while a call of one connection goes on, no other connection is called.
Undisturbed(c) == \A d \in Conn \ {c} : pager[d].op = "none"

Next ==
  \/ \E c \in Conn : Undisturbed(c) /\ (Reading(c) \/ Playing(c) \/ Writing(c) \/ Committing(c))
  \/ Crash

Spec == Init /\ [][Next]_vars

---------------------------------------------------------------------------
(* Properties *)

Segments == [magic : BOOLEAN, nRec : Nat, orig : 0..MaxPage, recs : Seq([page : Page, val : Nat])]
Pagers ==
  [eState : OPEN..ERROR, eLock : {NO, SHARED, RESERVED, EXCLUSIVE},
   op : {"none", "flush", "finish", "failed", "rollback", "hot"},
   list : SUBSET Page, todo : SUBSET (Nat \X Nat), held : BOOLEAN,
   cache : [Page -> Nat \cup {NoPage}], dirty : SUBSET Page, needSync : SUBSET Page,
   dbSize : 0..MaxPage, dbOrigSize : 0..MaxPage, dbFileVers : Nat, changeCountDone : BOOLEAN,
   inJournal : SUBSET Page, hdr : Nat]

\* The two files, the record of the inode, the locks of unixFile and the fields of Pager keep their types; a Pager never
\* records PENDING_LOCK, which unixLock may leave in the file.
PagerTypes ==
  /\ file \in [size : 0..MaxPage, page : [Page -> Nat]]
  /\ jrnl \in Seq(Segments)
  /\ inode \in [eFileLock : NO..EXCLUSIVE, nShared : Nat]
  /\ fileLock \in [Conn -> NO..EXCLUSIVE]
  /\ pager \in [Conn -> Pagers]

\* unixLock and posixUnlock: the locks of the files of one process exclude each other as the lock levels say, and
\* unixInodeInfo, which they share, is the sum of them: at most one file is above SHARED, EXCLUSIVE is alone, and each
\* Pager has the lock that it believes it has.
LocksExclude ==
  /\ inode.nShared = Cardinality({c \in Conn : fileLock[c] # NO})
  /\ \A c \in Conn : fileLock[c] > SHARED => inode.eFileLock = fileLock[c]
  /\ inode.eFileLock > SHARED => \E c \in Conn : fileLock[c] = inode.eFileLock
  /\ inode.eFileLock = NO <=> inode.nShared = 0
  /\ \A c, d \in Conn : c # d /\ fileLock[c] > SHARED => fileLock[d] <= SHARED
  /\ \A c, d \in Conn : c # d /\ fileLock[c] = EXCLUSIVE => fileLock[d] = NO
  /\ \A c \in Conn : pager[c].eLock = fileLock[c] \/ (pager[c].eLock = RESERVED /\ fileLock[c] = PENDING)

\* What assert_pager_state demands of each state, here in the middle of calls, too: the lock that the state needs, an
\* open journal, sizes that agree with the file.
PagerStates ==
  \A c \in Conn :
    LET P == pager[c]
    IN  /\ P.changeCountDone => P.eLock >= RESERVED
        /\ P.eState = OPEN => P.eLock = NO \/ P.op = "hot"
        /\ P.eState = READER => P.eLock >= SHARED
        /\ P.eState = WRITER_LOCKED => P.eLock >= RESERVED /\ P.dbSize = P.dbOrigSize /\ P.dbOrigSize = file.size
        /\ P.eState = CACHEMOD => P.eLock >= RESERVED /\ jrnl # << >> /\ P.dbOrigSize = file.size
        /\ P.eState \in {DBMOD, FINISHED} => P.eLock = EXCLUSIVE /\ jrnl # << >>
        /\ P.op = "hot" => P.eLock = EXCLUSIVE

\* sqlite3PagerSharedLock keeps the cache when the change counter of the file is the one it remembers: a connection that
\* may read finds in its cache what the file holds, whoever has changed the file since it last looked.
CacheIsCurrent ==
  \A c \in Conn : pager[c].eState \in READER..FINISHED /\ pager[c].op = "none" =>
    \A p \in Page \ pager[c].dirty :
      pager[c].cache[p] # NoPage => (p <= pager[c].dbSize \/ p = 1) /\ pager[c].cache[p] = file.page[p]

\* The contents that a database can have
Content == UNION {[size : {n}, page : [2..n -> Data]] : n \in 0..MaxPage}

ASSUME ViewAssumption == NoView \notin Content

\* The committed content: what a connection that opened the file now would find, after it has played a hot journal back.
Committed ==
  LET hot == jrnl # << >> /\ file.size > 0 /\ jrnl[1].magic
      records == IF hot THEN {jrnl[r[1]].recs[r[2]] : r \in Playable(0)} ELSE {}
      n == IF hot THEN jrnl[1].orig ELSE file.size
      Recovered(p) == IF \E r \in records : r.page = p THEN (CHOOSE r \in records : r.page = p).val ELSE file.page[p]
  IN  [size |-> n, page |-> [p \in 2..n |-> Recovered(p)]]

\* What a transaction sees
View(c) ==
  LET P == pager[c]
      Seen(p) == IF P.cache[p] # NoPage THEN P.cache[p] ELSE file.page[p]
  IN  IF P.eState \in READER..FINISHED /\ P.op \in {"none", "flush", "finish"}
      THEN [size |-> P.dbSize, page |-> [p \in 2..P.dbSize |-> Seen(p)]]
      ELSE NoView

Atomically == INSTANCE AtomicCommit WITH
  db <- Committed,
  view <- [c \in Conn |-> View(c)]

\* The locks, the journal, the order in which CommitPhaseOne, the spilling of pagerStress and pager_playback write, and
\* the detection of hot journals together make commits atomic and transactions isolated, also when file operations fail
\* at any point or the process dies there: the pagers implement AtomicCommit.
Atomic == Atomically!Spec
===========================================================================
