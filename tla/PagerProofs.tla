--------------------------- MODULE PagerProofs ----------------------------
(***************************************************************************)
(* Proofs about Pager.  First: the locks of the connections exclude each   *)
(* other, and every state of a pager has the lock, the journal and the     *)
(* sizes that it needs, whatever fails and whenever the process dies.      *)
(* Second: what a connection caches is what the file holds, and the pagers *)
(* implement AtomicCommit.                                                 *)
(***************************************************************************)
EXTENDS Pager, FiniteSetTheorems, TLAPS

(* The first six parts of LocksExclude, which are about the lock table. *)
Holders == {c \in Conn : fileLock[c] # NO}

LockTable ==
  /\ inode.nShared = Cardinality(Holders)
  /\ \A c \in Conn : fileLock[c] > SHARED => inode.eFileLock = fileLock[c]
  /\ inode.eFileLock > SHARED => \E c \in Conn : fileLock[c] = inode.eFileLock
  /\ inode.eFileLock = NO <=> inode.nShared = 0
  /\ \A c, d \in Conn : c # d /\ fileLock[c] > SHARED => fileLock[d] <= SHARED
  /\ \A c, d \in Conn : c # d /\ fileLock[c] = EXCLUSIVE => fileLock[d] = NO

LockTypes ==
  /\ inode \in [eFileLock : NO..EXCLUSIVE, nShared : Nat]
  /\ fileLock \in [Conn -> NO..EXCLUSIVE]

(* Which call a pager is in, and the locks that go with it. *)
Calls(P, lock) ==
  /\ P.eLock = lock \/ (P.eLock = RESERVED /\ lock = PENDING)
  /\ P.op = "none" => P.eState # FINISHED
  /\ P.op = "hot" => P.eState = OPEN /\ P.eLock = EXCLUSIVE /\ ~P.changeCountDone
  /\ P.op = "flush" => P.eState = DBMOD /\ P.list \subseteq P.dirty
  /\ P.op = "finish" => P.eState = FINISHED
  /\ P.op \in {"failed", "rollback"} => P.eState \in {CACHEMOD, DBMOD}
  /\ P.eState = OPEN /\ P.op = "none" => P.eLock = NO
  /\ P.eState # OPEN => P.eLock >= SHARED
  /\ P.eState \in {WRITER_LOCKED, CACHEMOD} => P.eLock >= RESERVED
  /\ P.eState \in {DBMOD, FINISHED} => P.eLock = EXCLUSIVE
  /\ P.changeCountDone => P.eLock >= RESERVED

(* How the sizes that a pager remembers agree with the file and the journal. *)
Sizes(P, f, j) ==
  /\ P.eState \in {READER, WRITER_LOCKED, FINISHED} \/ P.op \in {"rollback", "hot"} => P.dbSize = f.size
  /\ P.eState \in {WRITER_LOCKED, CACHEMOD} => P.dbOrigSize = f.size
  /\ P.eState \in {CACHEMOD, DBMOD} => j # << >> /\ j[1].orig = P.dbOrigSize
  /\ P.eState = FINISHED \/ P.op = "hot" => j # << >>
  /\ P.op \in {"hot", "rollback"} => P.dbSize = j[1].orig
  /\ P.op \in {"hot", "rollback"} => \A r \in P.todo : r[1] \in DOMAIN j /\ r[2] \in DOMAIN j[r[1]].recs
  /\ P.eState \in {CACHEMOD, DBMOD} /\ P.op = "none" =>
       f.size <= P.dbSize /\ (P.dbSize > f.size => P.dbSize \in P.dirty)
  /\ P.op = "flush" => f.size <= P.dbSize /\ (P.dbSize > f.size => P.dbSize \in P.list)

(* What is in the cache when it has to be. *)
Cached(P) ==
  /\ P.eState \in READER..FINISHED => P.cache[1] # NoPage
  /\ P.eState \in {OPEN, READER, WRITER_LOCKED} => P.dirty = {}
  /\ P.eState \in {CACHEMOD, DBMOD} /\ P.op \in {"none", "flush"} =>
       P.dbSize # 0 /\ \A p \in P.dirty : p <= P.dbSize /\ P.cache[p] # NoPage

(* A journal holds pages of the file that it restores. *)
Journal(j) ==
  \A k \in DOMAIN j :
    /\ j[k].nRec <= Len(j[k].recs)
    /\ \A i \in DOMAIN j[k].recs : j[k].recs[i].page <= j[1].orig

Cache == [Page -> Nat \cup {NoPage}]
Files == [size : 0..MaxPage, page : [Page -> Nat]]
Levels == {NO, SHARED, RESERVED, EXCLUSIVE}

PagerInv ==
  /\ PagerTypes
  /\ LockTable
  /\ Journal(jrnl)
  /\ \A c \in Conn : Calls(pager[c], fileLock[c]) /\ Sizes(pager[c], file, jrnl) /\ Cached(pager[c])

USE PagerAssumption

---------------------------------------------------------------------------
(* Types: what the actions do to the fields of a pager *)

LEMMA OpenedFields ==
    ASSUME NEW P \in Pagers, NEW Q, NEW state \in OPEN..ERROR, NEW n \in 0..MaxPage, NEW vers \in Nat,
           NEW cache \in Cache,
           Q = [P EXCEPT !.eState = state, !.eLock = SHARED, !.held = TRUE, !.op = "none", !.dbSize = n,
                         !.cache = cache, !.dbFileVers = vers]
    PROVE  Q \in Pagers
  BY Zenon DEF Pagers, Cache

LEMMA UnlockedFields ==
    ASSUME NEW P \in Pagers, NEW Q, NEW held \in BOOLEAN, NEW vers \in Nat, NEW cache \in Cache,
           Q = [P EXCEPT !.held = held, !.dbFileVers = vers, !.cache = cache]
    PROVE  Q \in Pagers
  BY Zenon DEF Pagers, Cache

LEMMA HotFields ==
    ASSUME NEW P \in Pagers, NEW Q, NEW todo \in SUBSET (Nat \X Nat), NEW n \in 0..MaxPage, NEW cache \in Cache,
           Q = [P EXCEPT !.eLock = EXCLUSIVE, !.op = "hot", !.todo = todo, !.dbSize = n, !.cache = cache]
    PROVE  Q \in Pagers
  BY Zenon DEF Pagers, Cache

LEMMA PlayFields ==
    ASSUME NEW P \in Pagers, NEW Q, NEW todo \in SUBSET (Nat \X Nat), NEW cache \in Cache, NEW vers \in Nat,
           Q = [P EXCEPT !.todo = todo, !.cache = cache, !.dbFileVers = vers]
    PROVE  Q \in Pagers
  BY Zenon DEF Pagers, Cache

LEMMA StateField ==
    ASSUME NEW P \in Pagers, NEW Q, NEW state \in OPEN..ERROR, Q = [P EXCEPT !.eState = state]
    PROVE  Q \in Pagers
  BY Zenon DEF Pagers

LEMMA CacheField ==
    ASSUME NEW P \in Pagers, NEW Q, NEW cache \in Cache, Q = [P EXCEPT !.cache = cache]
    PROVE  Q \in Pagers
  BY Zenon DEF Pagers, Cache

LEMMA LockField ==
    ASSUME NEW P \in Pagers, NEW Q, Q = [P EXCEPT !.eLock = RESERVED]
    PROVE  Q \in Pagers
  BY Zenon DEF Pagers

LEMMA BeginFields ==
    ASSUME NEW P \in Pagers, NEW Q, NEW state \in OPEN..ERROR, NEW lock \in Levels, NEW n \in 0..MaxPage,
           Q = [P EXCEPT !.eState = state, !.dbOrigSize = n, !.eLock = lock]
    PROVE  Q \in Pagers
  BY Zenon DEF Pagers, Levels

LEMMA WriteFields ==
    ASSUME NEW P \in Pagers, NEW Q, NEW state \in OPEN..ERROR, NEW h \in Nat, NEW cache \in Cache,
           NEW dirty \in SUBSET Page, NEW n \in 0..MaxPage, NEW inJ \in SUBSET Page, NEW sync \in SUBSET Page,
           Q = [P EXCEPT !.eState = state, !.hdr = h, !.cache = cache, !.dirty = dirty, !.dbSize = n,
                         !.inJournal = inJ, !.needSync = sync]
    PROVE  Q \in Pagers
  BY Zenon DEF Pagers, Cache

LEMMA WriteFailsFields ==
    ASSUME NEW P \in Pagers, NEW Q, NEW dirty \in SUBSET Page, NEW sync \in SUBSET Page,
           Q = [P EXCEPT !.dirty = dirty, !.needSync = sync, !.op = "failed"]
    PROVE  Q \in Pagers
  BY Zenon DEF Pagers

LEMMA StressFields ==
    ASSUME NEW P \in Pagers, NEW Q, NEW state \in OPEN..ERROR, NEW h \in Nat,
           Q = [P EXCEPT !.eState = state, !.eLock = EXCLUSIVE, !.needSync = {}, !.hdr = h]
    PROVE  Q \in Pagers
  BY Zenon DEF Pagers

LEMMA SpillFields ==
    ASSUME NEW P \in Pagers, NEW Q, NEW dirty \in SUBSET Page, NEW cache \in Cache,
           Q = [P EXCEPT !.dirty = dirty, !.cache = cache]
    PROVE  Q \in Pagers
  BY Zenon DEF Pagers, Cache

LEMMA CountedFields ==
    ASSUME NEW P \in Pagers, NEW Q, NEW cache \in Cache, NEW dirty \in SUBSET Page, NEW inJ \in SUBSET Page,
           NEW sync \in SUBSET Page,
           Q = [P EXCEPT !.changeCountDone = TRUE, !.cache = cache, !.dirty = dirty, !.inJournal = inJ,
                         !.needSync = sync]
    PROVE  Q \in Pagers
  BY Zenon DEF Pagers, Cache

LEMMA CommitFields ==
    ASSUME NEW P \in Pagers, NEW Q, NEW state \in OPEN..ERROR, NEW h \in Nat, NEW list \in SUBSET Page,
           Q = [P EXCEPT !.eState = state, !.eLock = EXCLUSIVE, !.needSync = {}, !.hdr = h, !.op = "flush",
                         !.list = list]
    PROVE  Q \in Pagers
  BY Zenon DEF Pagers

LEMMA SyncFailsFields ==
    ASSUME NEW P \in Pagers, NEW Q, Q = [P EXCEPT !.eLock = EXCLUSIVE, !.op = "failed"]
    PROVE  Q \in Pagers
  BY Zenon DEF Pagers

LEMMA FlushFields ==
    ASSUME NEW P \in Pagers, NEW Q, NEW list \in SUBSET Page, NEW cache \in Cache, NEW vers \in Nat,
           Q = [P EXCEPT !.list = list, !.cache = cache, !.dbFileVers = vers]
    PROVE  Q \in Pagers
  BY Zenon DEF Pagers, Cache

LEMMA FlushFailsFields ==
    ASSUME NEW P \in Pagers, NEW Q, Q = [P EXCEPT !.op = "failed", !.list = {}]
    PROVE  Q \in Pagers
  BY Zenon DEF Pagers

LEMMA EndFlushFields ==
    ASSUME NEW P \in Pagers, NEW Q, NEW state \in OPEN..ERROR,
           Q = [P EXCEPT !.op = "finish", !.eState = state, !.dirty = {}]
    PROVE  Q \in Pagers
  BY Zenon DEF Pagers

LEMMA EndedFields ==
    ASSUME NEW P \in Pagers, NEW Q, NEW state \in OPEN..ERROR, NEW h \in Nat, NEW n \in 0..MaxPage, NEW cache \in Cache,
           Q = [P EXCEPT !.eState = state, !.eLock = SHARED, !.op = "none", !.todo = {}, !.dirty = {}, !.needSync = {},
                         !.changeCountDone = FALSE, !.inJournal = {}, !.hdr = h, !.dbOrigSize = n, !.cache = cache]
    PROVE  Q \in Pagers
  BY Zenon DEF Pagers, Cache

LEMMA RollbackFields ==
    ASSUME NEW P \in Pagers, NEW Q, NEW todo \in SUBSET (Nat \X Nat), NEW n \in 0..MaxPage,
           Q = [P EXCEPT !.op = "rollback", !.todo = todo, !.dbSize = n]
    PROVE  Q \in Pagers
  BY Zenon DEF Pagers

LEMMA RollbackFailsFields ==
    ASSUME NEW P \in Pagers, NEW Q, NEW state \in OPEN..ERROR,
           Q = [P EXCEPT !.eState = state, !.op = "none", !.todo = {}]
    PROVE  Q \in Pagers
  BY Zenon DEF Pagers
---------------------------------------------------------------------------
(* The two files *)

LEMMA WrittenType ==
    ASSUME NEW f \in Files, NEW p \in Page, NEW v \in Nat
    PROVE  Written(f, p, v) \in Files /\ Written(f, p, v).size = IF p > f.size THEN p ELSE f.size
  BY DEF Written, Files, Page

LEMMA TruncatedType ==
    ASSUME NEW f \in Files, NEW n \in 0..MaxPage
    PROVE  Truncated(f, n) \in Files /\ Truncated(f, n).size = n
  BY DEF Truncated, Files, Page

LEMMA WithRecordType ==
    ASSUME NEW j \in Seq(Segments), j # << >>, Journal(j), NEW p \in Page, p <= j[1].orig, NEW v \in Nat
    PROVE  /\ WithRecord(j, p, v) \in Seq(Segments) /\ WithRecord(j, p, v) # << >>
           /\ Len(WithRecord(j, p, v)) = Len(j)
           /\ Journal(WithRecord(j, p, v)) /\ WithRecord(j, p, v)[1].orig = j[1].orig
  <1> DEFINE last == j[Len(j)]
             recs == Append(last.recs, [page |-> p, val |-> v])
             k == WithRecord(j, p, v)
  <1>1. last \in Segments /\ Len(j) \in Nat \ {0} /\ Len(j) \in DOMAIN j
    OBVIOUS
  <1>2. recs \in Seq([page : Page, val : Nat]) /\ Len(recs) = Len(last.recs) + 1
    BY <1>1 DEF Segments
  <1>3. \A i \in DOMAIN recs : recs[i] = IF i = Len(recs) THEN [page |-> p, val |-> v] ELSE last.recs[i]
    BY <1>1 DEF Segments
  <1>4. [last EXCEPT !.recs = recs] \in Segments
    BY <1>1, <1>2 DEF Segments
  <1>5. k = [j EXCEPT ![Len(j)] = [last EXCEPT !.recs = recs]]
    BY DEF WithRecord
  <1>6. k \in Seq(Segments) /\ Len(k) = Len(j) /\ DOMAIN k = DOMAIN j
    BY <1>1, <1>4, <1>5
  <1>7. \A i \in DOMAIN j :
          k[i].orig = j[i].orig /\ k[i].nRec = j[i].nRec /\ k[i].recs = IF i = Len(j) THEN recs ELSE j[i].recs
    BY <1>1, <1>5 DEF Segments
  <1>8. 1 \in DOMAIN j
    BY <1>1
  <1>9. ASSUME NEW i \in DOMAIN k
        PROVE  k[i].nRec <= Len(k[i].recs) /\ \A n \in DOMAIN k[i].recs : k[i].recs[n].page <= k[1].orig
    <2>1. CASE i # Len(j)
      BY <2>1, <1>6, <1>7, <1>8 DEF Journal
    <2>2. CASE i = Len(j)
      <3>1. last.nRec <= Len(last.recs) /\ \A n \in DOMAIN last.recs : last.recs[n].page <= j[1].orig
        BY <1>1 DEF Journal
      <3>2. k[i].recs = recs /\ k[i].nRec = last.nRec /\ k[1].orig = j[1].orig
        BY <2>2, <1>6, <1>7, <1>8
      <3>3. \A n \in DOMAIN recs : n # Len(recs) => n \in DOMAIN last.recs
        BY <1>1, <1>2 DEF Segments
      <3>4. \A n \in DOMAIN recs : recs[n].page <= j[1].orig
        BY <1>3, <3>1, <3>3
      <3>5. last.nRec \in Nat /\ Len(last.recs) \in Nat
        BY <1>1 DEF Segments
      <3> HIDE DEF last, recs, k
      <3> QED
        BY <3>1, <3>2, <3>4, <3>5, <1>2
    <2> QED
      BY <2>1, <2>2
  <1>10. Journal(k)
    BY <1>9 DEF Journal
  <1>11. k # << >> /\ k[1].orig = j[1].orig
    BY <1>1, <1>6, <1>7, <1>8
  <1> QED
    BY <1>6, <1>10, <1>11

LEMMA SyncedType ==
    ASSUME NEW j \in Seq(Segments), j # << >>, Journal(j)
    PROVE  /\ Synced(j) \in Seq(Segments) /\ Synced(j) # << >>
           /\ Journal(Synced(j)) /\ Synced(j)[1].orig = j[1].orig
  <1> DEFINE last == j[Len(j)]
             new == [last EXCEPT !.magic = TRUE, !.nRec = Len(last.recs)]
             k == Synced(j)
  <1>1. last \in Segments /\ Len(j) \in Nat \ {0} /\ Len(j) \in DOMAIN j /\ 1 \in DOMAIN j
    OBVIOUS
  <1>2. Len(last.recs) \in Nat
    BY <1>1 DEF Segments
  <1>3. new \in Segments /\ new.recs = last.recs /\ new.orig = last.orig /\ new.nRec = Len(last.recs)
    BY <1>1, <1>2 DEF Segments
  <1>4. k = [j EXCEPT ![Len(j)] = new]
    BY DEF Synced
  <1> HIDE DEF new
  <1>5. k \in Seq(Segments) /\ DOMAIN k = DOMAIN j /\ k # << >>
    BY <1>1, <1>3, <1>4
  <1>6. \A i \in DOMAIN j :
          k[i].orig = j[i].orig /\ k[i].recs = j[i].recs /\ (k[i].nRec = j[i].nRec \/ k[i].nRec = Len(j[i].recs))
    BY <1>1, <1>3, <1>4
  <1>7. \A i \in DOMAIN j : Len(j[i].recs) \in Nat
    BY DEF Segments
  <1> HIDE DEF k
  <1>8. ASSUME NEW i \in DOMAIN k
        PROVE  k[i].nRec <= Len(k[i].recs) /\ \A n \in DOMAIN k[i].recs : k[i].recs[n].page <= k[1].orig
    <2>1. j[i].nRec <= Len(j[i].recs) /\ \A n \in DOMAIN j[i].recs : j[i].recs[n].page <= j[1].orig
      BY <1>5 DEF Journal
    <2>2. k[i].recs = j[i].recs /\ (k[i].nRec = j[i].nRec \/ k[i].nRec = Len(j[i].recs)) /\ k[1].orig = j[1].orig
      BY <1>1, <1>5, <1>6
    <2>3. Len(j[i].recs) \in Nat
      BY <1>5, <1>7
    <2> QED
      BY <2>1, <2>2, <2>3
  <1>9. Journal(k)
    BY <1>8 DEF Journal
  <1> QED
    BY <1>1, <1>5, <1>6, <1>9 DEF k

LEMMA NewSegmentType ==
    ASSUME NEW j \in Seq(Segments), Journal(j), NEW n \in 0..MaxPage
    PROVE  /\ Append(j, NewSegment(n)) \in Seq(Segments) /\ Append(j, NewSegment(n)) # << >>
           /\ Journal(Append(j, NewSegment(n)))
           /\ Append(j, NewSegment(n))[1].orig = IF j = << >> THEN n ELSE j[1].orig
  <1> DEFINE new == NewSegment(n)
             k == Append(j, new)
  <1>1. new \in Segments /\ new.recs = << >> /\ new.nRec = 0 /\ new.orig = n
    BY DEF NewSegment, Segments
  <1> HIDE DEF new
  <1>2. k \in Seq(Segments) /\ k # << >>
    BY <1>1
  <1>3. \A i \in DOMAIN k : k[i] = IF i \in DOMAIN j THEN j[i] ELSE new
    BY <1>1
  <1>4. k[1] = IF j = << >> THEN new ELSE j[1]
    BY <1>1
  <1>5. Len(new.recs) = 0 /\ DOMAIN new.recs = {}
    BY <1>1
  <1>6. j = << >> => DOMAIN j = {}
    OBVIOUS
  <1> HIDE DEF k
  <1>7. ASSUME NEW i \in DOMAIN k
        PROVE  k[i].nRec <= Len(k[i].recs) /\ \A m \in DOMAIN k[i].recs : k[i].recs[m].page <= k[1].orig
    <2>1. CASE i \in DOMAIN j
      <3>1. j[i].nRec <= Len(j[i].recs) /\ \A m \in DOMAIN j[i].recs : j[i].recs[m].page <= j[1].orig
        BY <2>1 DEF Journal
      <3>2. k[i] = j[i] /\ k[1] = j[1]
        BY <2>1, <1>3, <1>4, <1>6
      <3> QED
        BY <3>1, <3>2
    <2>2. CASE i \notin DOMAIN j
      BY <2>2, <1>1, <1>3, <1>5
    <2> QED
      BY <2>1, <2>2
  <1>8. Journal(k)
    BY <1>7 DEF Journal
  <1> QED
    BY <1>1, <1>2, <1>4, <1>8 DEF k, new
LEMMA SeqElement ==
    ASSUME NEW S, NEW s \in Seq(S), NEW i \in DOMAIN s
    PROVE  s[i] \in S
  OBVIOUS

(* What is played back is in the journal. *)
LEMMA PlayableType ==
    ASSUME jrnl \in Seq(Segments), Journal(jrnl), NEW own
    PROVE  /\ Playable(own) \in SUBSET (Nat \X Nat)
           /\ \A r \in Playable(own) : r[1] \in DOMAIN jrnl /\ r[2] \in DOMAIN jrnl[r[1]].recs
  <1> DEFINE Read == {n \in DOMAIN jrnl : \A i \in 1..n : jrnl[i].magic \/ i = own}
  <1>1. \A k \in DOMAIN jrnl : jrnl[k] \in Segments /\ k \in Nat
    OBVIOUS
  <1>2. ASSUME NEW k \in DOMAIN jrnl, NEW i \in 1..Count(k, own)
        PROVE  i \in DOMAIN jrnl[k].recs /\ i \in Nat
    <2>1. jrnl[k].recs \in Seq([page : Page, val : Nat]) /\ jrnl[k].nRec \in Nat
      BY <1>1 DEF Segments
    <2>2. jrnl[k].nRec <= Len(jrnl[k].recs)
      BY DEF Journal
    <2> QED
      BY <2>1, <2>2 DEF Count
  <1>3. \A r \in Playable(own) : \E k \in Read : r \in {k} \X (1..Count(k, own))
    BY DEF Playable
  <1>4. ASSUME NEW r \in Playable(own)
        PROVE  /\ r = <<r[1], r[2]>> /\ r[1] \in Nat /\ r[2] \in Nat
               /\ r[1] \in DOMAIN jrnl /\ r[2] \in DOMAIN jrnl[r[1]].recs
    <2>1. PICK k \in Read : r \in {k} \X (1..Count(k, own))
      BY <1>3
    <2>2. k \in DOMAIN jrnl /\ r = <<r[1], r[2]>> /\ r[1] = k /\ r[2] \in 1..Count(k, own)
      BY <2>1
    <2> QED
      BY <1>1, <1>2, <2>2
  <1>5. \A r \in Playable(own) : r \in Nat \X Nat
    BY <1>4
  <1> QED
    BY <1>4, <1>5

USE DEF NO, SHARED, RESERVED, PENDING, EXCLUSIVE
USE DEF OPEN, READER, WRITER_LOCKED, CACHEMOD, DBMOD, FINISHED, ERROR

---------------------------------------------------------------------------
(* Locks *)

LEMMA HoldersFinite == IsFiniteSet(Holders) /\ Cardinality(Holders) \in Nat
  BY FS_Subset, FS_CardinalityType DEF Holders

(* Who is alone in the count is alone with a lock. *)
LEMMA AloneInCount ==
    ASSUME LockTypes, LockTable, NEW c \in Conn, fileLock[c] # NO, inode.nShared <= 1
    PROVE  inode.nShared = 1 /\ \A d \in Conn \ {c} : fileLock[d] = NO
  <1>1. c \in Holders
    BY DEF Holders
  <1>2. Cardinality(Holders) = 1
    BY <1>1, HoldersFinite, FS_EmptySet DEF LockTable, LockTypes
  <1>3. PICK x : Holders = {x}
    BY <1>2, HoldersFinite, FS_Singleton
  <1>4. Holders = {c}
    BY <1>1, <1>3
  <1> QED
    BY <1>2, <1>4 DEF Holders, LockTable

LEMMA NobodyHolds ==
    ASSUME LockTypes, LockTable, inode.nShared = 0
    PROVE  \A d \in Conn : fileLock[d] = NO
  BY HoldersFinite, FS_EmptySet DEF LockTable, Holders

(* Taking a first lock, SHARED or, for a hot journal, EXCLUSIVE. *)
LEMMA Joins ==
    ASSUME LockTypes, LockTable, NEW c \in Conn, fileLock[c] = NO, fileLock' \in [Conn -> NO..EXCLUSIVE],
           fileLock'[c] # NO, \A d \in Conn \ {c} : fileLock'[d] = fileLock[d]
    PROVE  Cardinality(Holders') = Cardinality(Holders) + 1
  <1>1. Holders' = Holders \cup {c} /\ c \notin Holders
    BY DEF Holders, LockTypes
  <1> QED
    BY <1>1, HoldersFinite, FS_AddElement

LEMMA ClosedHasNoLock ==
    ASSUME NEW P \in Pagers, NEW lock \in NO..EXCLUSIVE, Calls(P, lock), P.eState = OPEN, P.op = "none"
    PROVE  P.eLock = NO /\ lock = NO /\ ~P.changeCountDone
  BY DEF Calls, Pagers

LEMMA HotIsUncounted ==
    ASSUME NEW P \in Pagers, NEW lock, Calls(P, lock), P.op = "hot"
    PROVE  ~P.changeCountDone
  BY DEF Calls

LEMMA TakeSharedOK ==
    ASSUME LockTypes, LockTable, NEW c \in Conn, fileLock[c] = NO, TakeShared(c)
    PROVE  /\ LockTypes' /\ LockTable'
           /\ fileLock' = [fileLock EXCEPT ![c] = SHARED]
  <1>1. fileLock' = [fileLock EXCEPT ![c] = SHARED]
    BY DEF TakeShared
  <1>2. /\ inode'.nShared = inode.nShared + 1
        /\ inode'.eFileLock = IF inode.eFileLock = RESERVED THEN RESERVED ELSE SHARED
        /\ inode.eFileLock < PENDING
    BY DEF TakeShared, Refused, LockTypes
  <1>3. LockTypes'
    BY <1>1, <1>2 DEF LockTypes, TakeShared
  <1>4. Cardinality(Holders') = Cardinality(Holders) + 1
    BY <1>1, <1>3, Joins DEF LockTypes
  <1>5. inode'.nShared = Cardinality(Holders')
    BY <1>2, <1>4 DEF LockTable
  <1>6. \A d \in Conn : fileLock'[d] > SHARED => fileLock[d] = fileLock'[d] /\ inode.eFileLock = RESERVED
    BY <1>1, <1>2 DEF LockTable, LockTypes
  <1>7. \A d \in Conn : fileLock'[d] > SHARED => inode'.eFileLock = fileLock'[d]
    BY <1>2, <1>6 DEF LockTable, LockTypes
  <1>8. inode'.eFileLock > SHARED => \E d \in Conn : fileLock'[d] = inode'.eFileLock
    BY <1>1, <1>2 DEF LockTable, LockTypes
  <1>9. inode'.eFileLock = NO <=> inode'.nShared = 0
    BY <1>2 DEF LockTypes
  <1>10. \A d, e \in Conn : d # e /\ fileLock'[d] > SHARED => fileLock'[e] <= SHARED
    BY <1>1, <1>6 DEF LockTable, LockTypes
  <1>11. \A d, e \in Conn : d # e /\ fileLock'[d] = EXCLUSIVE => fileLock'[e] = NO
    BY <1>2, <1>6 DEF LockTable, LockTypes
  <1> QED
    BY <1>1, <1>3, <1>5, <1>7, <1>8, <1>9, <1>10, <1>11 DEF LockTable

(* Changing a lock that is held: up, if nobody else is up there, or down to SHARED. *)
LEMMA RaiseOK ==
    ASSUME LockTypes, LockTable, NEW c \in Conn, NEW lock \in SHARED..EXCLUSIVE, Raise(c, lock),
           fileLock[c] # NO, \A d \in Conn \ {c} : fileLock[d] <= SHARED,
           lock = EXCLUSIVE => \A d \in Conn \ {c} : fileLock[d] = NO
    PROVE  LockTypes' /\ LockTable'
  <1>1. fileLock' = [fileLock EXCEPT ![c] = lock] /\ inode' = [inode EXCEPT !.eFileLock = lock]
    BY DEF Raise
  <1>2. LockTypes'
    BY <1>1 DEF LockTypes
  <1>3. Holders' = Holders /\ c \in Holders
    BY <1>1 DEF Holders, LockTypes
  <1>4. inode'.eFileLock = lock /\ inode'.nShared = inode.nShared
    BY <1>1 DEF LockTypes
  <1>5. inode'.nShared = Cardinality(Holders') /\ inode'.nShared # 0
    BY <1>3, <1>4, HoldersFinite, FS_EmptySet DEF LockTable
  <1>6. \A d \in Conn : fileLock'[d] = IF d = c THEN lock ELSE fileLock[d]
    BY <1>1 DEF LockTypes
  <1> QED
    BY <1>2, <1>4, <1>5, <1>6 DEF LockTable, LockTypes

LEMMA ReleaseOK ==
    ASSUME LockTypes, LockTable, NEW c \in Conn, Release(c), fileLock[c] # NO
    PROVE  LockTypes' /\ LockTable' /\ fileLock' = [fileLock EXCEPT ![c] = NO]
  <1>1. fileLock' = [fileLock EXCEPT ![c] = NO]
    BY DEF Release
  <1>2. \A d \in Conn : fileLock'[d] = IF d = c THEN NO ELSE fileLock[d]
    BY <1>1 DEF LockTypes
  <1>3. c \in Holders /\ Holders' = Holders \ {c}
    BY <1>2 DEF Holders
  <1>4. inode.nShared # 0 /\ Cardinality(Holders') = inode.nShared - 1
    BY <1>3, HoldersFinite, FS_RemoveElement, FS_EmptySet DEF LockTable
  <1>5. /\ inode'.nShared = inode.nShared - 1
        /\ inode'.eFileLock = IF inode.nShared = 1 THEN NO
                              ELSE IF fileLock[c] > SHARED THEN SHARED ELSE inode.eFileLock
    BY DEF Release
  <1>6. LockTypes'
    BY <1>1, <1>4 DEF LockTypes, Release
  <1>7. CASE inode.nShared = 1
    <2>1. \A d \in Conn : fileLock'[d] = NO
      BY <1>2, <1>7, AloneInCount
    <2> QED
      BY <2>1, <1>1, <1>4, <1>5, <1>6, <1>7 DEF LockTable
  <1>8. CASE inode.nShared # 1 /\ fileLock[c] > SHARED
    <2>1. \A d \in Conn : fileLock'[d] <= SHARED
      BY <1>2, <1>8 DEF LockTable
    <2>2. inode'.eFileLock = SHARED /\ inode'.nShared # 0
      BY <1>4, <1>5, <1>8 DEF LockTypes
    <2>3. \A d \in Conn : ~(fileLock'[d] > SHARED) /\ fileLock'[d] # EXCLUSIVE
      BY <2>1, <1>6 DEF LockTypes
    <2> QED
      BY <2>2, <2>3, <1>1, <1>4, <1>5, <1>6 DEF LockTable
  <1>9. CASE inode.nShared # 1 /\ ~(fileLock[c] > SHARED)
    <2>1. inode'.eFileLock = inode.eFileLock /\ inode'.nShared # 0 /\ inode'.nShared = Cardinality(Holders')
      BY <1>4, <1>5, <1>9 DEF LockTypes
    <2>2. \A d \in Conn : fileLock'[d] = IF d = c THEN NO ELSE fileLock[d]
      BY <1>2
    <2>3. fileLock[c] = SHARED /\ inode.eFileLock # NO
      BY <1>4, <1>9 DEF LockTypes, LockTable
    <2>4. inode'.eFileLock > SHARED => \E d \in Conn : fileLock'[d] = inode'.eFileLock
      BY <2>1, <2>2, <2>3 DEF LockTable
    <2> QED
      BY <2>1, <2>2, <2>3, <2>4, <1>1, <1>6 DEF LockTable, LockTypes
  <1> QED
    BY <1>7, <1>8, <1>9

LEMMA DowngradeOK ==
    ASSUME LockTypes, LockTable, NEW c \in Conn, Downgrade(c), fileLock[c] # NO
    PROVE  /\ LockTypes' /\ LockTable'
           /\ fileLock'[c] = SHARED /\ \A d \in Conn \ {c} : fileLock'[d] = fileLock[d]
  <1>1. CASE fileLock[c] > SHARED
    <2>1. Raise(c, SHARED) /\ \A d \in Conn \ {c} : fileLock[d] <= SHARED
      BY <1>1 DEF Downgrade, LockTable
    <2>2. LockTypes' /\ LockTable'
      BY <2>1, RaiseOK
    <2> QED
      BY <2>1, <2>2 DEF Raise, LockTypes
  <1>2. CASE ~(fileLock[c] > SHARED)
    BY <1>2 DEF Downgrade, LockTypes, LockTable, Holders
  <1> QED
    BY <1>1, <1>2

---------------------------------------------------------------------------
(* Steps *)

(* A connection that is not called keeps what it relies on: the file changes under an EXCLUSIVE lock of another, the *)
(* journal while it has no RESERVED lock itself. *)
LEMMA Unaffected ==
    ASSUME NEW P \in Pagers, NEW lock \in NO..EXCLUSIVE, NEW f, NEW g, NEW j, NEW k,
           Calls(P, lock), Sizes(P, f, j), P.op = "none",
           g = f \/ lock = NO, k = j \/ lock <= SHARED
    PROVE  Sizes(P, g, k)
  <1>1. CASE lock = NO
    <2>1. P.eState = OPEN
      BY <1>1 DEF Calls, Pagers
    <2> QED
      BY <2>1 DEF Sizes
  <1>2. CASE lock # NO /\ k # j
    <2>1. P.eState \notin {CACHEMOD, DBMOD, FINISHED}
      BY <1>2 DEF Calls, Pagers
    <2> QED
      BY <2>1, <1>2 DEF Sizes
  <1>3. CASE lock # NO /\ k = j
    BY <1>3
  <1> QED
    BY <1>1, <1>2, <1>3

(* One call of connection c, of which only its own pager remains to be looked at. *)
LEMMA OneCall ==
    ASSUME PagerInv, NEW c \in Conn, Undisturbed(c),
           pager' = [pager EXCEPT ![c] = pager'[c]], pager'[c] \in Pagers,
           LockTypes', LockTable', \A d \in Conn \ {c} : fileLock'[d] = fileLock[d],
           file' \in Files,
           file' = file \/ \A d \in Conn \ {c} : fileLock[d] = NO,
           jrnl' \in Seq(Segments), Journal(jrnl'),
           jrnl' = jrnl \/ \A d \in Conn \ {c} : fileLock[d] <= SHARED,
           Calls(pager'[c], fileLock'[c]), Sizes(pager'[c], file', jrnl'), Cached(pager'[c])
    PROVE  PagerInv'
  <1>1. pager' \in [Conn -> Pagers]
    BY DEF PagerInv, PagerTypes
  <1>2. PagerTypes'
    BY <1>1 DEF PagerTypes, LockTypes, Files
  <1>3. ASSUME NEW d \in Conn \ {c}
        PROVE  Calls(pager'[d], fileLock'[d]) /\ Sizes(pager'[d], file', jrnl') /\ Cached(pager'[d])
    <2>1. pager'[d] = pager[d] /\ fileLock'[d] = fileLock[d]
      BY DEF PagerInv, PagerTypes
    <2>2. Calls(pager[d], fileLock[d]) /\ Sizes(pager[d], file, jrnl) /\ Cached(pager[d])
      BY DEF PagerInv
    <2>3. pager[d] \in Pagers /\ fileLock[d] \in NO..EXCLUSIVE /\ pager[d].op = "none"
      BY DEF PagerInv, PagerTypes, Undisturbed
    <2>4. Sizes(pager[d], file', jrnl')
      BY <2>2, <2>3, Unaffected
    <2> QED
      BY <2>1, <2>2, <2>4
  <1>4. \A d \in Conn : Calls(pager'[d], fileLock'[d]) /\ Sizes(pager'[d], file', jrnl') /\ Cached(pager'[d])
    BY <1>3
  <1> QED
    BY <1>2, <1>4 DEF PagerInv

(* The facts about the connection that is called. *)
LEMMA Facts ==
    ASSUME PagerInv, NEW c \in Conn
    PROVE  /\ pager[c] \in Pagers /\ fileLock[c] \in NO..EXCLUSIVE
           /\ LockTypes /\ LockTable
           /\ file \in Files
           /\ jrnl \in Seq(Segments) /\ Journal(jrnl)
           /\ Calls(pager[c], fileLock[c]) /\ Sizes(pager[c], file, jrnl) /\ Cached(pager[c])
  BY DEF PagerInv, PagerTypes, LockTypes, Files

LEMMA Called ==
    ASSUME PagerInv, NEW c \in Conn, NEW new, pager' = [pager EXCEPT ![c] = new]
    PROVE  pager'[c] = new /\ pager' = [pager EXCEPT ![c] = pager'[c]]
  BY DEF PagerInv, PagerTypes

(* A lock above SHARED keeps the others from it, an EXCLUSIVE one from any. *)
LEMMA Above ==
    ASSUME LockTypes, LockTable, NEW c \in Conn
    PROVE  /\ fileLock[c] > SHARED => \A d \in Conn \ {c} : fileLock[d] <= SHARED
           /\ fileLock[c] = EXCLUSIVE => \A d \in Conn \ {c} : fileLock[d] = NO
  BY DEF LockTable

LEMMA NoneAbove ==
    ASSUME LockTypes, LockTable, inode.eFileLock <= SHARED
    PROVE  \A d \in Conn : fileLock[d] <= SHARED
  <1> SUFFICES ASSUME NEW d \in Conn, fileLock[d] > SHARED PROVE FALSE
    BY DEF LockTypes
  <1> QED
    BY DEF LockTypes, LockTable

(* Who is granted EXCLUSIVE has its file's lock raised and the others out. *)
LEMMA RaisedToExclusive ==
    ASSUME PagerInv, NEW c \in Conn, pager[c].eLock >= SHARED, ExclusiveFree(c), Raise(c, EXCLUSIVE)
    PROVE  /\ LockTypes' /\ LockTable' /\ fileLock'[c] = EXCLUSIVE
           /\ \A d \in Conn \ {c} : fileLock[d] = NO /\ fileLock'[d] = fileLock[d]
  <1>1. LockTypes /\ LockTable /\ Calls(pager[c], fileLock[c]) /\ pager[c] \in Pagers
    BY Facts
  <1>2. fileLock[c] # NO
    BY <1>1 DEF Calls, Pagers
  <1>3. \A d \in Conn \ {c} : fileLock[d] = NO
    <2>1. CASE pager[c].eLock = EXCLUSIVE
      BY <1>1, <2>1, Above DEF Calls
    <2>2. CASE inode.nShared <= 1
      BY <1>1, <1>2, <2>2, AloneInCount
    <2> QED
      BY <2>1, <2>2 DEF ExclusiveFree
  <1>4. LockTypes' /\ LockTable'
    BY <1>1, <1>2, <1>3, RaiseOK
  <1> QED
    BY <1>1, <1>3, <1>4 DEF Raise, LockTypes

(* Who is refused EXCLUSIVE is left with PENDING. *)
LEMMA RaisedToPending ==
    ASSUME PagerInv, NEW c \in Conn, pager[c].eLock >= RESERVED, ExclusiveBusy(c), Raise(c, PENDING)
    PROVE  /\ LockTypes' /\ LockTable' /\ fileLock'[c] = PENDING /\ pager[c].eLock = RESERVED
           /\ \A d \in Conn \ {c} : fileLock[d] <= SHARED /\ fileLock'[d] = fileLock[d]
  <1>1. LockTypes /\ LockTable /\ Calls(pager[c], fileLock[c]) /\ pager[c] \in Pagers
    BY Facts
  <1>2. fileLock[c] > SHARED /\ pager[c].eLock = RESERVED
    BY <1>1 DEF Calls, Pagers, ExclusiveBusy
  <1>3. \A d \in Conn \ {c} : fileLock[d] <= SHARED
    BY <1>1, <1>2, Above
  <1>4. LockTypes' /\ LockTable'
    <2>1. fileLock[c] # NO /\ PENDING \in SHARED..EXCLUSIVE /\ PENDING # EXCLUSIVE
      BY <1>2
    <2> QED
      BY <1>1, <1>3, <2>1, RaiseOK
  <1> QED
    BY <1>1, <1>2, <1>3, <1>4 DEF Raise, LockTypes

(* RESERVED, for the first time or again *)
LEMMA RaisedToReserved ==
    ASSUME PagerInv, NEW c \in Conn, pager[c].eLock >= SHARED, ReservedFree(c)
    PROVE  /\ fileLock[c] # NO
           /\ \A d \in Conn \ {c} : fileLock[d] <= SHARED
           /\ pager[c].eLock < RESERVED => inode.eFileLock <= SHARED
  <1>1. LockTypes /\ LockTable /\ Calls(pager[c], fileLock[c]) /\ pager[c] \in Pagers
    BY Facts
  <1>2. CASE pager[c].eLock >= RESERVED
    <2>1. fileLock[c] > SHARED
      BY <1>1, <1>2 DEF Calls, Pagers
    <2>2. \A d \in Conn \ {c} : fileLock[d] <= SHARED
      BY <1>1, <2>1, Above
    <2>3. fileLock[c] # NO /\ ~(pager[c].eLock < RESERVED)
      BY <1>1, <1>2, <2>1 DEF Pagers, LockTypes
    <2> QED
      BY <2>2, <2>3
  <1>3. CASE ~(pager[c].eLock >= RESERVED)
    <2>1. fileLock[c] = inode.eFileLock /\ fileLock[c] = SHARED
      BY <1>1, <1>3 DEF Calls, Pagers, ReservedFree, Refused, LockTypes
    <2>2. \A d \in Conn : fileLock[d] <= SHARED
      BY <1>1, <2>1 DEF LockTable, LockTypes
    <2> QED
      BY <2>1, <2>2, <1>3
  <1> QED
    BY <1>2, <1>3

(* Release and Downgrade, as OneCall needs them *)
LEMMA Released ==
    ASSUME PagerInv, NEW c \in Conn, pager[c].eLock >= SHARED, Release(c)
    PROVE  /\ LockTypes' /\ LockTable' /\ fileLock'[c] = NO
           /\ \A d \in Conn \ {c} : fileLock'[d] = fileLock[d]
  <1>1. LockTypes /\ LockTable /\ Calls(pager[c], fileLock[c]) /\ pager[c] \in Pagers
    BY Facts
  <1>2. fileLock[c] # NO
    BY <1>1 DEF Calls, Pagers
  <1> QED
    BY <1>1, <1>2, ReleaseOK DEF LockTypes

LEMMA Downgraded ==
    ASSUME PagerInv, NEW c \in Conn, pager[c].eLock >= SHARED, Downgrade(c)
    PROVE  /\ LockTypes' /\ LockTable' /\ fileLock'[c] = SHARED
           /\ \A d \in Conn \ {c} : fileLock'[d] = fileLock[d]
  <1>1. LockTypes /\ LockTable /\ Calls(pager[c], fileLock[c]) /\ pager[c] \in Pagers
    BY Facts
  <1>2. fileLock[c] # NO
    BY <1>1 DEF Calls, Pagers
  <1> QED
    BY <1>1, <1>2, DowngradeOK

LEMMA SameLocks ==
    ASSUME PagerInv, UNCHANGED <<inode, fileLock>>
    PROVE  LockTypes' /\ LockTable'
  BY DEF PagerInv, PagerTypes, LockTypes, LockTable, Holders

---------------------------------------------------------------------------
(* Reading *)

LEMMA NoCacheType == NoCache \in Cache
  BY DEF NoCache, Cache

LEMMA NewPagerOK ==
    /\ NewPager \in Pagers
    /\ NewPager.eState = OPEN /\ NewPager.eLock = NO /\ NewPager.op = "none" /\ ~NewPager.changeCountDone
    /\ NewPager.dirty = {}
  BY DEF NewPager, NoCache, Pagers, Page

(* The end of sqlite3PagerSharedLock leaves a reader that knows the size of the file. *)
LEMMA OpenedOK ==
    ASSUME NEW P \in Pagers, file \in Files
    PROVE  /\ Opened(P) \in Pagers
           /\ Opened(P).eState = READER /\ Opened(P).eLock = SHARED /\ Opened(P).op = "none"
           /\ Opened(P).dbSize = file.size /\ Opened(P).cache[1] # NoPage
           /\ Opened(P).changeCountDone = P.changeCountDone /\ Opened(P).dirty = P.dirty
  <1> DEFINE cache == IF P.held /\ P.dbFileVers # FileVers THEN NoCache ELSE P.cache
             fetched == IF cache[1] = NoPage THEN [cache EXCEPT ![1] = file.page[1]] ELSE cache
             vers == IF cache[1] = NoPage /\ file.size > 0 THEN file.page[1] ELSE P.dbFileVers
  <1>1. 1 \in Page /\ READER \in OPEN..ERROR /\ file.size \in 0..MaxPage /\ file.page[1] \in Nat
    BY DEF Page, Files
  <1>2. cache \in Cache /\ vers \in Nat
    BY <1>1, NoCacheType DEF Pagers, Cache
  <1>3. fetched \in Cache /\ fetched[1] # NoPage
    BY <1>1, <1>2 DEF Cache
  <1>4. Opened(P) = [P EXCEPT !.eState = READER, !.eLock = SHARED, !.held = TRUE, !.op = "none", !.dbSize = file.size,
                              !.cache = fetched, !.dbFileVers = vers]
    BY DEF Opened
  <1> HIDE DEF cache, fetched, vers
  <1>5. Opened(P) \in Pagers
    BY <1>1, <1>2, <1>3, <1>4, OpenedFields
  <1>6. /\ Opened(P).eState = READER /\ Opened(P).eLock = SHARED /\ Opened(P).op = "none"
        /\ Opened(P).dbSize = file.size /\ Opened(P).cache = fetched
        /\ Opened(P).changeCountDone = P.changeCountDone /\ Opened(P).dirty = P.dirty
    BY <1>4 DEF Pagers
  <1> QED
    BY <1>3, <1>5, <1>6

LEMMA UnlockedOK ==
    ASSUME NEW P \in Pagers
    PROVE  /\ Unlocked(P) \in Pagers
           /\ Unlocked(P).eState = OPEN /\ Unlocked(P).eLock = NO /\ Unlocked(P).op = "none"
           /\ ~Unlocked(P).changeCountDone /\ Unlocked(P).dirty = {}
  <1> DEFINE cache == IF P.eState = ERROR THEN NoCache ELSE P.cache
  <1>1. cache \in Cache /\ P.held \in BOOLEAN /\ P.dbFileVers \in Nat
    BY NoCacheType DEF Cache, Pagers
  <1>2. Unlocked(P) = [NewPager EXCEPT !.held = P.held, !.dbFileVers = P.dbFileVers, !.cache = cache]
    BY DEF Unlocked
  <1> HIDE DEF cache
  <1>3. Unlocked(P) \in Pagers
    BY <1>1, <1>2, NewPagerOK, UnlockedFields
  <1>4. /\ Unlocked(P).eState = NewPager.eState /\ Unlocked(P).eLock = NewPager.eLock
        /\ Unlocked(P).op = NewPager.op /\ Unlocked(P).changeCountDone = NewPager.changeCountDone
        /\ Unlocked(P).dirty = NewPager.dirty
    BY <1>2, NewPagerOK DEF Pagers
  <1> QED
    BY <1>3, <1>4, NewPagerOK

(* A pager that is closed for business satisfies everything. *)
LEMMA Unlocking ==
    ASSUME NEW P \in Pagers, P.eState = OPEN, P.eLock = NO, P.op = "none", ~P.changeCountDone,
           P.dirty = {}, NEW f, NEW j
    PROVE  Calls(P, NO) /\ Sizes(P, f, j) /\ Cached(P)
  BY DEF Calls, Sizes, Cached

(* So does a reader without dirty pages. *)
LEMMA Readers ==
    ASSUME NEW P \in Pagers, P.eState = READER, P.eLock = SHARED, P.op = "none", ~P.changeCountDone,
           P.dirty = {}, NEW f, P.dbSize = f.size, P.cache[1] # NoPage, NEW j
    PROVE  Calls(P, SHARED) /\ Sizes(P, f, j) /\ Cached(P)
  BY DEF Calls, Sizes, Cached

LEMMA SharedLockStep ==
    ASSUME PagerInv, NEW c \in Conn, Undisturbed(c), SharedLock(c)
    PROVE  PagerInv'
  <1> DEFINE P == pager[c]
  <1>1. /\ P \in Pagers /\ LockTypes /\ LockTable /\ Calls(P, fileLock[c]) /\ Cached(P)
        /\ file \in Files /\ jrnl \in Seq(Segments) /\ Journal(jrnl)
    BY Facts
  <1>2. fileLock[c] = NO /\ ~P.changeCountDone /\ P.dirty = {}
    BY <1>1 DEF Calls, Pagers, SharedLock, Cached
  <1>3. LockTypes' /\ LockTable' /\ fileLock' = [fileLock EXCEPT ![c] = SHARED]
    BY <1>1, <1>2, TakeSharedOK DEF SharedLock
  <1>4. pager' = [pager EXCEPT ![c] = pager'[c]] /\ pager'[c] = Opened(P)
    BY DEF SharedLock, PagerInv, PagerTypes
  <1>5. jrnl' = jrnl \/ (jrnl' = << >> /\ inode.eFileLock <= SHARED)
    BY DEF SharedLock
  <1>6. jrnl' \in Seq(Segments) /\ Journal(jrnl')
    <2>1. << >> \in Seq(Segments) /\ Journal(<< >>)
      BY DEF Journal
    <2> QED
      BY <1>1, <1>5, <2>1
  <1>7. jrnl' = jrnl \/ \A d \in Conn \ {c} : fileLock[d] <= SHARED
    BY <1>1, <1>5, NoneAbove
  <1>8. file' = file
    BY DEF SharedLock
  <1>9. pager'[c] \in Pagers /\ Calls(pager'[c], SHARED) /\ Sizes(pager'[c], file', jrnl') /\ Cached(pager'[c])
    <2>1. /\ pager'[c] \in Pagers /\ pager'[c].eState = READER /\ pager'[c].eLock = SHARED /\ pager'[c].op = "none"
          /\ pager'[c].dbSize = file'.size /\ pager'[c].cache[1] # NoPage /\ ~pager'[c].changeCountDone
          /\ pager'[c].dirty = {}
      BY <1>1, <1>2, <1>4, <1>8, OpenedOK
    <2> QED
      BY <2>1, Readers
  <1>10. fileLock'[c] = SHARED /\ \A d \in Conn \ {c} : fileLock'[d] = fileLock[d]
    BY <1>3, <1>1 DEF LockTypes
  <1> QED
    BY <1>1, <1>3, <1>4, <1>6, <1>7, <1>8, <1>9, <1>10, OneCall

LEMMA EndReadStep ==
    ASSUME PagerInv, NEW c \in Conn, Undisturbed(c), EndRead(c)
    PROVE  PagerInv'
  <1> DEFINE P == pager[c]
  <1>1. /\ P \in Pagers /\ Calls(P, fileLock[c])
        /\ file \in Files /\ jrnl \in Seq(Segments) /\ Journal(jrnl)
    BY Facts
  <1>2. LockTypes' /\ LockTable' /\ fileLock'[c] = NO /\ \A d \in Conn \ {c} : fileLock'[d] = fileLock[d]
    BY <1>1, Released DEF EndRead, Calls
  <1>3. pager' = [pager EXCEPT ![c] = pager'[c]] /\ pager'[c] = Unlocked(P)
    BY DEF EndRead, PagerInv, PagerTypes
  <1>4. file' = file /\ jrnl' = jrnl
    BY DEF EndRead
  <1>5. pager'[c] \in Pagers /\ Calls(pager'[c], NO) /\ Sizes(pager'[c], file', jrnl') /\ Cached(pager'[c])
    BY <1>1, <1>3, UnlockedOK, Unlocking
  <1> QED
    BY <1>1, <1>2, <1>3, <1>4, <1>5, OneCall

LEMMA CloseStep ==
    ASSUME PagerInv, NEW c \in Conn, Undisturbed(c), Close(c)
    PROVE  PagerInv'
  <1>1. /\ LockTypes /\ LockTable /\ Calls(pager[c], fileLock[c]) /\ pager[c] \in Pagers
        /\ file \in Files /\ jrnl \in Seq(Segments) /\ Journal(jrnl)
    BY Facts
  <1>2. UNCHANGED <<file, jrnl, inode, fileLock>> /\ fileLock[c] = NO
    BY <1>1 DEF Close, Calls, Pagers
  <1>3. pager' = [pager EXCEPT ![c] = pager'[c]] /\ pager'[c] = NewPager
    BY DEF Close, PagerInv, PagerTypes
  <1>4. pager'[c] \in Pagers /\ Calls(pager'[c], NO) /\ Sizes(pager'[c], file', jrnl') /\ Cached(pager'[c])
    BY <1>3, NewPagerOK, Unlocking
  <1>5. LockTypes' /\ LockTable'
    BY <1>2, SameLocks
  <1> QED
    BY <1>1, <1>2, <1>3, <1>4, <1>5, OneCall

(* The connection that recovers the database has an EXCLUSIVE lock from the start. *)
LEMMA BeginHotRollbackStep ==
    ASSUME PagerInv, NEW c \in Conn, Undisturbed(c), BeginHotRollback(c)
    PROVE  PagerInv'
  <1> DEFINE P == pager[c]
             Q == pager'[c]
  <1>1. /\ P \in Pagers /\ LockTypes /\ LockTable /\ Calls(P, fileLock[c]) /\ Cached(P)
        /\ file \in Files /\ jrnl \in Seq(Segments) /\ Journal(jrnl)
    BY Facts
  <1>2. /\ P.eState = OPEN /\ ~P.changeCountDone
        /\ jrnl # << >> /\ jrnl[1].orig \in 0..MaxPage
    <2>1. P.eState = OPEN /\ P.op = "none" /\ jrnl # << >>
      BY DEF BeginHotRollback, HotJournal
    <2>2. jrnl[1] \in Segments
      BY <1>1, <2>1
    <2>3. ~P.changeCountDone
      BY <1>1, <2>1, ClosedHasNoLock DEF LockTypes
    <2> QED
      BY <2>1, <2>2, <2>3 DEF Segments
  <1>3. \A d \in Conn : fileLock[d] = NO
    BY <1>1, NobodyHolds DEF BeginHotRollback
  <1>4. /\ fileLock' = [fileLock EXCEPT ![c] = EXCLUSIVE]
        /\ inode'.eFileLock = EXCLUSIVE /\ inode'.nShared = 1 /\ LockTypes'
    BY <1>1 DEF BeginHotRollback, LockTypes
  <1>5. \A d \in Conn : fileLock'[d] = IF d = c THEN EXCLUSIVE ELSE NO
    BY <1>1, <1>3, <1>4 DEF LockTypes
  <1>6. LockTable'
    <2>1. Cardinality(Holders') = Cardinality(Holders) + 1
      BY <1>1, <1>3, <1>4, <1>5, Joins DEF LockTypes
    <2>2. Cardinality(Holders) = 0
      BY <1>1 DEF LockTable, BeginHotRollback
    <2> QED
      BY <1>4, <1>5, <2>1, <2>2 DEF LockTable
  <1>7. file' \in Files /\ file'.size = jrnl[1].orig /\ jrnl' = jrnl
    BY <1>1, <1>2, TruncatedType DEF BeginHotRollback
  <1> DEFINE cache == IF Playable(0) = {} THEN P.cache ELSE NoCache
             todo == Playable(0)
             n == jrnl[1].orig
  <1>8. cache \in Cache /\ todo \in SUBSET (Nat \X Nat) /\ n \in 0..MaxPage
    BY <1>1, <1>2, NoCacheType, PlayableType DEF Pagers, Cache
  <1>9. /\ Q = [P EXCEPT !.eLock = EXCLUSIVE, !.op = "hot", !.todo = todo, !.dbSize = n, !.cache = cache]
        /\ pager' = [pager EXCEPT ![c] = Q]
    <2>1. pager' = [pager EXCEPT ![c] = [P EXCEPT !.eLock = EXCLUSIVE, !.op = "hot", !.todo = todo, !.dbSize = n,
                                                  !.cache = cache]]
      BY Zenon DEF BeginHotRollback
    <2> QED
      BY Zenon, <2>1, Called
  <1> HIDE DEF cache, todo, n, Q
  <1>10. Q \in Pagers
    BY <1>1, <1>8, <1>9, HotFields
  <1>11. /\ Q.eState = OPEN /\ Q.eLock = EXCLUSIVE /\ Q.op = "hot" /\ ~Q.changeCountDone
         /\ Q.dbSize = jrnl[1].orig /\ Q.todo = Playable(0) /\ Q.dirty = P.dirty
    <2>1. Q.eState = P.eState /\ Q.changeCountDone = P.changeCountDone /\ Q.dirty = P.dirty
      BY <1>1, <1>9 DEF Pagers
    <2>2. Q.eLock = EXCLUSIVE /\ Q.op = "hot" /\ Q.dbSize = n /\ Q.todo = todo
      BY <1>1, <1>9 DEF Pagers
    <2> QED
      BY <1>2, <2>1, <2>2 DEF n, todo
  <1>12. \A r \in Playable(0) : r[1] \in DOMAIN jrnl /\ r[2] \in DOMAIN jrnl[r[1]].recs
    BY <1>1, PlayableType
  <1>13. Calls(Q, EXCLUSIVE) /\ Sizes(Q, file', jrnl') /\ Cached(Q)
    <2>1. Calls(Q, EXCLUSIVE)
      BY <1>11 DEF Calls
    <2>2. Sizes(Q, file', jrnl')
      BY <1>2, <1>7, <1>11, <1>12 DEF Sizes
    <2>3. Cached(Q)
      BY <1>1, <1>2, <1>11 DEF Cached
    <2> QED
      BY <2>1, <2>2, <2>3
  <1> QED
    BY <1>1, <1>3, <1>4, <1>5, <1>6, <1>7, <1>9, <1>10, <1>13, OneCall DEF Q

(* A record goes back to the file only under an EXCLUSIVE lock, and never beyond the size that is restored. *)
LEMMA PlayRecordStep ==
    ASSUME PagerInv, NEW c \in Conn, Undisturbed(c), NEW r \in pager[c].todo, PlayRecord(c, r)
    PROVE  PagerInv'
  <1> DEFINE P == pager[c]
             Q == pager'[c]
             rec == jrnl[r[1]].recs[r[2]]
  <1>1. /\ P \in Pagers /\ LockTypes /\ LockTable /\ Calls(P, fileLock[c]) /\ Cached(P) /\ Sizes(P, file, jrnl)
        /\ file \in Files /\ jrnl \in Seq(Segments) /\ Journal(jrnl)
    BY Facts
  <1>2. P.op \in {"hot", "rollback"} /\ UNCHANGED <<jrnl, inode, fileLock>>
    BY DEF PlayRecord
  <1>3. r[1] \in DOMAIN jrnl /\ r[2] \in DOMAIN jrnl[r[1]].recs /\ P.dbSize = file.size /\ P.dbSize = jrnl[1].orig
    BY <1>1, <1>2 DEF Sizes
  <1>4. rec \in [page : Page, val : Nat] /\ rec.page <= file.size
    <2>1. jrnl[r[1]] \in Segments
      BY <1>1, <1>3
    <2>2. jrnl[r[1]].recs \in Seq([page : Page, val : Nat])
      BY <2>1 DEF Segments
    <2>3. rec \in [page : Page, val : Nat]
      BY <1>3, <2>2, SeqElement
    <2> QED
      BY <1>1, <1>3, <2>3 DEF Journal
  <1>5. file' \in Files /\ file'.size = file.size
    <2>1. rec.page \in Page /\ rec.val \in Nat
      BY <1>4
    <2>2. Written(file, rec.page, rec.val) \in Files
      BY <1>1, <2>1, WrittenType
    <2>3. Written(file, rec.page, rec.val).size = IF rec.page > file.size THEN rec.page ELSE file.size
      BY <1>1, <2>1, WrittenType
    <2>4. ~(rec.page > file.size)
      BY <1>1, <1>4, <2>1 DEF Page, Files
    <2>5. file' = file \/ file' = Written(file, rec.page, rec.val)
      BY DEF PlayRecord
    <2> QED
      BY <1>1, <2>2, <2>3, <2>4, <2>5
  <1>6. file' = file \/ \A d \in Conn \ {c} : fileLock[d] = NO
    <2>1. file' # file => P.op = "hot" \/ P.eState >= DBMOD
      BY DEF PlayRecord
    <2>2. file' # file => fileLock[c] = EXCLUSIVE
      BY <1>1, <1>2, <2>1 DEF Calls, Pagers
    <2> QED
      BY <1>1, <2>2, Above
  <1> DEFINE toCache == P.cache[rec.page] # NoPage
             cache == IF toCache THEN [P.cache EXCEPT ![rec.page] = rec.val] ELSE P.cache
             vers == IF toCache /\ rec.page = 1 THEN rec.val ELSE P.dbFileVers
             todo == P.todo \ {r}
  <1>7. cache \in Cache /\ vers \in Nat /\ todo \in SUBSET (Nat \X Nat) /\ (P.cache[1] # NoPage => cache[1] # NoPage)
    <2>1. P.cache \in Cache /\ P.dbFileVers \in Nat /\ P.todo \in SUBSET (Nat \X Nat)
      BY <1>1 DEF Pagers, Cache
    <2>2. rec.page \in Page /\ rec.val \in Nat
      BY <1>4
    <2> HIDE DEF rec, P
    <2> QED
      BY <2>1, <2>2 DEF Cache, Page
  <1>8. /\ Q = [P EXCEPT !.todo = todo, !.cache = cache, !.dbFileVers = vers]
        /\ pager' = [pager EXCEPT ![c] = Q]
    <2>1. pager' = [pager EXCEPT ![c] = Replayed(P, r)]
      BY DEF PlayRecord
    <2>2. Replayed(P, r) = [P EXCEPT !.todo = todo, !.cache = cache, !.dbFileVers = vers]
      BY DEF Replayed
    <2> QED
      BY <2>1, <2>2, Called
  <1>9. todo \subseteq P.todo
    OBVIOUS
  <1> HIDE DEF cache, vers, todo, Q
  <1>10. Q \in Pagers
    BY <1>1, <1>7, <1>8, PlayFields
  <1>11. /\ Q.eState = P.eState /\ Q.eLock = P.eLock /\ Q.op = P.op /\ Q.changeCountDone = P.changeCountDone
         /\ Q.dbSize = P.dbSize /\ Q.dbOrigSize = P.dbOrigSize /\ Q.todo = todo
         /\ Q.list = P.list /\ Q.dirty = P.dirty /\ Q.cache = cache
    BY <1>1, <1>8 DEF Pagers
  <1>13. Calls(Q, fileLock[c]) /\ Sizes(Q, file', jrnl') /\ Cached(Q)
    <2>1. Calls(Q, fileLock[c])
      BY <1>1, <1>11 DEF Calls
    <2>2. Sizes(Q, file', jrnl')
      BY <1>1, <1>2, <1>5, <1>9, <1>11 DEF Sizes
    <2>3. Cached(Q)
      BY <1>1, <1>2, <1>7, <1>11 DEF Cached, Calls
    <2> QED
      BY <2>1, <2>2, <2>3
  <1>14. LockTypes' /\ LockTable'
    BY <1>2, SameLocks
  <1> QED
    BY <1>1, <1>2, <1>5, <1>6, <1>8, <1>10, <1>13, <1>14, OneCall DEF Q

LEMMA EmptyJournal == << >> \in Seq(Segments) /\ Journal(<< >>)
  BY DEF Journal

LEMMA EndHotRollbackStep ==
    ASSUME PagerInv, NEW c \in Conn, Undisturbed(c), EndHotRollback(c)
    PROVE  PagerInv'
  <1> DEFINE P == pager[c]
             Q == pager'[c]
  <1>1. P \in Pagers /\ LockTypes /\ LockTable /\ Calls(P, fileLock[c]) /\ Cached(P) /\ file \in Files
    BY Facts
  <1>2. P.op = "hot" /\ jrnl' = << >> /\ file' = file
    BY DEF EndHotRollback
  <1>3. P.eLock = EXCLUSIVE /\ fileLock[c] = EXCLUSIVE /\ \A d \in Conn \ {c} : fileLock[d] = NO
    BY <1>1, <1>2, Above DEF Calls
  <1>4. \A d \in Conn \ {c} : fileLock[d] <= SHARED
    BY <1>3
  <1>5. /\ Opened(P) \in Pagers
        /\ Opened(P).eState = READER /\ Opened(P).eLock = SHARED /\ Opened(P).op = "none"
        /\ Opened(P).dbSize = file.size /\ Opened(P).cache[1] # NoPage
        /\ Opened(P).changeCountDone = P.changeCountDone /\ Opened(P).dirty = P.dirty
    BY <1>1, OpenedOK
  <1>6. CASE Accepted(Opened(P))
    <2>1. Downgrade(c) /\ pager' = [pager EXCEPT ![c] = Opened(P)]
      BY <1>6 DEF EndHotRollback
    <2>2. Q = Opened(P) /\ pager' = [pager EXCEPT ![c] = Q]
      BY <2>1, Called
    <2>3. LockTypes' /\ LockTable' /\ fileLock'[c] = SHARED /\ \A d \in Conn \ {c} : fileLock'[d] = fileLock[d]
      BY <1>3, <2>1, Downgraded
    <2>4. Q \in Pagers /\ Sizes(Q, file', jrnl') /\ Cached(Q)
      <3>1. Q.dirty = {}
        BY <1>1, <1>2, <1>5, <2>2 DEF Calls, Cached
      <3> QED
        BY <1>2, <1>5, <2>2, <3>1 DEF Sizes, Cached
    <2>5. Calls(Q, SHARED)
      <3>1. ~Q.changeCountDone
        BY <1>1, <1>2, <1>5, <2>2, HotIsUncounted
      <3> QED
        BY <1>5, <2>2, <3>1 DEF Calls
    <2> QED
      BY <1>1, <1>2, <1>4, <2>2, <2>3, <2>4, <2>5, EmptyJournal, OneCall
  <1>7. CASE ~Accepted(Opened(P))
    <2>1. Release(c) /\ pager' = [pager EXCEPT ![c] = Unlocked(Opened(P))]
      BY <1>7 DEF EndHotRollback
    <2>2. Q = Unlocked(Opened(P)) /\ pager' = [pager EXCEPT ![c] = Q]
      BY <2>1, Called
    <2>3. LockTypes' /\ LockTable' /\ fileLock'[c] = NO /\ \A d \in Conn \ {c} : fileLock'[d] = fileLock[d]
      BY <1>3, <2>1, Released
    <2>4. Q \in Pagers /\ Q.eState = OPEN /\ Q.eLock = NO /\ Q.op = "none" /\ ~Q.changeCountDone /\ Q.dirty = {}
      BY <1>5, <2>2, UnlockedOK
    <2>5. Calls(Q, NO) /\ Sizes(Q, file', jrnl') /\ Cached(Q)
      BY <2>4, Unlocking
    <2> QED
      BY <1>1, <1>2, <1>4, <2>2, <2>3, <2>4, <2>5, EmptyJournal, OneCall
  <1> QED
    BY <1>6, <1>7

LEMMA HotRollbackFailsStep ==
    ASSUME PagerInv, NEW c \in Conn, Undisturbed(c), HotRollbackFails(c)
    PROVE  PagerInv'
  <1> DEFINE P == pager[c]
             Q == pager'[c]
             E == [P EXCEPT !.eState = ERROR]
  <1>1. P \in Pagers /\ Calls(P, fileLock[c]) /\ file \in Files /\ jrnl \in Seq(Segments) /\ Journal(jrnl)
    BY Facts
  <1>2. P.op = "hot" /\ jrnl' = jrnl /\ file' = file /\ Release(c) /\ pager' = [pager EXCEPT ![c] = Unlocked(E)]
    BY DEF HotRollbackFails
  <1>3. P.eLock = EXCLUSIVE
    BY <1>1, <1>2 DEF Calls
  <1>4. Q = Unlocked(E) /\ pager' = [pager EXCEPT ![c] = Q]
    BY <1>2, Called
  <1>5. LockTypes' /\ LockTable' /\ fileLock'[c] = NO /\ \A d \in Conn \ {c} : fileLock'[d] = fileLock[d]
    BY <1>2, <1>3, Released
  <1>6. E \in Pagers
    <2>1. ERROR \in OPEN..ERROR
      OBVIOUS
    <2> QED
      BY <1>1, <2>1, StateField
  <1> HIDE DEF E
  <1>7. Q \in Pagers /\ Q.eState = OPEN /\ Q.eLock = NO /\ Q.op = "none" /\ ~Q.changeCountDone /\ Q.dirty = {}
    BY <1>4, <1>6, UnlockedOK
  <1>8. Calls(Q, NO) /\ Sizes(Q, file', jrnl') /\ Cached(Q)
    BY <1>7, Unlocking
  <1> QED
    BY <1>1, <1>2, <1>4, <1>5, <1>7, <1>8, OneCall

(* Only the cache of a pager changes. *)
LEMMA CacheStep ==
    ASSUME PagerInv, NEW c \in Conn, Undisturbed(c), NEW cache \in Cache,
           pager' = [pager EXCEPT ![c] = [pager[c] EXCEPT !.cache = cache]],
           UNCHANGED <<file, jrnl, inode, fileLock>>,
           \/ pager[c].eState = OPEN /\ pager[c].op = "none"
           \/ \A p \in Page : pager[c].cache[p] # NoPage => cache[p] # NoPage
    PROVE  PagerInv'
  <1> DEFINE P == pager[c]
             Q == pager'[c]
  <1>1. /\ P \in Pagers /\ Calls(P, fileLock[c]) /\ Sizes(P, file, jrnl) /\ Cached(P)
        /\ file \in Files /\ jrnl \in Seq(Segments) /\ Journal(jrnl)
    BY Facts
  <1>2. Q = [P EXCEPT !.cache = cache] /\ pager' = [pager EXCEPT ![c] = Q]
    BY Called
  <1>3. LockTypes' /\ LockTable'
    BY SameLocks
  <1> HIDE DEF Q
  <1>4. Q \in Pagers
    BY <1>1, <1>2, CacheField
  <1>5. /\ Q.eState = P.eState /\ Q.eLock = P.eLock /\ Q.op = P.op /\ Q.changeCountDone = P.changeCountDone
        /\ Q.dbSize = P.dbSize /\ Q.dbOrigSize = P.dbOrigSize /\ Q.todo = P.todo
        /\ Q.list = P.list /\ Q.dirty = P.dirty /\ Q.cache = cache
    BY <1>1, <1>2 DEF Pagers
  <1>6. Calls(Q, fileLock[c])
    BY <1>1, <1>5 DEF Calls
  <1>7. Sizes(Q, file, jrnl)
    BY <1>1, <1>5 DEF Sizes
  <1>8. Cached(Q)
    <2>1. 1 \in Page /\ P.dirty \subseteq Page
      BY <1>1 DEF Page, Pagers
    <2> QED
      BY <1>1, <1>5, <2>1 DEF Cached
  <1> QED
    BY <1>1, <1>2, <1>3, <1>4, <1>6, <1>7, <1>8, OneCall DEF Q

LEMMA FetchStep ==
    ASSUME PagerInv, NEW c \in Conn, Undisturbed(c), NEW p \in Page, Fetch(c, p)
    PROVE  PagerInv'
  <1> DEFINE cache == [pager[c].cache EXCEPT ![p] = file.page[p]]
  <1>1. pager[c] \in Pagers /\ file.page[p] \in Nat
    BY Facts DEF Files
  <1>2. pager[c].cache \in Cache
    BY <1>1 DEF Pagers, Cache
  <1>3. cache \in Cache /\ \A q \in Page : pager[c].cache[q] # NoPage => cache[q] # NoPage
    BY <1>1, <1>2 DEF Cache
  <1>4. pager' = [pager EXCEPT ![c] = [pager[c] EXCEPT !.cache = cache]] /\ UNCHANGED <<file, jrnl, inode, fileLock>>
    BY DEF Fetch
  <1> HIDE DEF cache
  <1> QED
    BY <1>3, <1>4, CacheStep

LEMMA RecycleStep ==
    ASSUME PagerInv, NEW c \in Conn, Undisturbed(c), Recycle(c)
    PROVE  PagerInv'
  <1> DEFINE cache == [pager[c].cache EXCEPT ![1] = NoPage]
  <1>1. pager[c].cache \in Cache
    BY Facts DEF Pagers, Cache
  <1>2. cache \in Cache
    BY <1>1 DEF Cache
  <1>3. /\ pager' = [pager EXCEPT ![c] = [pager[c] EXCEPT !.cache = cache]] /\ UNCHANGED <<file, jrnl, inode, fileLock>>
        /\ pager[c].eState = OPEN /\ pager[c].op = "none"
    BY DEF Recycle
  <1> HIDE DEF cache
  <1> QED
    BY <1>2, <1>3, CacheStep

---------------------------------------------------------------------------
(* Writing *)

(* The locks after a write transaction has begun *)
LEMMA BeginStep ==
    ASSUME PagerInv, NEW c \in Conn, Undisturbed(c), Begin(c)
    PROVE  PagerInv'
  <1> DEFINE P == pager[c]
             Q == pager'[c]
             lock == IF P.eLock < RESERVED THEN RESERVED ELSE P.eLock
  <1>1. /\ P \in Pagers /\ LockTypes /\ LockTable /\ Calls(P, fileLock[c]) /\ Sizes(P, file, jrnl) /\ Cached(P)
        /\ file \in Files /\ jrnl \in Seq(Segments) /\ Journal(jrnl)
    BY Facts
  <1>2. P.eState = READER /\ P.op = "none" /\ ReservedFree(c) /\ file' = file /\ jrnl' = jrnl
    BY DEF Begin
  <1>3. P.eLock >= SHARED
    BY <1>1, <1>2 DEF Calls
  <1>4. fileLock[c] # NO /\ \A d \in Conn \ {c} : fileLock[d] <= SHARED
    BY <1>2, <1>3, RaisedToReserved
  <1>5. /\ LockTypes' /\ LockTable' /\ \A d \in Conn \ {c} : fileLock'[d] = fileLock[d]
        /\ lock = fileLock'[c] \/ (lock = RESERVED /\ fileLock'[c] = PENDING)
    <2>1. CASE P.eLock < RESERVED
      <3>1. Raise(c, RESERVED)
        BY <2>1 DEF Begin
      <3>2. RESERVED \in SHARED..EXCLUSIVE /\ RESERVED # EXCLUSIVE
        OBVIOUS
      <3>3. LockTypes' /\ LockTable'
        BY <1>1, <1>4, <3>1, <3>2, RaiseOK
      <3> QED
        BY <1>1, <2>1, <3>1, <3>3 DEF Raise, LockTypes
    <2>2. CASE ~(P.eLock < RESERVED)
      <3>1. UNCHANGED <<inode, fileLock>>
        BY <2>2 DEF Begin
      <3> QED
        BY <1>1, <2>2, <3>1, SameLocks DEF Calls
    <2> QED
      BY <2>1, <2>2
  <1>6. lock \in Levels /\ WRITER_LOCKED \in OPEN..ERROR /\ P.dbSize \in 0..MaxPage /\ lock >= RESERVED
    BY <1>1 DEF Levels, Pagers
  <1>7. pager' = [pager EXCEPT ![c] = [P EXCEPT !.eState = WRITER_LOCKED, !.dbOrigSize = P.dbSize, !.eLock = lock]]
    BY DEF Begin
  <1>8. /\ Q = [P EXCEPT !.eState = WRITER_LOCKED, !.dbOrigSize = P.dbSize, !.eLock = lock]
        /\ pager' = [pager EXCEPT ![c] = Q]
    BY <1>7, Called
  <1> HIDE DEF lock, Q
  <1>9. Q \in Pagers
    BY <1>1, <1>6, <1>8, BeginFields
  <1>10. /\ Q.eState = WRITER_LOCKED /\ Q.eLock = lock /\ Q.op = P.op /\ Q.dirty = P.dirty /\ Q.cache = P.cache
         /\ Q.dbSize = P.dbSize /\ Q.dbOrigSize = P.dbSize
    BY <1>1, <1>8 DEF Pagers
  <1>11. Calls(Q, fileLock'[c])
    <2>1. Q.op = "none" /\ Q.eState = WRITER_LOCKED /\ Q.eLock >= SHARED /\ Q.eLock >= RESERVED
      BY <1>2, <1>6, <1>10 DEF Levels
    <2>2. Q.eLock = fileLock'[c] \/ (Q.eLock = RESERVED /\ fileLock'[c] = PENDING)
      BY <1>5, <1>10
    <2> QED
      BY <2>1, <2>2 DEF Calls
  <1>12. Sizes(Q, file', jrnl')
    BY <1>1, <1>2, <1>10 DEF Sizes
  <1>13. Cached(Q)
    BY <1>1, <1>2, <1>10 DEF Cached
  <1> QED
    BY <1>1, <1>2, <1>5, <1>8, <1>9, <1>11, <1>12, <1>13, OneCall DEF Q

LEMMA BeginExclusiveStep ==
    ASSUME PagerInv, NEW c \in Conn, Undisturbed(c), BeginExclusive(c)
    PROVE  PagerInv'
  <1> DEFINE P == pager[c]
             Q == pager'[c]
  <1>1. /\ P \in Pagers /\ LockTypes /\ LockTable /\ Calls(P, fileLock[c]) /\ Sizes(P, file, jrnl) /\ Cached(P)
        /\ file \in Files /\ jrnl \in Seq(Segments) /\ Journal(jrnl)
    BY Facts
  <1>2. P.eState = READER /\ P.op = "none" /\ ReservedFree(c) /\ file' = file /\ jrnl' = jrnl
    BY DEF BeginExclusive
  <1>3. P.eLock >= SHARED
    BY <1>1, <1>2 DEF Calls
  <1>4. fileLock[c] # NO /\ \A d \in Conn \ {c} : fileLock[d] <= SHARED
    BY <1>2, <1>3, RaisedToReserved
  <1>5. PENDING \in SHARED..EXCLUSIVE /\ PENDING # EXCLUSIVE /\ EXCLUSIVE \in SHARED..EXCLUSIVE /\ EXCLUSIVE \in Levels
        /\ WRITER_LOCKED \in OPEN..ERROR /\ P.dbSize \in 0..MaxPage
    BY <1>1 DEF Levels, Pagers
  <1>6. CASE inode.nShared = 1
    <2>1. /\ Raise(c, EXCLUSIVE)
          /\ pager' = [pager EXCEPT ![c] = [P EXCEPT !.eState = WRITER_LOCKED, !.dbOrigSize = P.dbSize,
                                                    !.eLock = EXCLUSIVE]]
      BY <1>6 DEF BeginExclusive
    <2>2. Q = [P EXCEPT !.eState = WRITER_LOCKED, !.dbOrigSize = P.dbSize, !.eLock = EXCLUSIVE]
          /\ pager' = [pager EXCEPT ![c] = Q]
      BY <2>1, Called
    <2>3. \A d \in Conn \ {c} : fileLock[d] = NO
      BY <1>1, <1>4, <1>6, AloneInCount
    <2>4. LockTypes' /\ LockTable'
      BY <1>1, <1>4, <1>5, <2>1, <2>3, RaiseOK
    <2>5. fileLock'[c] = EXCLUSIVE /\ \A d \in Conn \ {c} : fileLock'[d] = fileLock[d]
      BY <1>1, <2>1 DEF Raise, LockTypes
    <2> HIDE DEF Q
    <2>6. Q \in Pagers
      BY <1>1, <1>5, <2>2, BeginFields
    <2>7. /\ Q.eState = WRITER_LOCKED /\ Q.eLock = EXCLUSIVE /\ Q.op = P.op /\ Q.dirty = P.dirty
          /\ Q.cache = P.cache /\ Q.dbSize = P.dbSize /\ Q.dbOrigSize = P.dbSize
      BY <1>1, <2>2 DEF Pagers
    <2>8. Calls(Q, EXCLUSIVE)
      BY <1>2, <2>7 DEF Calls
    <2>9. Sizes(Q, file', jrnl') /\ Cached(Q)
      BY <1>1, <1>2, <2>7 DEF Sizes, Cached
    <2> QED
      BY <1>1, <1>2, <2>2, <2>4, <2>5, <2>6, <2>8, <2>9, OneCall DEF Q
  <1>7. CASE inode.nShared # 1
    <2>1. Raise(c, PENDING) /\ pager' = [pager EXCEPT ![c] = [P EXCEPT !.eLock = RESERVED]]
      BY <1>7 DEF BeginExclusive
    <2>2. Q = [P EXCEPT !.eLock = RESERVED] /\ pager' = [pager EXCEPT ![c] = Q]
      BY <2>1, Called
    <2>3. LockTypes' /\ LockTable'
      BY <1>1, <1>4, <1>5, <2>1, RaiseOK
    <2>4. fileLock'[c] = PENDING /\ \A d \in Conn \ {c} : fileLock'[d] = fileLock[d]
      BY <1>1, <2>1 DEF Raise, LockTypes
    <2> HIDE DEF Q
    <2>5. Q \in Pagers
      BY <1>1, <2>2, LockField
    <2>6. /\ Q.eState = P.eState /\ Q.eLock = RESERVED /\ Q.op = P.op /\ Q.dirty = P.dirty
          /\ Q.cache = P.cache /\ Q.dbSize = P.dbSize /\ Q.dbOrigSize = P.dbOrigSize
      BY <1>1, <2>2 DEF Pagers
    <2>7. Calls(Q, PENDING)
      BY <1>2, <2>6 DEF Calls
    <2>8. Sizes(Q, file', jrnl') /\ Cached(Q)
      BY <1>1, <1>2, <2>6 DEF Sizes, Cached
    <2> QED
      BY <1>1, <1>2, <2>2, <2>3, <2>4, <2>5, <2>7, <2>8, OneCall DEF Q
  <1> QED
    BY <1>6, <1>7

(* The end of a transaction leaves a reader with a clean cache. *)
LEMMA EndedOK ==
    ASSUME NEW P \in Pagers
    PROVE  /\ Ended(P) \in Pagers
           /\ Ended(P).eState = READER /\ Ended(P).eLock = SHARED /\ Ended(P).op = "none"
           /\ Ended(P).dbSize = P.dbSize /\ Ended(P).dirty = {} /\ ~Ended(P).changeCountDone
           /\ P.cache[1] # NoPage => Ended(P).cache[1] # NoPage
  <1> DEFINE cache == [p \in Page |-> IF p <= P.dbSize THEN P.cache[p] ELSE IF p = 1 THEN 0 ELSE NoPage]
  <1>1. P.cache \in Cache /\ 1 \in Page /\ READER \in OPEN..ERROR /\ 0 \in Nat /\ 0 \in 0..MaxPage
    BY DEF Pagers, Cache, Page
  <1>2. cache \in Cache /\ (P.cache[1] # NoPage => cache[1] # NoPage)
    BY <1>1 DEF Cache
  <1>3. Ended(P) = [P EXCEPT !.eState = READER, !.eLock = SHARED, !.op = "none", !.todo = {}, !.dirty = {},
                             !.needSync = {}, !.changeCountDone = FALSE, !.inJournal = {}, !.hdr = 0,
                             !.dbOrigSize = 0, !.cache = cache]
    BY DEF Ended
  <1> HIDE DEF cache
  <1>4. Ended(P) \in Pagers
    BY <1>1, <1>2, <1>3, EndedFields
  <1>5. /\ Ended(P).eState = READER /\ Ended(P).eLock = SHARED /\ Ended(P).op = "none"
        /\ Ended(P).dbSize = P.dbSize /\ Ended(P).dirty = {} /\ Ended(P).cache = cache
    BY <1>3 DEF Pagers
  <1>6. ~Ended(P).changeCountDone
    BY <1>3 DEF Pagers
  <1> QED
    BY <1>2, <1>4, <1>5, <1>6

LEMMA EndUnchangedStep ==
    ASSUME PagerInv, NEW c \in Conn, Undisturbed(c), EndUnchanged(c)
    PROVE  PagerInv'
  <1> DEFINE P == pager[c]
             Q == pager'[c]
  <1>1. /\ P \in Pagers /\ Calls(P, fileLock[c]) /\ Sizes(P, file, jrnl) /\ Cached(P)
        /\ file \in Files /\ jrnl \in Seq(Segments) /\ Journal(jrnl)
    BY Facts
  <1>2. /\ P.eState = WRITER_LOCKED /\ Downgrade(c) /\ file' = file /\ jrnl' = jrnl
        /\ pager' = [pager EXCEPT ![c] = Ended(P)]
    BY DEF EndUnchanged
  <1>3. Q = Ended(P) /\ pager' = [pager EXCEPT ![c] = Q]
    BY <1>2, Called
  <1>4. P.eLock >= SHARED /\ P.cache[1] # NoPage /\ P.dbSize = file.size
    BY <1>1, <1>2 DEF Calls, Cached, Sizes
  <1>5. LockTypes' /\ LockTable' /\ fileLock'[c] = SHARED /\ \A d \in Conn \ {c} : fileLock'[d] = fileLock[d]
    BY <1>2, <1>4, Downgraded
  <1>6. /\ Q \in Pagers /\ Q.eState = READER /\ Q.eLock = SHARED /\ Q.op = "none"
        /\ Q.dbSize = file'.size /\ Q.dirty = {} /\ ~Q.changeCountDone /\ Q.cache[1] # NoPage
    BY <1>1, <1>2, <1>3, <1>4, EndedOK
  <1>7. Calls(Q, SHARED) /\ Sizes(Q, file', jrnl') /\ Cached(Q)
    BY <1>6, Readers
  <1> QED
    BY <1>1, <1>2, <1>3, <1>5, <1>6, <1>7, OneCall

(* A writer holds RESERVED or more, and its journal, if it has one, restores the size at the start. *)
LEMMA WriterFacts ==
    ASSUME PagerInv, NEW c \in Conn, Writer(c)
    PROVE  /\ pager[c].op = "none" /\ pager[c].eState \in {WRITER_LOCKED, CACHEMOD, DBMOD}
           /\ pager[c].eLock >= RESERVED /\ fileLock[c] > SHARED
           /\ \A d \in Conn \ {c} : fileLock[d] <= SHARED
           /\ pager[c].cache[1] # NoPage
           /\ pager[c].eState # WRITER_LOCKED => jrnl # << >> /\ jrnl[1].orig = pager[c].dbOrigSize
  <1>1. /\ pager[c] \in Pagers /\ LockTypes /\ LockTable /\ Calls(pager[c], fileLock[c])
        /\ Sizes(pager[c], file, jrnl) /\ Cached(pager[c])
    BY Facts
  <1>2. pager[c].op = "none" /\ pager[c].eState \in {WRITER_LOCKED, CACHEMOD, DBMOD}
    BY DEF Writer
  <1>3. pager[c].eLock >= RESERVED /\ fileLock[c] > SHARED
    BY <1>1, <1>2 DEF Calls, Pagers
  <1>4. \A d \in Conn \ {c} : fileLock[d] <= SHARED
    BY <1>1, <1>3, Above
  <1>5. pager[c].cache[1] # NoPage
    BY <1>1, <1>2 DEF Cached
  <1>6. pager[c].eState # WRITER_LOCKED => jrnl # << >> /\ jrnl[1].orig = pager[c].dbOrigSize
    BY <1>1, <1>2 DEF Sizes
  <1> QED
    BY <1>2, <1>3, <1>4, <1>5, <1>6

LEMMA WriteStep ==
    ASSUME PagerInv, NEW c \in Conn, Undisturbed(c), NEW p \in Page, NEW v \in Input, Write(c, p, v)
    PROVE  PagerInv'
  <1> DEFINE P == pager[c]
             Q == pager'[c]
             old == IF P.cache[p] # NoPage THEN P.cache[p] ELSE file.page[p]
             first == P.eState = WRITER_LOCKED
             open == IF first THEN << NewSegment(P.dbSize) >> ELSE jrnl
             journal == p <= P.dbOrigSize /\ p \notin P.inJournal
             state == IF first THEN CACHEMOD ELSE P.eState
             h == IF first THEN 1 ELSE P.hdr
             cache == [P.cache EXCEPT ![p] = IF p = 1 THEN old ELSE v]
             dirty == P.dirty \cup {p}
             n == IF p > P.dbSize THEN p ELSE P.dbSize
             inJ == IF journal THEN P.inJournal \cup {p} ELSE P.inJournal
             sync == IF journal \/ (p > P.dbOrigSize /\ P.eState # DBMOD) THEN P.needSync \cup {p} ELSE P.needSync
  <1>1. /\ P \in Pagers /\ LockTypes /\ LockTable /\ Calls(P, fileLock[c]) /\ Sizes(P, file, jrnl) /\ Cached(P)
        /\ file \in Files /\ jrnl \in Seq(Segments) /\ Journal(jrnl)
    BY Facts
  <1>2. /\ P.op = "none" /\ P.eState \in {WRITER_LOCKED, CACHEMOD, DBMOD}
        /\ P.eLock >= RESERVED /\ \A d \in Conn \ {c} : fileLock[d] <= SHARED
        /\ P.cache[1] # NoPage /\ (~first => jrnl # << >> /\ jrnl[1].orig = P.dbOrigSize)
    BY WriterFacts DEF Write
  <1>3. UNCHANGED <<file, inode, fileLock>> /\ LockTypes' /\ LockTable'
    BY SameLocks DEF Write
  <1>4. /\ old \in Nat /\ v \in Nat /\ p \in Nat /\ p # 0 /\ 1 \in Page
        /\ P.dbSize \in 0..MaxPage /\ P.dbOrigSize \in 0..MaxPage
    BY <1>1 DEF Pagers, Files, Page
  <1>5. open \in Seq(Segments) /\ open # << >> /\ Journal(open) /\ open[1].orig = P.dbOrigSize
    <2>1. CASE first
      <3>1. P.dbSize = P.dbOrigSize
        BY <1>1, <2>1 DEF Sizes
      <3>2. open = Append(<< >>, NewSegment(P.dbSize))
        BY <2>1
      <3> HIDE DEF open
      <3> QED
        BY <1>4, <3>1, <3>2, EmptyJournal, NewSegmentType
    <2>2. CASE ~first
      BY <1>1, <1>2, <2>2
    <2> QED
      BY <2>1, <2>2
  <1>6. jrnl' = IF journal THEN WithRecord(open, p, old) ELSE open
    BY DEF Write
  <1>7. pager' = [pager EXCEPT ![c] = [P EXCEPT !.eState = state, !.hdr = h, !.cache = cache, !.dirty = dirty,
                                                !.dbSize = n, !.inJournal = inJ, !.needSync = sync]]
    BY DEF Write
  <1> HIDE DEF open
  <1>8. jrnl' \in Seq(Segments) /\ jrnl' # << >> /\ Journal(jrnl') /\ jrnl'[1].orig = P.dbOrigSize
    <2>1. CASE journal
      <3>1. p <= open[1].orig /\ jrnl' = WithRecord(open, p, old)
        BY <2>1, <1>5, <1>6
      <3> HIDE DEF old
      <3> QED
        BY <1>4, <1>5, <3>1, WithRecordType
    <2>2. CASE ~journal
      BY <2>2, <1>5, <1>6
    <2> QED
      BY <2>1, <2>2
  <1>9. /\ P.cache \in Cache /\ P.hdr \in Nat
        /\ P.dirty \subseteq Page /\ P.inJournal \subseteq Page /\ P.needSync \subseteq Page
    BY <1>1 DEF Pagers, Cache
  <1>10. cache \in Cache /\ cache[p] # NoPage /\ \A q \in Page : P.cache[q] # NoPage => cache[q] # NoPage
    <2> HIDE DEF old
    <2> QED
      BY <1>4, <1>9 DEF Cache
  <1>11. /\ state \in OPEN..ERROR /\ h \in Nat /\ dirty \in SUBSET Page
         /\ n \in 0..MaxPage /\ inJ \in SUBSET Page /\ sync \in SUBSET Page
    <2>1. state \in OPEN..ERROR /\ h \in Nat /\ n \in 0..MaxPage
      BY <1>2, <1>4, <1>9 DEF Page
    <2>2. dirty \in SUBSET Page /\ inJ \in SUBSET Page /\ sync \in SUBSET Page
      BY <1>9
    <2> QED
      BY <2>1, <2>2
  <1>12. state \in {CACHEMOD, DBMOD} /\ (state = CACHEMOD => P.eState \in {WRITER_LOCKED, CACHEMOD})
         /\ (state = DBMOD => P.eState = DBMOD)
    BY <1>2
  <1>13. n >= P.dbSize /\ n >= p /\ (n = p \/ n = P.dbSize)
    BY <1>4 DEF Page
  <1>14. \A q \in dirty : q \in P.dirty \/ q = p
    OBVIOUS
  <1>15. p \in dirty /\ P.dirty \subseteq dirty
    OBVIOUS
  <1>16. /\ Q = [P EXCEPT !.eState = state, !.hdr = h, !.cache = cache, !.dirty = dirty,
                          !.dbSize = n, !.inJournal = inJ, !.needSync = sync]
         /\ pager' = [pager EXCEPT ![c] = Q]
    <2> HIDE DEF state, h, cache, dirty, n, inJ, sync
    <2> QED
      BY <1>7, Called
  <1> HIDE DEF state, h, cache, dirty, n, inJ, sync, Q
  <1>17. Q \in Pagers
    BY <1>1, <1>10, <1>11, <1>16, WriteFields
  <1>18. /\ Q.eState = state /\ Q.eLock = P.eLock /\ Q.op = P.op /\ Q.dirty = dirty /\ Q.cache = cache
         /\ Q.dbSize = n /\ Q.dbOrigSize = P.dbOrigSize
    BY <1>1, <1>16 DEF Pagers
  <1>19. Calls(Q, fileLock[c])
    <2>1. state = DBMOD => P.eLock = EXCLUSIVE
      BY <1>1, <1>12 DEF Calls
    <2>2. P.eLock = fileLock[c] \/ (P.eLock = RESERVED /\ fileLock[c] = PENDING)
      BY <1>1 DEF Calls
    <2>3. P.eLock >= SHARED
      BY <1>1, <1>2 DEF Pagers
    <2> QED
      BY <1>2, <1>12, <1>18, <2>1, <2>2, <2>3 DEF Calls
  <1>20. Sizes(Q, file', jrnl')
    <2>1. state = CACHEMOD => P.dbOrigSize = file.size
      BY <1>1, <1>12 DEF Sizes
    <2>2. file.size <= P.dbSize /\ (P.dbSize > file.size => P.dbSize \in P.dirty)
      <3>1. CASE P.eState = WRITER_LOCKED
        BY <1>1, <1>4, <3>1 DEF Sizes, Files
      <3>2. CASE P.eState \in {CACHEMOD, DBMOD}
        BY <1>1, <1>2, <3>2 DEF Sizes
      <3> QED
        BY <3>1, <3>2, <1>2
    <2>3. file.size <= n /\ (n > file.size => n \in dirty)
      BY <1>1, <1>4, <1>11, <1>13, <1>15, <2>2 DEF Files
    <2> QED
      BY <1>2, <1>3, <1>8, <1>12, <1>18, <2>1, <2>3 DEF Sizes
  <1>21. Cached(Q)
    <2>1. cache[1] # NoPage
      BY <1>2, <1>4, <1>10
    <2>2. ASSUME NEW q \in P.dirty PROVE q <= n /\ cache[q] # NoPage
      <3>1. q \in Page /\ q <= P.dbSize /\ P.cache[q] # NoPage
        BY <1>1, <1>2, <1>9 DEF Cached
      <3> QED
        BY <3>1, <1>4, <1>10, <1>11, <1>13 DEF Page
    <2>3. \A q \in dirty : q <= n /\ cache[q] # NoPage
      BY <2>2, <1>4, <1>10, <1>11, <1>13, <1>14
    <2>4. n # 0
      BY <1>4, <1>11, <1>13
    <2> QED
      BY <1>12, <1>18, <2>1, <2>3, <2>4 DEF Cached
  <1> QED
    BY <1>1, <1>2, <1>3, <1>8, <1>16, <1>17, <1>19, <1>20, <1>21, OneCall DEF Q

LEMMA WriteFailsStep ==
    ASSUME PagerInv, NEW c \in Conn, Undisturbed(c), NEW p \in Page, WriteFails(c, p)
    PROVE  PagerInv'
  <1> DEFINE P == pager[c]
             Q == pager'[c]
             dirty == P.dirty \cup {p}
             sync == P.needSync \cup {p}
  <1>1. /\ P \in Pagers /\ Calls(P, fileLock[c]) /\ Sizes(P, file, jrnl) /\ Cached(P)
        /\ file \in Files /\ jrnl \in Seq(Segments) /\ Journal(jrnl)
    BY Facts
  <1>2. /\ Writer(c) /\ P.eState # WRITER_LOCKED /\ UNCHANGED <<file, jrnl, inode, fileLock>>
        /\ pager' = [pager EXCEPT ![c] = [P EXCEPT !.dirty = dirty, !.needSync = sync, !.op = "failed"]]
    BY DEF WriteFails
  <1>3. P.op = "none" /\ P.eState \in {CACHEMOD, DBMOD}
    BY <1>2 DEF Writer
  <1>4. dirty \in SUBSET Page /\ sync \in SUBSET Page
    BY <1>1 DEF Pagers
  <1>5. /\ Q = [P EXCEPT !.dirty = dirty, !.needSync = sync, !.op = "failed"]
        /\ pager' = [pager EXCEPT ![c] = Q]
    BY <1>2, Called
  <1> HIDE DEF dirty, sync, Q
  <1>6. Q \in Pagers
    BY <1>1, <1>4, <1>5, WriteFailsFields
  <1>7. /\ Q.eState = P.eState /\ Q.eLock = P.eLock /\ Q.op = "failed" /\ Q.cache = P.cache
        /\ Q.dbSize = P.dbSize /\ Q.dbOrigSize = P.dbOrigSize /\ Q.changeCountDone = P.changeCountDone
    BY <1>1, <1>5 DEF Pagers
  <1>8. Calls(Q, fileLock[c])
    BY <1>1, <1>3, <1>7 DEF Calls
  <1>9. Sizes(Q, file, jrnl) /\ Cached(Q)
    BY <1>1, <1>3, <1>7 DEF Sizes, Cached
  <1>10. LockTypes' /\ LockTable'
    BY <1>2, SameLocks
  <1> QED
    BY <1>1, <1>2, <1>5, <1>6, <1>8, <1>9, <1>10, OneCall DEF Q

(* A dirty page goes to the file only under an EXCLUSIVE lock and behind a journal. *)
LEMMA StressOK ==
    ASSUME PagerInv, NEW c \in Conn, NEW p \in Page, Stress(c, p)
    PROVE  /\ AfterStress(c, p) \in Pagers
           /\ AfterStress(c, p).eState = DBMOD /\ AfterStress(c, p).eLock = EXCLUSIVE /\ AfterStress(c, p).op = "none"
           /\ AfterStress(c, p).dirty = pager[c].dirty /\ AfterStress(c, p).cache = pager[c].cache
           /\ AfterStress(c, p).dbSize = pager[c].dbSize
           /\ AfterStress(c, p).dbOrigSize = pager[c].dbOrigSize
           /\ pager[c].eState \in {CACHEMOD, DBMOD}
           /\ LockTypes' /\ LockTable' /\ fileLock'[c] = EXCLUSIVE
           /\ \A d \in Conn \ {c} : fileLock[d] = NO /\ fileLock'[d] = fileLock[d]
           /\ jrnl' \in Seq(Segments) /\ Journal(jrnl') /\ jrnl' # << >> /\ jrnl'[1].orig = pager[c].dbOrigSize
  <1> DEFINE P == pager[c]
             R == AfterStress(c, p)
  <1>1. /\ P \in Pagers /\ LockTypes /\ LockTable /\ Calls(P, fileLock[c]) /\ Sizes(P, file, jrnl) /\ Cached(P)
        /\ file \in Files /\ jrnl \in Seq(Segments) /\ Journal(jrnl)
    BY Facts
  <1>2. Writer(c) /\ p \in P.dirty
    BY DEF Stress
  <1>3. P.eState \in {CACHEMOD, DBMOD} /\ P.op = "none"
    BY <1>1, <1>2 DEF Writer, Cached
  <1>4. P.eLock >= RESERVED /\ jrnl # << >> /\ jrnl[1].orig = P.dbOrigSize
    BY <1>2, <1>3, WriterFacts
  <1>5. CASE MustSync(c, p)
    <2> DEFINE h == Len(jrnl) + 1
               n == P.dbOrigSize
    <2>1. ExclusiveFree(c) /\ Raise(c, EXCLUSIVE) /\ jrnl' = Append(Synced(jrnl), NewSegment(n))
      BY <1>5 DEF Stress
    <2>2. P.eLock >= SHARED
      BY <1>1, <1>4 DEF Pagers
    <2>3. /\ LockTypes' /\ LockTable' /\ fileLock'[c] = EXCLUSIVE
          /\ \A d \in Conn \ {c} : fileLock[d] = NO /\ fileLock'[d] = fileLock[d]
      BY <2>1, <2>2, RaisedToExclusive
    <2>4. DBMOD \in OPEN..ERROR /\ h \in Nat /\ n \in 0..MaxPage
      BY <1>1 DEF Pagers
    <2>5. R = [P EXCEPT !.eState = DBMOD, !.eLock = EXCLUSIVE, !.needSync = {}, !.hdr = h]
      BY <1>5 DEF AfterStress
    <2> HIDE DEF h, n, R
    <2>6. R \in Pagers
      BY <1>1, <2>4, <2>5, StressFields
    <2>7. /\ R.eState = DBMOD /\ R.eLock = EXCLUSIVE /\ R.op = P.op /\ R.dirty = P.dirty /\ R.cache = P.cache
          /\ R.dbSize = P.dbSize /\ R.dbOrigSize = P.dbOrigSize
      BY <1>1, <2>5 DEF Pagers
    <2>8. /\ Synced(jrnl) \in Seq(Segments) /\ Synced(jrnl) # << >>
          /\ Journal(Synced(jrnl)) /\ Synced(jrnl)[1].orig = jrnl[1].orig
      BY <1>1, <1>4, SyncedType
    <2>9. jrnl' \in Seq(Segments) /\ Journal(jrnl') /\ jrnl' # << >> /\ jrnl'[1].orig = P.dbOrigSize
      BY <1>4, <2>1, <2>4, <2>8, NewSegmentType
    <2> QED
      BY <1>3, <2>3, <2>6, <2>7, <2>9 DEF R
  <1>6. CASE ~MustSync(c, p)
    <2>1. P.eState = DBMOD /\ R = P /\ UNCHANGED <<jrnl, inode, fileLock>>
      BY <1>3, <1>6 DEF MustSync, AfterStress, Stress
    <2>2. P.eLock = EXCLUSIVE /\ fileLock[c] = EXCLUSIVE
      BY <1>1, <2>1 DEF Calls
    <2>3. LockTypes' /\ LockTable' /\ \A d \in Conn \ {c} : fileLock[d] = NO
      BY <1>1, <2>1, <2>2, SameLocks, Above
    <2> QED
      BY <1>1, <1>3, <1>4, <2>1, <2>2, <2>3
  <1> QED
    BY <1>5, <1>6

LEMMA SpillStep ==
    ASSUME PagerInv, NEW c \in Conn, Undisturbed(c), NEW p \in Page, Spill(c, p)
    PROVE  PagerInv'
  <1> DEFINE P == pager[c]
             R == AfterStress(c, p)
             Q == pager'[c]
  <1>1. /\ P \in Pagers /\ Sizes(P, file, jrnl) /\ Cached(P) /\ file \in Files
    BY Facts
  <1>2. /\ R \in Pagers /\ R.eState = DBMOD /\ R.eLock = EXCLUSIVE /\ R.op = "none"
        /\ R.dirty = P.dirty /\ R.cache = P.cache /\ R.dbSize = P.dbSize /\ R.dbOrigSize = P.dbOrigSize
        /\ P.eState \in {CACHEMOD, DBMOD}
        /\ LockTypes' /\ LockTable' /\ fileLock'[c] = EXCLUSIVE
        /\ \A d \in Conn \ {c} : fileLock[d] = NO /\ fileLock'[d] = fileLock[d]
        /\ jrnl' \in Seq(Segments) /\ Journal(jrnl') /\ jrnl' # << >> /\ jrnl'[1].orig = P.dbOrigSize
    BY StressOK DEF Spill
  <1>3. P.op = "none" /\ p \in P.dirty /\ p # 1
    BY DEF Spill, Stress, Writer
  <1> HIDE DEF R
  <1>4. P.dbSize \in Nat /\ P.cache \in Cache /\ p \in Nat /\ file.size \in Nat /\ 1 \in Page /\ P.dirty \subseteq Page
    BY <1>1 DEF Pagers, Cache, Files, Page
  <1>5. p <= P.dbSize /\ P.cache[p] # NoPage /\ P.cache[p] \in Nat
    BY <1>1, <1>2, <1>3, <1>4 DEF Cached, Cache
  <1>6. file' = Written(file, p, P.cache[p])
    BY <1>2 DEF Spill, R
  <1>7. file' \in Files /\ file'.size = IF p > file.size THEN p ELSE file.size
    BY <1>1, <1>5, <1>6, WrittenType
  <1>8. PICK kept \in {NoPage, R.cache[p]} :
          pager' = [pager EXCEPT ![c] = [R EXCEPT !.dirty = R.dirty \ {p}, !.cache = [R.cache EXCEPT ![p] = kept]]]
    BY DEF Spill, R
  <1> DEFINE dirty == R.dirty \ {p}
             cache == [R.cache EXCEPT ![p] = kept]
  <1>9. dirty \in SUBSET Page /\ cache \in Cache /\ \A q \in Page \ {p} : cache[q] = P.cache[q]
    BY <1>2, <1>4, <1>5, <1>8 DEF Cache
  <1>10. Q = [R EXCEPT !.dirty = dirty, !.cache = cache] /\ pager' = [pager EXCEPT ![c] = Q]
    BY <1>8, Called
  <1>11. dirty = P.dirty \ {p}
    BY <1>2
  <1> HIDE DEF dirty, cache, Q
  <1>12. Q \in Pagers
    BY <1>2, <1>9, <1>10, SpillFields
  <1>13. /\ Q.eState = DBMOD /\ Q.eLock = EXCLUSIVE /\ Q.op = "none" /\ Q.dirty = dirty /\ Q.cache = cache
         /\ Q.dbSize = P.dbSize /\ Q.dbOrigSize = P.dbOrigSize
    BY <1>2, <1>10 DEF Pagers
  <1>14. Calls(Q, EXCLUSIVE)
    BY <1>13 DEF Calls
  <1>15. Sizes(Q, file', jrnl')
    <2>1. file.size <= P.dbSize /\ (P.dbSize > file.size => P.dbSize \in P.dirty)
      BY <1>1, <1>2, <1>3 DEF Sizes
    <2>2. file'.size <= P.dbSize /\ (P.dbSize > file'.size => P.dbSize \in dirty)
      BY <1>4, <1>5, <1>7, <1>11, <2>1
    <2> QED
      BY <1>2, <1>13, <2>2 DEF Sizes
  <1>16. Cached(Q)
    <2>1. cache[1] # NoPage
      BY <1>1, <1>2, <1>3, <1>4, <1>9 DEF Cached
    <2>2. \A q \in dirty : q <= P.dbSize /\ cache[q] # NoPage
      BY <1>1, <1>2, <1>3, <1>4, <1>9, <1>11 DEF Cached
    <2>3. P.dbSize # 0
      BY <1>1, <1>2, <1>3 DEF Cached
    <2> QED
      BY <1>13, <2>1, <2>2, <2>3 DEF Cached
  <1>17. \A d \in Conn \ {c} : fileLock[d] = NO /\ fileLock[d] <= SHARED /\ fileLock'[d] = fileLock[d]
    BY <1>2
  <1> QED
    BY <1>2, <1>7, <1>10, <1>12, <1>14, <1>15, <1>16, <1>17, OneCall DEF Q

LEMMA SpillFailsStep ==
    ASSUME PagerInv, NEW c \in Conn, Undisturbed(c), NEW p \in Page, SpillFails(c, p)
    PROVE  PagerInv'
  <1> DEFINE R == AfterStress(c, p)
             Q == pager'[c]
  <1>1. file \in Files /\ file' = file /\ Stress(c, p) /\ pager' = [pager EXCEPT ![c] = [R EXCEPT !.eState = ERROR]]
    BY Facts DEF SpillFails
  <1>2. /\ R \in Pagers /\ R.eLock = EXCLUSIVE /\ R.op = "none"
        /\ LockTypes' /\ LockTable' /\ fileLock'[c] = EXCLUSIVE
        /\ \A d \in Conn \ {c} : fileLock[d] = NO /\ fileLock'[d] = fileLock[d]
        /\ jrnl' \in Seq(Segments) /\ Journal(jrnl')
    BY <1>1, StressOK
  <1> HIDE DEF R
  <1>3. Q = [R EXCEPT !.eState = ERROR] /\ pager' = [pager EXCEPT ![c] = Q]
    BY <1>1, Called
  <1> HIDE DEF Q
  <1>4. ERROR \in OPEN..ERROR
    OBVIOUS
  <1>5. Q \in Pagers
    BY <1>2, <1>3, <1>4, StateField
  <1>6. Q.eState = ERROR /\ Q.eLock = EXCLUSIVE /\ Q.op = "none"
    BY <1>2, <1>3 DEF Pagers
  <1>7. Calls(Q, EXCLUSIVE) /\ Sizes(Q, file', jrnl') /\ Cached(Q)
    BY <1>6 DEF Calls, Sizes, Cached
  <1>8. \A d \in Conn \ {c} : fileLock[d] = NO /\ fileLock[d] <= SHARED /\ fileLock'[d] = fileLock[d]
    BY <1>2
  <1> QED
    BY <1>1, <1>2, <1>3, <1>5, <1>7, <1>8, OneCall DEF Q

LEMMA SpillBusyStep ==
    ASSUME PagerInv, NEW c \in Conn, Undisturbed(c), NEW p \in Page, SpillBusy(c, p)
    PROVE  PagerInv'
  <1>1. /\ pager[c] \in Pagers /\ Calls(pager[c], fileLock[c]) /\ Sizes(pager[c], file, jrnl) /\ Cached(pager[c])
        /\ file \in Files /\ jrnl \in Seq(Segments) /\ Journal(jrnl)
    BY Facts
  <1>2. Writer(c) /\ ExclusiveBusy(c) /\ Raise(c, PENDING) /\ UNCHANGED <<file, jrnl, pager>>
    BY DEF SpillBusy
  <1>3. pager[c].eLock >= RESERVED /\ pager[c].op = "none"
    BY <1>2, WriterFacts
  <1>4. /\ LockTypes' /\ LockTable' /\ fileLock'[c] = PENDING /\ pager[c].eLock = RESERVED
        /\ \A d \in Conn \ {c} : fileLock[d] <= SHARED /\ fileLock'[d] = fileLock[d]
    BY <1>2, <1>3, RaisedToPending
  <1>5. Calls(pager[c], PENDING)
    BY <1>1, <1>3, <1>4 DEF Calls
  <1>6. pager' = [pager EXCEPT ![c] = pager'[c]] /\ pager'[c] = pager[c]
    BY <1>2 DEF PagerInv, PagerTypes
  <1> QED
    BY <1>1, <1>2, <1>4, <1>5, <1>6, OneCall

---------------------------------------------------------------------------
(* Committing *)

(* Counting the change makes page 1 dirty and journals it; nothing is lost from the cache, the journal or the list of *)
(* dirty pages. *)
LEMMA CountedOK ==
    ASSUME PagerInv, NEW c \in Conn, Writer(c), pager[c].eState # WRITER_LOCKED
    PROVE  /\ Counted(pager[c]) \in Pagers
           /\ Counted(pager[c]).eState = pager[c].eState /\ Counted(pager[c]).eLock = pager[c].eLock
           /\ Counted(pager[c]).op = "none"
           /\ Counted(pager[c]).dbSize = pager[c].dbSize /\ Counted(pager[c]).dbOrigSize = pager[c].dbOrigSize
           /\ pager[c].dirty \subseteq Counted(pager[c]).dirty
           /\ Counted(pager[c]).cache[1] # NoPage
           /\ pager[c].dbSize # 0
           /\ \A q \in Counted(pager[c]).dirty : q <= pager[c].dbSize /\ Counted(pager[c]).cache[q] # NoPage
  <1> DEFINE P == pager[c]
             R == Counted(P)
             journal == 1 <= P.dbOrigSize /\ 1 \notin P.inJournal
             cache == [P.cache EXCEPT ![1] = P.dbFileVers + 1]
             dirty == P.dirty \cup {1}
             inJ == IF journal THEN P.inJournal \cup {1} ELSE P.inJournal
             sync == IF journal THEN P.needSync \cup {1} ELSE P.needSync
  <1>1. P \in Pagers /\ Cached(P)
    BY Facts
  <1>2. P.op = "none" /\ P.eState \in {CACHEMOD, DBMOD} /\ P.cache[1] # NoPage
    BY WriterFacts
  <1>3. P.dbSize # 0 /\ \A q \in P.dirty : q <= P.dbSize /\ P.cache[q] # NoPage
    BY <1>1, <1>2 DEF Cached
  <1>4. P.cache \in Cache /\ P.dbFileVers \in Nat /\ P.dbSize \in Nat /\ P.dirty \subseteq Page /\ 1 \in Page
    BY <1>1 DEF Pagers, Cache, Page
  <1>5. cache \in Cache /\ cache[1] # NoPage /\ \A q \in Page : P.cache[q] # NoPage => cache[q] # NoPage
    BY <1>4 DEF Cache
  <1>6. dirty \in SUBSET Page /\ inJ \in SUBSET Page /\ sync \in SUBSET Page
    BY <1>1, <1>4 DEF Pagers
  <1>7. CASE P.changeCountDone
    <2>1. R = P
      BY <1>7 DEF Counted
    <2> QED
      BY <2>1, <1>1, <1>2, <1>3
  <1>8. CASE ~P.changeCountDone
    <2>1. R = [P EXCEPT !.changeCountDone = TRUE, !.cache = cache, !.dirty = dirty, !.inJournal = inJ,
                        !.needSync = sync]
      BY <1>8 DEF Counted
    <2>2. \A q \in dirty : q <= P.dbSize /\ cache[q] # NoPage
      BY <1>3, <1>4, <1>5
    <2>3. P.dirty \subseteq dirty
      OBVIOUS
    <2> HIDE DEF R, cache, dirty, inJ, sync
    <2>4. R \in Pagers
      BY <1>1, <1>5, <1>6, <2>1, CountedFields
    <2>5. /\ R.eState = P.eState /\ R.eLock = P.eLock /\ R.op = P.op /\ R.dirty = dirty /\ R.cache = cache
          /\ R.dbSize = P.dbSize /\ R.dbOrigSize = P.dbOrigSize
      BY <1>1, <2>1 DEF Pagers
    <2> QED
      BY <1>2, <1>3, <1>5, <2>2, <2>3, <2>4, <2>5 DEF R
  <1> QED
    BY <1>7, <1>8

LEMMA CountedJournalOK ==
    ASSUME PagerInv, NEW c \in Conn, Writer(c), pager[c].eState # WRITER_LOCKED
    PROVE  /\ CountedJournal(pager[c]) \in Seq(Segments) /\ CountedJournal(pager[c]) # << >>
           /\ Journal(CountedJournal(pager[c])) /\ CountedJournal(pager[c])[1].orig = pager[c].dbOrigSize
  <1> DEFINE P == pager[c]
             v == P.cache[1]
  <1>1. P \in Pagers /\ jrnl \in Seq(Segments) /\ Journal(jrnl)
    BY Facts
  <1>2. v # NoPage /\ jrnl # << >> /\ jrnl[1].orig = P.dbOrigSize
    BY WriterFacts
  <1>3. v \in Nat /\ 1 \in Page
    BY <1>1, <1>2 DEF Pagers, Page
  <1> HIDE DEF v
  <1>4. CASE ~P.changeCountDone /\ 1 <= P.dbOrigSize /\ 1 \notin P.inJournal
    <2>1. CountedJournal(P) = WithRecord(jrnl, 1, v)
      BY <1>4 DEF CountedJournal, v
    <2>2. 1 <= jrnl[1].orig
      BY <1>2, <1>4
    <2> QED
      BY <1>1, <1>2, <1>3, <2>1, <2>2, WithRecordType
  <1>5. CASE ~(~P.changeCountDone /\ 1 <= P.dbOrigSize /\ 1 \notin P.inJournal)
    BY <1>1, <1>2, <1>5 DEF CountedJournal
  <1> QED
    BY <1>4, <1>5

LEMMA CommitStep ==
    ASSUME PagerInv, NEW c \in Conn, Undisturbed(c), Commit(c)
    PROVE  PagerInv'
  <1> DEFINE P == pager[c]
             R == Counted(P)
             Q == pager'[c]
             h == Len(jrnl) + 1
             list == R.dirty
  <1>1. P \in Pagers /\ Calls(P, fileLock[c]) /\ Sizes(P, file, jrnl) /\ file \in Files /\ jrnl \in Seq(Segments)
    BY Facts
  <1>2. Writer(c) /\ P.eState # WRITER_LOCKED /\ ExclusiveFree(c) /\ Raise(c, EXCLUSIVE) /\ file' = file
    BY DEF Commit
  <1>3. P.eLock >= SHARED /\ P.op = "none" /\ P.eState \in {CACHEMOD, DBMOD}
    BY <1>1, <1>2, WriterFacts DEF Pagers
  <1>4. /\ LockTypes' /\ LockTable' /\ fileLock'[c] = EXCLUSIVE
        /\ \A d \in Conn \ {c} : fileLock[d] = NO /\ fileLock'[d] = fileLock[d]
    BY <1>2, <1>3, RaisedToExclusive
  <1>5. /\ R \in Pagers /\ R.dbSize = P.dbSize /\ R.dbOrigSize = P.dbOrigSize
        /\ P.dirty \subseteq R.dirty /\ R.cache[1] # NoPage /\ P.dbSize # 0
        /\ \A q \in R.dirty : q <= P.dbSize /\ R.cache[q] # NoPage
    BY <1>2, CountedOK
  <1>6. /\ CountedJournal(P) \in Seq(Segments) /\ CountedJournal(P) # << >>
        /\ Journal(CountedJournal(P)) /\ CountedJournal(P)[1].orig = P.dbOrigSize
    BY <1>2, CountedJournalOK
  <1>7. jrnl' = Synced(CountedJournal(P))
    BY DEF Commit
  <1>8. jrnl' \in Seq(Segments) /\ jrnl' # << >> /\ Journal(jrnl') /\ jrnl'[1].orig = P.dbOrigSize
    BY <1>6, <1>7, SyncedType
  <1>9. DBMOD \in OPEN..ERROR /\ h \in Nat /\ list \in SUBSET Page
    BY <1>1, <1>5 DEF Pagers
  <1>10. pager' = [pager EXCEPT ![c] = [R EXCEPT !.eState = DBMOD, !.eLock = EXCLUSIVE, !.needSync = {}, !.hdr = h,
                                                 !.op = "flush", !.list = list]]
    BY DEF Commit
  <1> HIDE DEF R, h, list
  <1>11. /\ Q = [R EXCEPT !.eState = DBMOD, !.eLock = EXCLUSIVE, !.needSync = {}, !.hdr = h,
                          !.op = "flush", !.list = list]
         /\ pager' = [pager EXCEPT ![c] = Q]
    BY <1>10, Called
  <1> HIDE DEF Q
  <1>12. Q \in Pagers
    BY <1>5, <1>9, <1>11, CommitFields
  <1>13. /\ Q.eState = DBMOD /\ Q.eLock = EXCLUSIVE /\ Q.op = "flush" /\ Q.dirty = R.dirty /\ Q.cache = R.cache
         /\ Q.dbSize = P.dbSize /\ Q.dbOrigSize = P.dbOrigSize /\ Q.list = list
    BY <1>5, <1>11 DEF Pagers
  <1>14. list = R.dirty
    BY DEF list
  <1>15. Calls(Q, EXCLUSIVE)
    BY <1>13, <1>14 DEF Calls
  <1>16. Sizes(Q, file', jrnl')
    <2>1. file.size <= P.dbSize /\ (P.dbSize > file.size => P.dbSize \in P.dirty)
      BY <1>1, <1>3 DEF Sizes
    <2> QED
      BY <1>2, <1>5, <1>8, <1>13, <1>14, <2>1 DEF Sizes
  <1>17. Cached(Q)
    BY <1>5, <1>13 DEF Cached
  <1>18. \A d \in Conn \ {c} : fileLock[d] = NO /\ fileLock[d] <= SHARED /\ fileLock'[d] = fileLock[d]
    BY <1>4
  <1> QED
    BY <1>1, <1>2, <1>4, <1>8, <1>11, <1>12, <1>15, <1>16, <1>17, <1>18, OneCall DEF Q

LEMMA CommitBusyStep ==
    ASSUME PagerInv, NEW c \in Conn, Undisturbed(c), CommitBusy(c)
    PROVE  PagerInv'
  <1> DEFINE P == pager[c]
             R == Counted(P)
             Q == pager'[c]
  <1>1. P \in Pagers /\ Calls(P, fileLock[c]) /\ Sizes(P, file, jrnl) /\ file \in Files
    BY Facts
  <1>2. /\ Writer(c) /\ P.eState # WRITER_LOCKED /\ ExclusiveBusy(c) /\ Raise(c, PENDING) /\ file' = file
        /\ jrnl' = CountedJournal(P) /\ pager' = [pager EXCEPT ![c] = R]
    BY DEF CommitBusy
  <1>3. P.eLock >= RESERVED /\ P.op = "none" /\ P.eState \in {CACHEMOD, DBMOD}
    BY <1>2, WriterFacts
  <1>4. /\ LockTypes' /\ LockTable' /\ fileLock'[c] = PENDING /\ P.eLock = RESERVED
        /\ \A d \in Conn \ {c} : fileLock[d] <= SHARED /\ fileLock'[d] = fileLock[d]
    BY <1>2, <1>3, RaisedToPending
  <1>5. /\ R \in Pagers /\ R.eState = P.eState /\ R.eLock = P.eLock /\ R.op = "none"
        /\ R.dbSize = P.dbSize /\ R.dbOrigSize = P.dbOrigSize
        /\ P.dirty \subseteq R.dirty /\ R.cache[1] # NoPage /\ P.dbSize # 0
        /\ \A q \in R.dirty : q <= P.dbSize /\ R.cache[q] # NoPage
    BY <1>2, CountedOK
  <1>6. jrnl' \in Seq(Segments) /\ jrnl' # << >> /\ Journal(jrnl') /\ jrnl'[1].orig = P.dbOrigSize
    BY <1>2, CountedJournalOK
  <1>7. Q = R /\ pager' = [pager EXCEPT ![c] = Q]
    BY <1>2, Called
  <1> HIDE DEF R, Q
  <1>8. Calls(Q, PENDING)
    <2>1. P.eState # DBMOD
      BY <1>1, <1>4 DEF Calls
    <2> QED
      BY <1>3, <1>4, <1>5, <1>7, <2>1 DEF Calls
  <1>9. Sizes(Q, file', jrnl')
    <2>1. file.size <= P.dbSize /\ (P.dbSize > file.size => P.dbSize \in P.dirty)
      BY <1>1, <1>3 DEF Sizes
    <2>2. P.eState = CACHEMOD => P.dbOrigSize = file.size
      BY <1>1 DEF Sizes
    <2> QED
      BY <1>2, <1>3, <1>5, <1>6, <1>7, <2>1, <2>2 DEF Sizes
  <1>10. Cached(Q)
    BY <1>3, <1>5, <1>7 DEF Cached
  <1> QED
    BY <1>1, <1>2, <1>4, <1>5, <1>6, <1>7, <1>8, <1>9, <1>10, OneCall DEF Q

LEMMA SyncFailsStep ==
    ASSUME PagerInv, NEW c \in Conn, Undisturbed(c), SyncFails(c)
    PROVE  PagerInv'
  <1> DEFINE P == pager[c]
             R == Counted(P)
             Q == pager'[c]
  <1>1. P \in Pagers /\ Calls(P, fileLock[c]) /\ Sizes(P, file, jrnl) /\ file \in Files
    BY Facts
  <1>2. /\ Writer(c) /\ P.eState # WRITER_LOCKED /\ ExclusiveFree(c) /\ Raise(c, EXCLUSIVE) /\ file' = file
        /\ jrnl' = CountedJournal(P)
        /\ pager' = [pager EXCEPT ![c] = [R EXCEPT !.eLock = EXCLUSIVE, !.op = "failed"]]
    BY DEF SyncFails
  <1>3. P.eLock >= SHARED /\ P.op = "none" /\ P.eState \in {CACHEMOD, DBMOD}
    BY <1>1, <1>2, WriterFacts DEF Pagers
  <1>4. /\ LockTypes' /\ LockTable' /\ fileLock'[c] = EXCLUSIVE
        /\ \A d \in Conn \ {c} : fileLock[d] = NO /\ fileLock'[d] = fileLock[d]
    BY <1>2, <1>3, RaisedToExclusive
  <1>5. /\ R \in Pagers /\ R.eState = P.eState /\ R.dbSize = P.dbSize /\ R.dbOrigSize = P.dbOrigSize
        /\ R.cache[1] # NoPage
    BY <1>2, CountedOK
  <1>6. jrnl' \in Seq(Segments) /\ jrnl' # << >> /\ Journal(jrnl') /\ jrnl'[1].orig = P.dbOrigSize
    BY <1>2, CountedJournalOK
  <1> HIDE DEF R
  <1>7. Q = [R EXCEPT !.eLock = EXCLUSIVE, !.op = "failed"] /\ pager' = [pager EXCEPT ![c] = Q]
    BY <1>2, Called
  <1> HIDE DEF Q
  <1>8. Q \in Pagers
    BY <1>5, <1>7, SyncFailsFields
  <1>9. /\ Q.eState = P.eState /\ Q.eLock = EXCLUSIVE /\ Q.op = "failed" /\ Q.cache = R.cache
        /\ Q.dbSize = P.dbSize /\ Q.dbOrigSize = P.dbOrigSize
    BY <1>5, <1>7 DEF Pagers
  <1>10. Calls(Q, EXCLUSIVE)
    BY <1>3, <1>9 DEF Calls
  <1>11. Sizes(Q, file', jrnl')
    BY <1>1, <1>2, <1>3, <1>6, <1>9 DEF Sizes
  <1>12. Cached(Q)
    BY <1>3, <1>5, <1>9 DEF Cached
  <1>13. \A d \in Conn \ {c} : fileLock[d] = NO /\ fileLock[d] <= SHARED /\ fileLock'[d] = fileLock[d]
    BY <1>4
  <1> QED
    BY <1>1, <1>2, <1>4, <1>6, <1>7, <1>8, <1>10, <1>11, <1>12, <1>13, OneCall DEF Q

LEMMA FlushPageStep ==
    ASSUME PagerInv, NEW c \in Conn, Undisturbed(c), NEW p \in Page, FlushPage(c, p)
    PROVE  PagerInv'
  <1> DEFINE P == pager[c]
             Q == pager'[c]
             v == IF p = 1 THEN P.dbFileVers + 1 ELSE P.cache[p]
             list == P.list \ {p}
             cache == [P.cache EXCEPT ![p] = v]
             vers == IF p = 1 THEN v ELSE P.dbFileVers
  <1>1. /\ P \in Pagers /\ LockTypes /\ LockTable /\ Calls(P, fileLock[c]) /\ Sizes(P, file, jrnl) /\ Cached(P)
        /\ file \in Files /\ jrnl \in Seq(Segments) /\ Journal(jrnl)
    BY Facts
  <1>2. P.op = "flush" /\ p \in P.list /\ UNCHANGED <<jrnl, inode, fileLock>> /\ file' = Written(file, p, v)
    BY DEF FlushPage
  <1>3. /\ P.eState = DBMOD /\ P.eLock = EXCLUSIVE /\ fileLock[c] = EXCLUSIVE /\ P.list \subseteq P.dirty
        /\ P.cache[1] # NoPage
    BY <1>1, <1>2 DEF Calls, Cached
  <1>4. \A d \in Conn \ {c} : fileLock[d] = NO
    BY <1>1, <1>3, Above
  <1>5. /\ P.cache \in Cache /\ P.dbFileVers \in Nat /\ P.dbSize \in Nat /\ P.list \subseteq Page
        /\ P.dirty \subseteq Page /\ p \in Nat /\ 1 \in Page /\ file.size \in Nat
    BY <1>1 DEF Pagers, Cache, Page, Files
  <1>6. P.dbSize # 0 /\ \A q \in P.dirty : q <= P.dbSize /\ P.cache[q] # NoPage
    BY <1>1, <1>2, <1>3 DEF Cached
  <1>7. p <= P.dbSize /\ P.cache[p] \in Nat
    BY <1>2, <1>3, <1>5, <1>6 DEF Cache
  <1>8. v \in Nat
    BY <1>5, <1>7
  <1>9. vers \in Nat /\ list \in SUBSET Page
    BY <1>5, <1>8
  <1>10. list = P.list \ {p}
    OBVIOUS
  <1>11. /\ Q = [P EXCEPT !.list = list, !.cache = cache, !.dbFileVers = vers] /\ pager' = [pager EXCEPT ![c] = Q]
    <2>1. pager' = [pager EXCEPT ![c] = [P EXCEPT !.list = list, !.cache = cache, !.dbFileVers = vers]]
      BY DEF FlushPage
    <2> HIDE DEF list, cache, vers
    <2> QED
      BY <2>1, Called
  <1> HIDE DEF v, list, vers
  <1>12. cache \in Cache /\ cache[1] # NoPage /\ \A q \in Page : P.cache[q] # NoPage => cache[q] # NoPage
    BY <1>3, <1>5, <1>8 DEF Cache
  <1> HIDE DEF cache, Q
  <1>13. file' \in Files /\ file'.size = IF p > file.size THEN p ELSE file.size
    BY <1>1, <1>2, <1>8, WrittenType
  <1>14. Q \in Pagers
    BY <1>1, <1>9, <1>11, <1>12, FlushFields
  <1>15. /\ Q.eState = DBMOD /\ Q.eLock = EXCLUSIVE /\ Q.op = "flush" /\ Q.dirty = P.dirty /\ Q.cache = cache
         /\ Q.dbSize = P.dbSize /\ Q.dbOrigSize = P.dbOrigSize /\ Q.list = list
    BY <1>1, <1>2, <1>3, <1>11 DEF Pagers
  <1>16. Calls(Q, fileLock[c])
    BY <1>3, <1>10, <1>15 DEF Calls
  <1>17. Sizes(Q, file', jrnl')
    <2>1. file.size <= P.dbSize /\ (P.dbSize > file.size => P.dbSize \in P.list)
      BY <1>1, <1>2 DEF Sizes
    <2>2. file'.size <= P.dbSize /\ (P.dbSize > file'.size => P.dbSize \in list)
      BY <1>5, <1>7, <1>10, <1>13, <2>1
    <2>3. jrnl' # << >> /\ jrnl'[1].orig = P.dbOrigSize
      BY <1>1, <1>2, <1>3 DEF Sizes
    <2> QED
      BY <1>15, <2>2, <2>3 DEF Sizes
  <1>18. Cached(Q)
    BY <1>5, <1>6, <1>12, <1>15 DEF Cached
  <1>19. LockTypes' /\ LockTable'
    BY <1>2, SameLocks
  <1> QED
    BY <1>1, <1>2, <1>4, <1>11, <1>13, <1>14, <1>16, <1>17, <1>18, <1>19, OneCall DEF Q

LEMMA FlushFailsStep ==
    ASSUME PagerInv, NEW c \in Conn, Undisturbed(c), FlushFails(c)
    PROVE  PagerInv'
  <1> DEFINE P == pager[c]
             Q == pager'[c]
  <1>1. /\ P \in Pagers /\ Calls(P, fileLock[c]) /\ Sizes(P, file, jrnl) /\ Cached(P)
        /\ file \in Files /\ jrnl \in Seq(Segments) /\ Journal(jrnl)
    BY Facts
  <1>2. /\ P.op = "flush" /\ UNCHANGED <<file, jrnl, inode, fileLock>>
        /\ pager' = [pager EXCEPT ![c] = [P EXCEPT !.op = "failed", !.list = {}]]
    BY DEF FlushFails
  <1>3. P.eState = DBMOD /\ P.eLock = EXCLUSIVE /\ P.cache[1] # NoPage
    BY <1>1, <1>2 DEF Calls, Cached
  <1>4. Q = [P EXCEPT !.op = "failed", !.list = {}] /\ pager' = [pager EXCEPT ![c] = Q]
    BY <1>2, Called
  <1> HIDE DEF Q
  <1>5. Q \in Pagers
    BY <1>1, <1>4, FlushFailsFields
  <1>6. /\ Q.eState = DBMOD /\ Q.eLock = EXCLUSIVE /\ Q.op = "failed" /\ Q.cache = P.cache
        /\ Q.dbSize = P.dbSize /\ Q.dbOrigSize = P.dbOrigSize
    BY <1>1, <1>3, <1>4 DEF Pagers
  <1>7. Calls(Q, fileLock[c])
    BY <1>1, <1>3, <1>6 DEF Calls
  <1>8. Sizes(Q, file, jrnl) /\ Cached(Q)
    BY <1>1, <1>3, <1>6 DEF Sizes, Cached
  <1>9. LockTypes' /\ LockTable'
    BY <1>2, SameLocks
  <1> QED
    BY <1>1, <1>2, <1>4, <1>5, <1>7, <1>8, <1>9, OneCall DEF Q

(* When everything is written, the file has the size of the transaction. *)
LEMMA EndFlushStep ==
    ASSUME PagerInv, NEW c \in Conn, Undisturbed(c), EndFlush(c)
    PROVE  PagerInv'
  <1> DEFINE P == pager[c]
             Q == pager'[c]
  <1>1. /\ P \in Pagers /\ Calls(P, fileLock[c]) /\ Sizes(P, file, jrnl) /\ Cached(P)
        /\ file \in Files /\ jrnl \in Seq(Segments) /\ Journal(jrnl)
    BY Facts
  <1>2. /\ P.op = "flush" /\ P.list = {} /\ UNCHANGED <<file, jrnl, inode, fileLock>>
        /\ pager' = [pager EXCEPT ![c] = [P EXCEPT !.op = "finish", !.eState = FINISHED, !.dirty = {}]]
    BY DEF EndFlush
  <1>3. P.eState = DBMOD /\ P.eLock = EXCLUSIVE /\ P.cache[1] # NoPage
    BY <1>1, <1>2 DEF Calls, Cached
  <1>4. Q = [P EXCEPT !.op = "finish", !.eState = FINISHED, !.dirty = {}] /\ pager' = [pager EXCEPT ![c] = Q]
    BY <1>2, Called
  <1> HIDE DEF Q
  <1>5. FINISHED \in OPEN..ERROR
    OBVIOUS
  <1>6. Q \in Pagers
    BY <1>1, <1>4, <1>5, EndFlushFields
  <1>7. /\ Q.eState = FINISHED /\ Q.eLock = EXCLUSIVE /\ Q.op = "finish" /\ Q.cache = P.cache /\ Q.dirty = {}
        /\ Q.dbSize = P.dbSize
    BY <1>1, <1>3, <1>4 DEF Pagers
  <1>8. Calls(Q, fileLock[c])
    BY <1>1, <1>3, <1>7 DEF Calls
  <1>9. P.dbSize = file.size /\ jrnl # << >>
    <2>1. file.size <= P.dbSize /\ ~(P.dbSize > file.size) /\ jrnl # << >>
      BY <1>1, <1>2, <1>3 DEF Sizes
    <2>2. P.dbSize \in Nat /\ file.size \in Nat
      BY <1>1 DEF Pagers, Files
    <2> QED
      BY <2>1, <2>2
  <1>10. Sizes(Q, file, jrnl) /\ Cached(Q)
    BY <1>3, <1>7, <1>9 DEF Sizes, Cached
  <1>11. LockTypes' /\ LockTable'
    BY <1>2, SameLocks
  <1> QED
    BY <1>1, <1>2, <1>4, <1>6, <1>8, <1>10, <1>11, OneCall DEF Q

(* A transaction that ends with its journal deleted, after a commit or a rollback *)
LEMMA Ending ==
    ASSUME PagerInv, NEW c \in Conn, Undisturbed(c), pager[c].eState \in CACHEMOD..FINISHED,
           pager[c].dbSize = file.size, jrnl' = << >>, file' = file, Downgrade(c),
           pager' = [pager EXCEPT ![c] = Ended(pager[c])]
    PROVE  PagerInv'
  <1> DEFINE P == pager[c]
             Q == pager'[c]
  <1>1. P \in Pagers /\ LockTypes /\ LockTable /\ Calls(P, fileLock[c]) /\ Cached(P) /\ file \in Files
    BY Facts
  <1>2. Q = Ended(P) /\ pager' = [pager EXCEPT ![c] = Q]
    BY Called
  <1>3. P.eLock >= RESERVED /\ P.cache[1] # NoPage
    BY <1>1 DEF Calls, Cached, Pagers
  <1>4. P.eLock >= SHARED /\ fileLock[c] > SHARED
    BY <1>1, <1>3 DEF Calls, Pagers
  <1>5. LockTypes' /\ LockTable' /\ fileLock'[c] = SHARED /\ \A d \in Conn \ {c} : fileLock'[d] = fileLock[d]
    BY <1>4, Downgraded
  <1>6. \A d \in Conn \ {c} : fileLock[d] <= SHARED
    BY <1>1, <1>4, Above
  <1>7. /\ Q \in Pagers /\ Q.eState = READER /\ Q.eLock = SHARED /\ Q.op = "none"
        /\ Q.dbSize = file'.size /\ Q.dirty = {} /\ ~Q.changeCountDone /\ Q.cache[1] # NoPage
    BY <1>1, <1>2, <1>3, EndedOK
  <1>8. Calls(Q, SHARED) /\ Sizes(Q, file', jrnl') /\ Cached(Q)
    BY <1>7, Readers
  <1>9. jrnl' \in Seq(Segments) /\ Journal(jrnl')
    BY EmptyJournal
  <1> QED
    BY <1>1, <1>2, <1>5, <1>6, <1>7, <1>8, <1>9, OneCall

(* A transaction that ends with its journal still there leaves a pager that may only be unlocked. *)
LEMMA EndingInError ==
    ASSUME PagerInv, NEW c \in Conn, Undisturbed(c), pager[c].eState \in CACHEMOD..FINISHED,
           UNCHANGED <<file, jrnl>>, Downgrade(c),
           pager' = [pager EXCEPT ![c] = [Ended(pager[c]) EXCEPT !.eState = ERROR]]
    PROVE  PagerInv'
  <1> DEFINE P == pager[c]
             R == Ended(P)
             Q == pager'[c]
  <1>1. P \in Pagers /\ Calls(P, fileLock[c]) /\ file \in Files /\ jrnl \in Seq(Segments) /\ Journal(jrnl)
    BY Facts
  <1>2. Q = [R EXCEPT !.eState = ERROR] /\ pager' = [pager EXCEPT ![c] = Q]
    BY Called
  <1>3. P.eLock >= SHARED
    BY <1>1 DEF Calls, Pagers
  <1>4. LockTypes' /\ LockTable' /\ fileLock'[c] = SHARED /\ \A d \in Conn \ {c} : fileLock'[d] = fileLock[d]
    BY <1>3, Downgraded
  <1>5. R \in Pagers /\ R.eLock = SHARED /\ R.op = "none" /\ ~R.changeCountDone
    BY <1>1, EndedOK
  <1>6. ERROR \in OPEN..ERROR
    OBVIOUS
  <1> HIDE DEF R, Q
  <1>7. Q \in Pagers
    BY <1>2, <1>5, <1>6, StateField
  <1>8. Q.eState = ERROR /\ Q.eLock = SHARED /\ Q.op = "none"
    BY <1>2, <1>5 DEF Pagers
  <1>9. ~Q.changeCountDone
    BY <1>2, <1>5 DEF Pagers
  <1>10. Calls(Q, SHARED) /\ Sizes(Q, file', jrnl') /\ Cached(Q)
    BY <1>8, <1>9 DEF Calls, Sizes, Cached
  <1> QED
    BY <1>1, <1>2, <1>4, <1>7, <1>10, OneCall DEF Q

LEMMA CommitPhaseTwoStep ==
    ASSUME PagerInv, NEW c \in Conn, Undisturbed(c), CommitPhaseTwo(c) \/ CommitPhaseTwoFails(c)
    PROVE  PagerInv'
  <1>1. Calls(pager[c], fileLock[c]) /\ Sizes(pager[c], file, jrnl)
    BY Facts
  <1>2. pager[c].op = "finish"
    BY DEF CommitPhaseTwo, CommitPhaseTwoFails
  <1>3. pager[c].eState \in CACHEMOD..FINISHED /\ pager[c].dbSize = file.size
    BY <1>1, <1>2 DEF Calls, Sizes
  <1>4. CASE CommitPhaseTwo(c)
    BY <1>3, <1>4, Ending DEF CommitPhaseTwo
  <1>5. CASE CommitPhaseTwoFails(c)
    BY <1>3, <1>5, EndingInError DEF CommitPhaseTwoFails
  <1> QED
    BY <1>4, <1>5

---------------------------------------------------------------------------
(* Rolling back *)

LEMMA RollbackStep ==
    ASSUME PagerInv, NEW c \in Conn, Undisturbed(c), Rollback(c)
    PROVE  PagerInv'
  <1> DEFINE P == pager[c]
             Q == pager'[c]
             todo == Playable(P.hdr)
             n == jrnl[1].orig
  <1>1. /\ P \in Pagers /\ LockTypes /\ LockTable /\ Calls(P, fileLock[c]) /\ Sizes(P, file, jrnl) /\ Cached(P)
        /\ file \in Files /\ jrnl \in Seq(Segments) /\ Journal(jrnl)
    BY Facts
  <1>2. P.eState \in {CACHEMOD, DBMOD} /\ UNCHANGED <<jrnl, inode, fileLock>>
    BY DEF Rollback
  <1>3. jrnl # << >> /\ n = P.dbOrigSize /\ P.cache[1] # NoPage /\ (P.eState = CACHEMOD => n = file.size)
    BY <1>1, <1>2 DEF Sizes, Cached
  <1>4. n \in 0..MaxPage
    BY <1>1, <1>3 DEF Pagers
  <1>5. file' \in Files /\ file'.size = n
    <2>1. CASE P.eState = DBMOD
      <3>1. file' = Truncated(file, n)
        BY <2>1 DEF Rollback
      <3> HIDE DEF n
      <3> QED
        BY <1>1, <1>4, <3>1, TruncatedType
    <2>2. CASE P.eState = CACHEMOD
      <3>1. file' = file
        BY <2>2 DEF Rollback
      <3> QED
        BY <1>1, <1>3, <2>2, <3>1
    <2> QED
      BY <1>2, <2>1, <2>2
  <1>6. file' = file \/ \A d \in Conn \ {c} : fileLock[d] = NO
    <2>1. CASE P.eState = DBMOD
      <3>1. fileLock[c] = EXCLUSIVE
        BY <1>1, <2>1 DEF Calls
      <3> QED
        BY <1>1, <3>1, Above
    <2>2. CASE P.eState = CACHEMOD
      BY <2>2 DEF Rollback
    <2> QED
      BY <1>2, <2>1, <2>2
  <1>7. todo \in SUBSET (Nat \X Nat) /\ \A r \in todo : r[1] \in DOMAIN jrnl /\ r[2] \in DOMAIN jrnl[r[1]].recs
    BY <1>1, PlayableType
  <1>8. Q = [P EXCEPT !.op = "rollback", !.todo = todo, !.dbSize = n] /\ pager' = [pager EXCEPT ![c] = Q]
    <2>1. pager' = [pager EXCEPT ![c] = [P EXCEPT !.op = "rollback", !.todo = todo, !.dbSize = n]]
      BY DEF Rollback
    <2> HIDE DEF todo, n
    <2> QED
      BY <2>1, Called
  <1>9. n = jrnl'[1].orig
    BY <1>2
  <1> HIDE DEF todo, n, Q
  <1>10. Q \in Pagers
    BY <1>1, <1>4, <1>7, <1>8, RollbackFields
  <1>11. /\ Q.eState = P.eState /\ Q.eLock = P.eLock /\ Q.op = "rollback" /\ Q.cache = P.cache /\ Q.todo = todo
         /\ Q.dbSize = n /\ Q.dbOrigSize = P.dbOrigSize /\ Q.changeCountDone = P.changeCountDone
    BY <1>1, <1>8 DEF Pagers
  <1>12. Calls(Q, fileLock[c])
    BY <1>1, <1>2, <1>11 DEF Calls
  <1>13. Sizes(Q, file', jrnl')
    BY <1>2, <1>3, <1>5, <1>7, <1>9, <1>11 DEF Sizes
  <1>14. Cached(Q)
    BY <1>2, <1>3, <1>11 DEF Cached
  <1>15. LockTypes' /\ LockTable'
    BY <1>2, SameLocks
  <1> QED
    BY <1>1, <1>2, <1>5, <1>6, <1>8, <1>10, <1>12, <1>13, <1>14, <1>15, OneCall DEF Q

LEMMA EndRollbackStep ==
    ASSUME PagerInv, NEW c \in Conn, Undisturbed(c), EndRollback(c) \/ RollbackFails(c)
    PROVE  PagerInv'
  <1> DEFINE P == pager[c]
             Q == pager'[c]
  <1>1. /\ P \in Pagers /\ Calls(P, fileLock[c]) /\ Sizes(P, file, jrnl) /\ Cached(P)
        /\ file \in Files /\ jrnl \in Seq(Segments) /\ Journal(jrnl)
    BY Facts
  <1>2. P.op = "rollback"
    BY DEF EndRollback, RollbackFails
  <1>3. P.eState \in {CACHEMOD, DBMOD} /\ P.eState \in CACHEMOD..FINISHED /\ P.dbSize = file.size
    BY <1>1, <1>2 DEF Calls, Sizes
  <1>4. CASE EndRollback(c)
    BY <1>3, <1>4, Ending DEF EndRollback
  <1>5. CASE RollbackFails(c) /\ P.todo = {}
    BY <1>3, <1>5, EndingInError DEF RollbackFails
  <1>6. CASE RollbackFails(c) /\ P.todo # {}
    <2>1. /\ pager' = [pager EXCEPT ![c] = [P EXCEPT !.eState = ERROR, !.op = "none", !.todo = {}]]
          /\ UNCHANGED <<file, jrnl, inode, fileLock>>
      BY <1>6 DEF RollbackFails
    <2>2. Q = [P EXCEPT !.eState = ERROR, !.op = "none", !.todo = {}] /\ pager' = [pager EXCEPT ![c] = Q]
      BY <2>1, Called
    <2>3. ERROR \in OPEN..ERROR
      OBVIOUS
    <2> HIDE DEF Q
    <2>4. Q \in Pagers
      BY <1>1, <2>2, <2>3, RollbackFailsFields
    <2>5. Q.eState = ERROR /\ Q.eLock = P.eLock /\ Q.op = "none" /\ Q.changeCountDone = P.changeCountDone
      BY <1>1, <2>2 DEF Pagers
    <2>6. Calls(Q, fileLock[c])
      BY <1>1, <1>3, <2>5 DEF Calls
    <2>7. Sizes(Q, file, jrnl) /\ Cached(Q)
      BY <2>5 DEF Sizes, Cached
    <2>8. LockTypes' /\ LockTable'
      BY <2>1, SameLocks
    <2> QED
      BY <1>1, <2>1, <2>2, <2>4, <2>6, <2>7, <2>8, OneCall DEF Q
  <1> QED
    BY <1>4, <1>5, <1>6

---------------------------------------------------------------------------
(* The process dies, or starts: no connection has a lock or a cache. *)
LEMMA Started ==
    ASSUME pager = [c \in Conn |-> NewPager], fileLock = [c \in Conn |-> NO],
           inode = [eFileLock |-> NO, nShared |-> 0],
           file \in Files, jrnl \in Seq(Segments), Journal(jrnl)
    PROVE  PagerInv
  <1>1. \A c \in Conn : pager[c] = NewPager /\ fileLock[c] = NO
    OBVIOUS
  <1>2. \A c \in Conn : Calls(pager[c], fileLock[c]) /\ Sizes(pager[c], file, jrnl) /\ Cached(pager[c])
    BY <1>1, NewPagerOK, Unlocking
  <1>3. Holders = {}
    BY <1>1 DEF Holders
  <1>4. LockTable
    BY <1>1, <1>3, FS_EmptySet DEF LockTable
  <1>5. PagerTypes
    <2>1. pager \in [Conn -> Pagers]
      BY NewPagerOK
    <2>2. inode \in [eFileLock : NO..EXCLUSIVE, nShared : Nat] /\ fileLock \in [Conn -> NO..EXCLUSIVE]
      OBVIOUS
    <2> QED
      BY <2>1, <2>2 DEF PagerTypes, Files
  <1> QED
    BY <1>2, <1>4, <1>5 DEF PagerInv

LEMMA InitInv == Init => PagerInv
  <1> SUFFICES ASSUME Init PROVE PagerInv
    OBVIOUS
  <1>1. file \in Files
    BY DEF Init, Files, Page
  <1>2. jrnl \in Seq(Segments) /\ Journal(jrnl)
    BY EmptyJournal DEF Init
  <1> QED
    BY <1>1, <1>2, Started DEF Init

LEMMA CrashStep ==
    ASSUME PagerInv, Crash
    PROVE  PagerInv'
  <1>1. file' \in Files /\ jrnl' \in Seq(Segments) /\ Journal(jrnl')
    BY DEF PagerInv, PagerTypes, Crash, Files
  <1>2. /\ pager' = [c \in Conn |-> NewPager] /\ fileLock' = [c \in Conn |-> NO]
        /\ inode' = [eFileLock |-> NO, nShared |-> 0]
    BY DEF Crash
  <1>3. Holders' = {} /\ \A c \in Conn : pager'[c] = NewPager /\ fileLock'[c] = NO
    BY <1>2 DEF Holders
  <1>4. \A c \in Conn : Calls(pager'[c], fileLock'[c]) /\ Sizes(pager'[c], file', jrnl') /\ Cached(pager'[c])
    BY <1>3, NewPagerOK, Unlocking
  <1>5. LockTable'
    BY <1>2, <1>3, FS_EmptySet DEF LockTable
  <1>6. PagerTypes'
    <2>1. pager' \in [Conn -> Pagers]
      BY <1>2, NewPagerOK
    <2>2. inode' \in [eFileLock : NO..EXCLUSIVE, nShared : Nat] /\ fileLock' \in [Conn -> NO..EXCLUSIVE]
      BY <1>2
    <2> QED
      BY <1>1, <2>1, <2>2 DEF PagerTypes, Files
  <1> QED
    BY <1>1, <1>4, <1>5, <1>6 DEF PagerInv

LEMMA NextInv == PagerInv /\ [Next]_vars => PagerInv'
  <1> SUFFICES ASSUME PagerInv, [Next]_vars PROVE PagerInv'
    OBVIOUS
  <1>1. CASE UNCHANGED vars
    BY <1>1 DEF vars, PagerInv, PagerTypes, LockTable, Holders
  <1>2. CASE Crash
    BY <1>2, CrashStep
  <1>3. ASSUME NEW c \in Conn, Undisturbed(c), Reading(c) PROVE PagerInv'
    <2>1. CASE SharedLock(c) \/ EndRead(c) \/ Close(c)
      BY <1>3, <2>1, SharedLockStep, EndReadStep, CloseStep
    <2>2. CASE BeginHotRollback(c) \/ EndHotRollback(c) \/ HotRollbackFails(c)
      BY <1>3, <2>2, BeginHotRollbackStep, EndHotRollbackStep, HotRollbackFailsStep
    <2>3. CASE Recycle(c) \/ \E p \in Page : Fetch(c, p)
      BY <1>3, <2>3, RecycleStep, FetchStep
    <2> QED
      BY <1>3, <2>1, <2>2, <2>3 DEF Reading
  <1>4. ASSUME NEW c \in Conn, Undisturbed(c), Playing(c) PROVE PagerInv'
    BY <1>4, PlayRecordStep DEF Playing
  <1>5. ASSUME NEW c \in Conn, Undisturbed(c), Writing(c) PROVE PagerInv'
    <2>1. CASE Begin(c) \/ BeginExclusive(c) \/ EndUnchanged(c)
      BY <1>5, <2>1, BeginStep, BeginExclusiveStep, EndUnchangedStep
    <2>2. CASE \E p \in Page, v \in Input : Write(c, p, v)
      BY <1>5, <2>2, WriteStep
    <2>3. CASE \E p \in Page : WriteFails(c, p) \/ Spill(c, p) \/ SpillFails(c, p) \/ SpillBusy(c, p)
      BY <1>5, <2>3, WriteFailsStep, SpillStep, SpillFailsStep, SpillBusyStep
    <2>4. CASE Rollback(c) \/ EndRollback(c) \/ RollbackFails(c)
      BY <1>5, <2>4, RollbackStep, EndRollbackStep
    <2> QED
      BY <1>5, <2>1, <2>2, <2>3, <2>4 DEF Writing
  <1>6. ASSUME NEW c \in Conn, Undisturbed(c), Committing(c) PROVE PagerInv'
    <2>1. CASE Commit(c) \/ CommitBusy(c) \/ SyncFails(c)
      BY <1>6, <2>1, CommitStep, CommitBusyStep, SyncFailsStep
    <2>2. CASE \E p \in Page : FlushPage(c, p)
      BY <1>6, <2>2, FlushPageStep
    <2>3. CASE FlushFails(c) \/ EndFlush(c) \/ CommitPhaseTwo(c) \/ CommitPhaseTwoFails(c)
      BY <1>6, <2>3, FlushFailsStep, EndFlushStep, CommitPhaseTwoStep
    <2> QED
      BY <1>6, <2>1, <2>2, <2>3 DEF Committing
  <1> QED
    BY <1>1, <1>2, <1>3, <1>4, <1>5, <1>6 DEF Next

---------------------------------------------------------------------------
LEMMA AlwaysInv == Spec => []PagerInv
  <1> QED
    BY InitInv, NextInv, PTL DEF Spec

(* The pagers, the locks and the two files keep their types in every run: no sequence of calls, failures and crashes *)
(* takes a size past the file, a lock level past EXCLUSIVE or a Pager into a state sqlite3.c does not have. *)
THEOREM PagerTypesHold == Spec => []PagerTypes
  <1>1. PagerInv => PagerTypes
    BY DEF PagerInv
  <1> QED
    BY <1>1, AlwaysInv, PTL

(* unixLock and posixUnlock exclude: for any number of connections of the process, at most one is above SHARED, an *)
(* EXCLUSIVE one is alone, the shared record of the inode is the sum of the files' locks, and each Pager has the lock *)
(* that it believes it has. *)
THEOREM LocksAlwaysExclude == Spec => []LocksExclude
  <1>1. PagerInv => LocksExclude
    <2>1. PagerInv => \A c \in Conn :
            pager[c].eLock = fileLock[c] \/ (pager[c].eLock = RESERVED /\ fileLock[c] = PENDING)
      BY DEF PagerInv, Calls
    <2>2. PagerInv => LockTable
      BY DEF PagerInv
    <2> QED
      BY <2>1, <2>2 DEF LocksExclude, LockTable, Holders
  <1> QED
    BY <1>1, AlwaysInv, PTL

(* What assert_pager_state asserts holds in every state of every pager, in the middle of its calls included. *)
THEOREM PagerStatesHold == Spec => []PagerStates
  <1>1. ASSUME PagerInv PROVE PagerStates
    <2> SUFFICES ASSUME NEW c \in Conn
                 PROVE  LET P == pager[c]
                        IN  /\ P.changeCountDone => P.eLock >= RESERVED
                            /\ P.eState = OPEN => P.eLock = NO \/ P.op = "hot"
                            /\ P.eState = READER => P.eLock >= SHARED
                            /\ P.eState = WRITER_LOCKED =>
                                 P.eLock >= RESERVED /\ P.dbSize = P.dbOrigSize /\ P.dbOrigSize = file.size
                            /\ P.eState = CACHEMOD => P.eLock >= RESERVED /\ jrnl # << >> /\ P.dbOrigSize = file.size
                            /\ P.eState \in {DBMOD, FINISHED} => P.eLock = EXCLUSIVE /\ jrnl # << >>
                            /\ P.op = "hot" => P.eLock = EXCLUSIVE
      BY <1>1 DEF PagerStates
    <2> DEFINE P == pager[c]
    <2>1. P \in Pagers /\ Calls(P, fileLock[c]) /\ Sizes(P, file, jrnl)
      BY <1>1, Facts
    <2>2. P.eState = OPEN => P.eLock = NO \/ P.op = "hot"
      <3>1. P.op \in {"none", "flush", "finish", "failed", "rollback", "hot"}
        BY <2>1 DEF Pagers
      <3> QED
        BY <2>1, <3>1 DEF Calls
    <2>3. /\ P.changeCountDone => P.eLock >= RESERVED
          /\ P.eState = READER => P.eLock >= SHARED
          /\ P.eState \in {WRITER_LOCKED, CACHEMOD} => P.eLock >= RESERVED
          /\ P.eState \in {DBMOD, FINISHED} => P.eLock = EXCLUSIVE
          /\ P.op = "hot" => P.eLock = EXCLUSIVE
      BY <2>1 DEF Calls
    <2>4. /\ P.eState = WRITER_LOCKED => P.dbSize = P.dbOrigSize /\ P.dbOrigSize = file.size
          /\ P.eState = CACHEMOD => jrnl # << >> /\ P.dbOrigSize = file.size
          /\ P.eState \in {DBMOD, FINISHED} => jrnl # << >>
      BY <2>1 DEF Sizes
    <2> QED
      BY <2>2, <2>3, <2>4
  <1> QED
    BY <1>1, AlwaysInv, PTL

---------------------------------------------------------------------------
(***************************************************************************)
(* Atomicity.  The argument is about the content that the file and the     *)
(* journal have together: it changes only in the step that deletes the     *)
(* journal of a commit.                                                    *)
(***************************************************************************)
(* The records of a journal, and those that no header counts yet. *)
Logged(j) == UNION {{j[k].recs[i] : i \in DOMAIN j[k].recs} : k \in DOMAIN j}
Unsynced(j) == UNION {{j[k].recs[i] : i \in DOMAIN j[k].recs} : k \in {n \in DOMAIN j : ~j[n].magic}}
Covered(j, p) == \E r \in Logged(j) : r.page = p
Armed(j) == j # << >> /\ j[1].magic

(* The content before the transaction of the journal, if there is one. *)
OldSize(f, j) == IF j = << >> THEN f.size ELSE j[1].orig
Old(f, j, p) == IF Covered(j, p) THEN (CHOOSE r \in Logged(j) : r.page = p).val ELSE f.page[p]
Version(f, j) == IF OldSize(f, j) = 0 THEN 0 ELSE Old(f, j, 1)
Current(f, j) == [size |-> OldSize(f, j), page |-> [p \in 2..OldSize(f, j) |-> Old(f, j, p)]]

(* The segments of a journal but the last have their headers, which count all records. *)
Segmented(j) ==
  \A k \in DOMAIN j : /\ k < Len(j) => j[k].magic
                      /\ j[k].nRec = IF j[k].magic THEN Len(j[k].recs) ELSE 0

(* A journal has one value for a page, and until its header is written the file has the same. *)
Single(j) == \A r, s \in Logged(j) : r.page = s.page => r.val = s.val
Unwritten(f, j) == \A r \in Unsynced(j) : f.page[r.page] = r.val

Restores(f, j) ==
  /\ Segmented(j)
  /\ Single(j)
  /\ Unwritten(f, j)
  /\ j # << >> => j[1].orig <= f.size /\ (~j[1].magic => j[1].orig = f.size)
  /\ \A p \in Page : p > f.size => f.page[p] = 0
  /\ \A p \in 2..OldSize(f, j) : Old(f, j, p) \in Data

---------------------------------------------------------------------------
(* The journal as a set of records *)

LEMMA LoggedIs ==
    ASSUME NEW j
    PROVE  /\ \A k \in DOMAIN j : \A i \in DOMAIN j[k].recs : j[k].recs[i] \in Logged(j)
           /\ \A r \in Logged(j) : \E k \in DOMAIN j : \E i \in DOMAIN j[k].recs : r = j[k].recs[i]
           /\ \A k \in DOMAIN j : ~j[k].magic => \A i \in DOMAIN j[k].recs : j[k].recs[i] \in Unsynced(j)
           /\ \A r \in Unsynced(j) :
                \E k \in DOMAIN j : ~j[k].magic /\ \E i \in DOMAIN j[k].recs : r = j[k].recs[i]
  BY DEF Logged, Unsynced

LEMMA UnsyncedLogged ==
    ASSUME NEW j
    PROVE  Unsynced(j) \subseteq Logged(j)
  BY LoggedIs

LEMMA LoggedType ==
    ASSUME NEW j \in Seq(Segments), NEW r \in Logged(j)
    PROVE  r \in [page : Page, val : Nat] /\ r.page \in Page /\ r.val \in Nat
  <1>0. PICK k \in DOMAIN j : \E i \in DOMAIN j[k].recs : r = j[k].recs[i]
    BY LoggedIs
  <1>1. PICK i \in DOMAIN j[k].recs : r = j[k].recs[i]
    BY <1>0
  <1>2. j[k] \in Segments
    BY SeqElement
  <1>3. j[k].recs \in Seq([page : Page, val : Nat])
    BY <1>2 DEF Segments
  <1>4. r \in [page : Page, val : Nat]
    BY <1>1, <1>3, SeqElement
  <1> QED
    BY <1>4

LEMMA LoggedPage ==
    ASSUME NEW j, Journal(j), NEW r \in Logged(j)
    PROVE  r.page <= j[1].orig
  BY LoggedIs DEF Journal

LEMMA NoRecords ==
    ASSUME NEW j, \A k \in DOMAIN j : DOMAIN j[k].recs = {}
    PROVE  Logged(j) = {} /\ Unsynced(j) = {}
  BY LoggedIs

LEMMA NoJournal == Logged(<< >>) = {} /\ Unsynced(<< >>) = {} /\ ~Armed(<< >>) /\ Segmented(<< >>)
  <1>1. DOMAIN << >> = {}
    OBVIOUS
  <1> QED
    BY <1>1, NoRecords DEF Armed, Segmented

(* What pager_write and syncJournal do to the set of records *)
LEMMA RecordLogged ==
    ASSUME NEW j \in Seq(Segments), j # << >>, ~j[Len(j)].magic, Segmented(j), NEW p \in Page, NEW v \in Nat
    PROVE  LET k == WithRecord(j, p, v)
               new == [page |-> p, val |-> v]
           IN  /\ Logged(k) = Logged(j) \cup {new}
               /\ Unsynced(k) = Unsynced(j) \cup {new}
               /\ Segmented(k) /\ Len(k) = Len(j) /\ DOMAIN k = DOMAIN j
               /\ \A n \in DOMAIN j : k[n].magic = j[n].magic /\ k[n].orig = j[n].orig
  <1> DEFINE last == j[Len(j)]
             new == [page |-> p, val |-> v]
             recs == Append(last.recs, new)
             k == WithRecord(j, p, v)
  <1>1. last \in Segments /\ Len(j) \in Nat \ {0} /\ Len(j) \in DOMAIN j /\ DOMAIN j = 1..Len(j)
    OBVIOUS
  <1>2. last.recs \in Seq([page : Page, val : Nat]) /\ last.nRec = 0
    BY <1>1 DEF Segments, Segmented
  <1>3. /\ DOMAIN recs = DOMAIN last.recs \cup {Len(last.recs) + 1}
        /\ \A i \in DOMAIN last.recs : recs[i] = last.recs[i]
        /\ recs[Len(last.recs) + 1] = new
    BY <1>2
  <1>4. k = [j EXCEPT ![Len(j)] = [last EXCEPT !.recs = recs]]
    BY DEF WithRecord
  <1> HIDE DEF recs, new
  <1>5. Len(k) = Len(j) /\ DOMAIN k = DOMAIN j
    BY <1>1, <1>4
  <1>6. \A n \in DOMAIN j : /\ k[n].magic = j[n].magic /\ k[n].orig = j[n].orig /\ k[n].nRec = j[n].nRec
                            /\ k[n].recs = IF n = Len(j) THEN recs ELSE j[n].recs
    BY <1>1, <1>4 DEF Segments
  <1> HIDE DEF k
  <1>7. ASSUME NEW r \in Logged(k) PROVE r \in Logged(j) \cup {new}
    <2>0. PICK n \in DOMAIN k : \E i \in DOMAIN k[n].recs : r = k[n].recs[i]
      BY LoggedIs
    <2>1. PICK i \in DOMAIN k[n].recs : r = k[n].recs[i]
      BY <2>0
    <2>2. CASE i \in DOMAIN j[n].recs /\ k[n].recs[i] = j[n].recs[i]
      BY <2>1, <2>2, <1>5, LoggedIs
    <2>3. CASE k[n].recs[i] = new
      BY <2>1, <2>3
    <2> QED
      BY <2>1, <2>2, <2>3, <1>3, <1>5, <1>6
  <1>8. ASSUME NEW r \in Unsynced(k) PROVE r \in Unsynced(j) \cup {new}
    <2>1. PICK n \in DOMAIN k : ~k[n].magic /\ \E i \in DOMAIN k[n].recs : r = k[n].recs[i]
      BY LoggedIs
    <2>2. PICK i \in DOMAIN k[n].recs : r = k[n].recs[i]
      BY <2>1
    <2>3. CASE i \in DOMAIN j[n].recs /\ k[n].recs[i] = j[n].recs[i]
      BY <2>1, <2>2, <2>3, <1>5, <1>6, LoggedIs
    <2>4. CASE k[n].recs[i] = new
      BY <2>2, <2>4
    <2> QED
      BY <2>1, <2>2, <2>3, <2>4, <1>3, <1>5, <1>6
  <1>9. ASSUME NEW n \in DOMAIN j, NEW i \in DOMAIN j[n].recs
        PROVE  i \in DOMAIN k[n].recs /\ k[n].recs[i] = j[n].recs[i]
    BY <1>3, <1>6
  <1>10. ASSUME NEW r \in Logged(j) PROVE r \in Logged(k)
    <2>0. PICK n \in DOMAIN j : \E i \in DOMAIN j[n].recs : r = j[n].recs[i]
      BY LoggedIs
    <2>1. PICK i \in DOMAIN j[n].recs : r = j[n].recs[i]
      BY <2>0
    <2> QED
      BY <2>1, <1>5, <1>9, LoggedIs
  <1>11. ASSUME NEW r \in Unsynced(j) PROVE r \in Unsynced(k)
    <2>1. PICK n \in DOMAIN j : ~j[n].magic /\ \E i \in DOMAIN j[n].recs : r = j[n].recs[i]
      BY LoggedIs
    <2>2. PICK i \in DOMAIN j[n].recs : r = j[n].recs[i]
      BY <2>1
    <2>3. ~k[n].magic /\ i \in DOMAIN k[n].recs /\ r = k[n].recs[i] /\ n \in DOMAIN k
      BY <2>1, <2>2, <1>5, <1>6, <1>9
    <2> QED
      BY <2>3, LoggedIs
  <1>12. new \in Logged(k) /\ new \in Unsynced(k)
    <2>1. k[Len(j)].recs = recs /\ ~k[Len(j)].magic /\ Len(last.recs) + 1 \in DOMAIN recs
      BY <1>1, <1>3, <1>6
    <2> QED
      BY <2>1, <1>1, <1>3, <1>5, LoggedIs
  <1>13. Segmented(k)
    <2> SUFFICES ASSUME NEW n \in DOMAIN k
                 PROVE  /\ n < Len(k) => k[n].magic
                        /\ k[n].nRec = IF k[n].magic THEN Len(k[n].recs) ELSE 0
      BY DEF Segmented
    <2>1. CASE n = Len(j)
      BY <2>1, <1>1, <1>2, <1>5, <1>6
    <2>2. CASE n # Len(j)
      BY <2>2, <1>5, <1>6 DEF Segmented
    <2> QED
      BY <2>1, <2>2
  <1>14. Logged(k) = Logged(j) \cup {new} /\ Unsynced(k) = Unsynced(j) \cup {new}
    BY <1>7, <1>8, <1>10, <1>11, <1>12
  <1> QED
    BY <1>5, <1>6, <1>13, <1>14 DEF k, new

LEMMA SyncLogged ==
    ASSUME NEW j \in Seq(Segments), j # << >>, Segmented(j)
    PROVE  /\ Logged(Synced(j)) = Logged(j) /\ Unsynced(Synced(j)) = {}
           /\ Segmented(Synced(j)) /\ Len(Synced(j)) = Len(j) /\ Armed(Synced(j))
           /\ \A k \in DOMAIN Synced(j) : Synced(j)[k].magic
           /\ Synced(j)[1].orig = j[1].orig
  <1> DEFINE last == j[Len(j)]
             new == [last EXCEPT !.magic = TRUE, !.nRec = Len(last.recs)]
             k == Synced(j)
  <1>1. last \in Segments /\ Len(j) \in Nat \ {0} /\ Len(j) \in DOMAIN j /\ DOMAIN j = 1..Len(j)
    OBVIOUS
  <1>2. new.magic = TRUE /\ new.recs = last.recs /\ new.orig = last.orig /\ new.nRec = Len(last.recs)
    BY <1>1 DEF Segments
  <1>3. k = [j EXCEPT ![Len(j)] = new]
    BY DEF Synced
  <1> HIDE DEF new
  <1>4. Len(k) = Len(j) /\ DOMAIN k = DOMAIN j
    BY <1>1, <1>3
  <1>5. \A n \in DOMAIN j : k[n].recs = j[n].recs /\ k[n].orig = j[n].orig
    BY <1>1, <1>2, <1>3
  <1>6. \A n \in DOMAIN j : k[n].magic /\ k[n].nRec = Len(k[n].recs)
    <2>1. ASSUME NEW n \in DOMAIN j, n # Len(j) PROVE k[n].magic /\ k[n].nRec = Len(k[n].recs)
      <3>1. n < Len(j) /\ k[n] = j[n]
        BY <2>1, <1>1, <1>3
      <3> QED
        BY <3>1 DEF Segmented
    <2>2. k[Len(j)] = new
      BY <1>1, <1>3
    <2> QED
      BY <2>1, <2>2, <1>2
  <1>7. 1 \in DOMAIN k /\ k # << >>
    BY <1>1, <1>4
  <1> HIDE DEF k
  <1>8. \A r \in Logged(k) : r \in Logged(j)
    <2> SUFFICES ASSUME NEW r \in Logged(k) PROVE r \in Logged(j)
      OBVIOUS
    <2>0. PICK n \in DOMAIN k : \E i \in DOMAIN k[n].recs : r = k[n].recs[i]
      BY LoggedIs
    <2>1. PICK i \in DOMAIN k[n].recs : r = k[n].recs[i]
      BY <2>0
    <2> QED
      BY <2>1, <1>4, <1>5, LoggedIs
  <1>9. \A r \in Logged(j) : r \in Logged(k)
    <2> SUFFICES ASSUME NEW r \in Logged(j) PROVE r \in Logged(k)
      OBVIOUS
    <2>0. PICK n \in DOMAIN j : \E i \in DOMAIN j[n].recs : r = j[n].recs[i]
      BY LoggedIs
    <2>1. PICK i \in DOMAIN j[n].recs : r = j[n].recs[i]
      BY <2>0
    <2> QED
      BY <2>1, <1>4, <1>5, LoggedIs
  <1>10. Unsynced(k) = {}
    BY <1>4, <1>6, LoggedIs
  <1>11. Segmented(k) /\ Armed(k)
    BY <1>4, <1>6, <1>7 DEF Segmented, Armed
  <1> QED
    BY <1>4, <1>5, <1>6, <1>7, <1>8, <1>9, <1>10, <1>11 DEF k

LEMMA SegmentLogged ==
    ASSUME NEW j \in Seq(Segments), Segmented(j), \A n \in DOMAIN j : j[n].magic, NEW size \in 0..MaxPage
    PROVE  LET k == Append(j, NewSegment(size))
           IN  /\ Logged(k) = Logged(j) /\ Unsynced(k) = {}
               /\ Segmented(k) /\ Len(k) = Len(j) + 1 /\ ~k[Len(k)].magic
               /\ k[1].orig = IF j = << >> THEN size ELSE j[1].orig
               /\ Armed(k) <=> j # << >>
  <1> DEFINE new == NewSegment(size)
             k == Append(j, new)
  <1>1. new.recs = << >> /\ new.nRec = 0 /\ new.magic = FALSE /\ new.orig = size /\ DOMAIN new.recs = {}
    BY DEF NewSegment
  <1> HIDE DEF new
  <1>2. /\ Len(j) \in Nat /\ DOMAIN j = 1..Len(j)
        /\ Len(k) = Len(j) + 1 /\ DOMAIN k = 1..(Len(j) + 1)
        /\ \A n \in DOMAIN j : k[n] = j[n]
        /\ k[Len(j) + 1] = new
    OBVIOUS
  <1>3. j = << >> <=> Len(j) = 0
    OBVIOUS
  <1>4. 1 \in DOMAIN k /\ k # << >> /\ k[1] = IF j = << >> THEN new ELSE j[1]
    BY <1>2, <1>3
  <1> HIDE DEF k
  <1>5. \A n \in DOMAIN k : n \in DOMAIN j \/ k[n] = new
    BY <1>2
  <1>6. \A r \in Logged(k) : r \in Logged(j)
    <2> SUFFICES ASSUME NEW r \in Logged(k) PROVE r \in Logged(j)
      OBVIOUS
    <2>0. PICK n \in DOMAIN k : \E i \in DOMAIN k[n].recs : r = k[n].recs[i]
      BY LoggedIs
    <2>1. PICK i \in DOMAIN k[n].recs : r = k[n].recs[i]
      BY <2>0
    <2>2. n \in DOMAIN j /\ k[n] = j[n]
      BY <2>1, <1>1, <1>2, <1>5
    <2> QED
      BY <2>1, <2>2, LoggedIs
  <1>7. \A r \in Logged(j) : r \in Logged(k)
    <2> SUFFICES ASSUME NEW r \in Logged(j) PROVE r \in Logged(k)
      OBVIOUS
    <2>0. PICK n \in DOMAIN j : \E i \in DOMAIN j[n].recs : r = j[n].recs[i]
      BY LoggedIs
    <2>1. PICK i \in DOMAIN j[n].recs : r = j[n].recs[i]
      BY <2>0
    <2> QED
      BY <2>1, <1>2, LoggedIs
  <1>8. Unsynced(k) = {}
    <2> SUFFICES ASSUME NEW r \in Unsynced(k) PROVE FALSE
      OBVIOUS
    <2>1. PICK n \in DOMAIN k : ~k[n].magic /\ \E i \in DOMAIN k[n].recs : r = k[n].recs[i]
      BY LoggedIs
    <2> QED
      BY <2>1, <1>1, <1>2, <1>5
  <1>9. Segmented(k)
    <2> SUFFICES ASSUME NEW n \in DOMAIN k
                 PROVE  /\ n < Len(k) => k[n].magic
                        /\ k[n].nRec = IF k[n].magic THEN Len(k[n].recs) ELSE 0
      BY DEF Segmented
    <2>1. CASE n \in DOMAIN j
      BY <2>1, <1>2 DEF Segmented
    <2>2. CASE n \notin DOMAIN j
      BY <2>2, <1>1, <1>2
    <2> QED
      BY <2>1, <2>2
  <1>10. ~k[Len(k)].magic /\ (Armed(k) <=> j # << >>)
    <2>1. j # << >> => j[1].magic
      BY <1>2, <1>3
    <2> QED
      BY <2>1, <1>1, <1>2, <1>4 DEF Armed
  <1>11. k[1].orig = IF j = << >> THEN size ELSE j[1].orig
    BY <1>1, <1>4
  <1> QED
    BY <1>2, <1>6, <1>7, <1>8, <1>9, <1>10, <1>11 DEF k, new

---------------------------------------------------------------------------
(* The content that the file and the journal have together *)

AtRest(f, j) == OldSize(f, j) = f.size /\ \A p \in Page : Old(f, j, p) = f.page[p]

Kept(f, j, g, k) ==
  /\ OldSize(g, k) = OldSize(f, j)
  /\ \A p \in Page : p <= OldSize(f, j) => Old(g, k, p) = Old(f, j, p)

LEMMA OldLogged ==
    ASSUME NEW f, NEW j, Single(j), NEW r \in Logged(j)
    PROVE  Covered(j, r.page) /\ Old(f, j, r.page) = r.val
  <1>1. Covered(j, r.page)
    BY DEF Covered
  <1> DEFINE s == CHOOSE s \in Logged(j) : s.page = r.page
  <1>2. s \in Logged(j) /\ s.page = r.page
    BY <1>1 DEF Covered
  <1>3. Old(f, j, r.page) = s.val
    BY <1>1 DEF Old
  <1> QED
    BY <1>1, <1>2, <1>3 DEF Single

LEMMA OldUncovered ==
    ASSUME NEW f, NEW j, NEW p, ~Covered(j, p)
    PROVE  Old(f, j, p) = f.page[p]
  BY DEF Old

LEMMA OldAlike ==
    ASSUME NEW f, NEW j, NEW k, Logged(k) = Logged(j), NEW p
    PROVE  Old(f, k, p) = Old(f, j, p) /\ (Covered(k, p) <=> Covered(j, p))
  BY DEF Old, Covered

LEMMA OldSizeType ==
    ASSUME NEW f \in Files, NEW j \in Seq(Segments)
    PROVE  OldSize(f, j) \in 0..MaxPage
  <1>1. CASE j = << >>
    BY <1>1 DEF OldSize, Files
  <1>2. CASE j # << >>
    <2>1. 1 \in DOMAIN j
      BY <1>2
    <2>2. j[1] \in Segments
      BY <2>1, SeqElement
    <2> QED
      BY <1>2, <2>2 DEF OldSize, Segments
  <1> QED
    BY <1>1, <1>2

LEMMA OldType ==
    ASSUME NEW f \in Files, NEW j \in Seq(Segments), NEW p \in Page
    PROVE  Old(f, j, p) \in Nat
  <1>1. CASE Covered(j, p)
    <2> DEFINE s == CHOOSE s \in Logged(j) : s.page = p
    <2>1. s \in Logged(j)
      BY <1>1 DEF Covered
    <2>2. s.val \in Nat
      BY <2>1, LoggedType
    <2>3. Old(f, j, p) = s.val
      BY <1>1 DEF Old
    <2> HIDE DEF s
    <2> QED
      BY <2>2, <2>3
  <1>2. CASE ~Covered(j, p)
    BY <1>2, OldUncovered DEF Files
  <1> QED
    BY <1>1, <1>2

LEMMA VersionType ==
    ASSUME NEW f \in Files, NEW j \in Seq(Segments)
    PROVE  Version(f, j) \in Nat /\ (OldSize(f, j) # 0 => Version(f, j) = Old(f, j, 1))
  <1>1. 1 \in Page
    BY DEF Page
  <1> QED
    BY <1>1, OldType DEF Version

LEMMA KeptAlike ==
    ASSUME NEW f \in Files, NEW j \in Seq(Segments), NEW g, NEW k, Kept(f, j, g, k)
    PROVE  Version(g, k) = Version(f, j) /\ Current(g, k) = Current(f, j)
  <1> DEFINE n == OldSize(f, j)
  <1>1. n \in 0..MaxPage /\ OldSize(g, k) = n
    BY OldSizeType DEF Kept
  <1>2. \A p \in 2..n : Old(g, k, p) = Old(f, j, p)
    BY <1>1 DEF Kept, Page
  <1>3. n # 0 => Old(g, k, 1) = Old(f, j, 1)
    BY <1>1 DEF Kept, Page
  <1>4. Version(g, k) = Version(f, j)
    BY <1>1, <1>3 DEF Version
  <1> HIDE DEF n
  <1>5. [p \in 2..n |-> Old(g, k, p)] = [p \in 2..n |-> Old(f, j, p)]
    BY <1>2
  <1> QED
    BY <1>1, <1>4, <1>5 DEF Current, n

LEMMA KeptTrans ==
    ASSUME NEW f, NEW j, NEW g, NEW k, NEW h, NEW l, Kept(f, j, g, k), Kept(g, k, h, l)
    PROVE  Kept(f, j, h, l)
  BY DEF Kept

LEMMA KeptSame ==
    ASSUME NEW f, NEW j
    PROVE  Kept(f, j, f, j)
  BY DEF Kept

LEMMA KeptRest ==
    ASSUME NEW f, NEW j, NEW k, AtRest(f, j), AtRest(f, k)
    PROVE  Kept(f, j, f, k)
  BY DEF Kept, AtRest

(* The journal grows, but has no other records. *)
LEMMA KeptLogged ==
    ASSUME NEW f, NEW j, NEW k, Logged(k) = Logged(j), j # << >>, k # << >>, k[1].orig = j[1].orig
    PROVE  Kept(f, j, f, k)
  BY OldAlike DEF Kept, OldSize

(* The file changes where the journal has its old pages, or behind its old end. *)
LEMMA KeptPages ==
    ASSUME NEW f, NEW g, NEW j, j # << >>,
           \A p \in Page : p <= j[1].orig /\ ~Covered(j, p) => g.page[p] = f.page[p]
    PROVE  Kept(f, j, g, j)
  <1>1. OldSize(g, j) = OldSize(f, j) /\ OldSize(f, j) = j[1].orig
    BY DEF OldSize
  <1>2. \A p \in Page : Covered(j, p) => Old(g, j, p) = Old(f, j, p)
    BY DEF Old
  <1>3. \A p \in Page : p <= j[1].orig /\ ~Covered(j, p) => Old(g, j, p) = Old(f, j, p)
    BY OldUncovered
  <1> QED
    BY <1>1, <1>2, <1>3 DEF Kept

(* A page is added to the journal. *)
LEMMA KeptRecord ==
    ASSUME NEW f, NEW j, NEW k, NEW q, NEW v, Single(j), ~Covered(j, q), v = f.page[q],
           Logged(k) = Logged(j) \cup {[page |-> q, val |-> v]},
           j # << >>, k # << >>, k[1].orig = j[1].orig
    PROVE  Kept(f, j, f, k) /\ Single(k) /\ \A p : Covered(k, p) <=> Covered(j, p) \/ p = q
  <1> DEFINE new == [page |-> q, val |-> v]
  <1>1. new.page = q /\ new.val = v /\ new \in Logged(k)
    OBVIOUS
  <1>2. \A r \in Logged(j) : r.page # q
    BY DEF Covered
  <1> HIDE DEF new
  <1>3. Single(k)
    BY <1>1, <1>2 DEF Single, new
  <1>4. \A p : Covered(k, p) <=> Covered(j, p) \/ p = q
    BY <1>1 DEF Covered, new
  <1>5. ASSUME NEW p \in Page PROVE Old(f, k, p) = Old(f, j, p)
    <2>1. CASE p = q
      <3>1. Old(f, k, q) = v
        BY <1>1, <1>3, OldLogged
      <3>2. Old(f, j, q) = v
        BY OldUncovered
      <3> QED
        BY <2>1, <3>1, <3>2
    <2>2. CASE p # q /\ Covered(j, p)
      <3>1. PICK r \in Logged(j) : r.page = p
        BY <2>2 DEF Covered
      <3>2. r \in Logged(k)
        OBVIOUS
      <3>3. Old(f, k, p) = r.val
        BY <3>1, <3>2, <1>3, OldLogged
      <3>4. Old(f, j, p) = r.val
        BY <3>1, OldLogged
      <3> QED
        BY <3>3, <3>4
    <2>3. CASE p # q /\ ~Covered(j, p)
      BY <2>3, <1>4, OldUncovered
    <2> QED
      BY <2>1, <2>2, <2>3
  <1>6. Kept(f, j, f, k)
    BY <1>5 DEF Kept, OldSize
  <1> QED
    BY <1>3, <1>4, <1>6

(* Without its first header a journal is not played back, and does not have to be. *)
LEMMA Disarmed ==
    ASSUME NEW f, NEW j \in Seq(Segments), Restores(f, j), ~Armed(j)
    PROVE  AtRest(f, j)
  <1>1. CASE j = << >>
    <2>1. Logged(j) = {}
      BY <1>1, NoJournal
    <2> QED
      BY <1>1, <2>1 DEF AtRest, OldSize, Old, Covered
  <1>2. CASE j # << >>
    <2>1. 1 \in DOMAIN j /\ ~j[1].magic /\ Len(j) \in Nat /\ DOMAIN j = 1..Len(j)
      BY <1>2 DEF Armed
    <2>2. Len(j) = 1
      BY <2>1 DEF Restores, Segmented
    <2>3. \A r \in Logged(j) : r \in Unsynced(j)
      <3> SUFFICES ASSUME NEW r \in Logged(j) PROVE r \in Unsynced(j)
        OBVIOUS
      <3>1. PICK k \in DOMAIN j : \E i \in DOMAIN j[k].recs : r = j[k].recs[i]
        BY LoggedIs
      <3>2. k = 1
        BY <2>1, <2>2
      <3> QED
        BY <3>1, <3>2, <2>1, LoggedIs
    <2>4. ASSUME NEW p \in Page PROVE Old(f, j, p) = f.page[p]
      <3>1. CASE Covered(j, p)
        <4>1. PICK r \in Logged(j) : r.page = p
          BY <3>1 DEF Covered
        <4>2. Old(f, j, p) = r.val
          BY <4>1, OldLogged DEF Restores
        <4> QED
          BY <4>1, <4>2, <2>3 DEF Restores, Unwritten
      <3>2. CASE ~Covered(j, p)
        BY <3>2, OldUncovered
      <3> QED
        BY <3>1, <3>2
    <2>5. OldSize(f, j) = f.size
      BY <1>2, <2>1 DEF Restores, OldSize
    <2> QED
      BY <2>4, <2>5 DEF AtRest
  <1> QED
    BY <1>1, <1>2

LEMMA RestNoJournal ==
    ASSUME NEW f
    PROVE  AtRest(f, << >>) /\ OldSize(f, << >>) = f.size
  BY NoJournal DEF AtRest, OldSize, Old, Covered

---------------------------------------------------------------------------
(* What pager_playback reads *)

ToRead(j, todo, p) == \E s \in todo : j[s[1]].recs[s[2]].page = p

LEMMA PlayedAll ==
    ASSUME jrnl \in Seq(Segments), Segmented(jrnl), NEW own \in Nat,
           NEW k \in DOMAIN jrnl, NEW i \in DOMAIN jrnl[k].recs, jrnl[k].magic \/ k = own
    PROVE  <<k, i>> \in Playable(own)
  <1>1. k \in Nat /\ Len(jrnl) \in Nat /\ DOMAIN jrnl = 1..Len(jrnl) /\ jrnl[k] \in Segments
    OBVIOUS
  <1>2. jrnl[k].recs \in Seq([page : Page, val : Nat])
    BY <1>1 DEF Segments
  <1>3. i \in 1..Len(jrnl[k].recs)
    BY <1>2
  <1>4. Count(k, own) = Len(jrnl[k].recs)
    BY <1>3 DEF Count, Segmented
  <1>5. \A n \in 1..k : jrnl[n].magic \/ n = own
    BY <1>1 DEF Segmented
  <1>6. <<k, i>> \in {k} \X (1..Count(k, own))
    BY <1>3, <1>4
  <1> QED
    BY <1>5, <1>6 DEF Playable

LEMMA PlayedSynced ==
    ASSUME NEW r \in Playable(0), jrnl \in Seq(Segments)
    PROVE  r[1] \in DOMAIN jrnl /\ jrnl[r[1]].magic
  <1>1. PICK k \in {n \in DOMAIN jrnl : \A i \in 1..n : jrnl[i].magic \/ i = 0} : r \in {k} \X (1..Count(k, 0))
    BY DEF Playable
  <1>2. r[1] = k /\ k \in 1..k /\ k # 0
    BY <1>1
  <1> QED
    BY <1>1, <1>2

(* Every record that has a header is read from a hot journal. *)
LEMMA HotRecords ==
    ASSUME jrnl \in Seq(Segments), Journal(jrnl), Segmented(jrnl)
    PROVE  /\ \A s \in Playable(0) : jrnl[s[1]].recs[s[2]] \in Logged(jrnl)
           /\ \A r \in Logged(jrnl) : r \in Unsynced(jrnl) \/ \E s \in Playable(0) : jrnl[s[1]].recs[s[2]] = r
  <1>1. ASSUME NEW s \in Playable(0) PROVE jrnl[s[1]].recs[s[2]] \in Logged(jrnl)
    BY PlayableType, LoggedIs
  <1>2. ASSUME NEW r \in Logged(jrnl) PROVE r \in Unsynced(jrnl) \/ \E s \in Playable(0) : jrnl[s[1]].recs[s[2]] = r
    <2>1. PICK k \in DOMAIN jrnl : \E i \in DOMAIN jrnl[k].recs : r = jrnl[k].recs[i]
      BY LoggedIs
    <2>2. PICK i \in DOMAIN jrnl[k].recs : r = jrnl[k].recs[i]
      BY <2>1
    <2>3. CASE jrnl[k].magic
      <3>1. <<k, i>> \in Playable(0)
        BY <2>3, PlayedAll
      <3>2. <<k, i>>[1] = k /\ <<k, i>>[2] = i
        OBVIOUS
      <3> QED
        BY <2>2, <3>1, <3>2
    <2>4. CASE ~jrnl[k].magic
      BY <2>2, <2>4, LoggedIs
    <2> QED
      BY <2>3, <2>4
  <1> QED
    BY <1>1, <1>2

(* The transaction that wrote the journal reads it to the end. *)
LEMMA OwnRecords ==
    ASSUME jrnl \in Seq(Segments), Segmented(jrnl), NEW own \in Nat, own = Len(jrnl) \/ jrnl[Len(jrnl)].magic,
           NEW p, Covered(jrnl, p)
    PROVE  ToRead(jrnl, Playable(own), p)
  <1>1. PICK r \in Logged(jrnl) : r.page = p
    BY DEF Covered
  <1>2. PICK k \in DOMAIN jrnl : \E i \in DOMAIN jrnl[k].recs : r = jrnl[k].recs[i]
    BY LoggedIs
  <1>3. PICK i \in DOMAIN jrnl[k].recs : r = jrnl[k].recs[i]
    BY <1>2
  <1>4. jrnl[k].magic \/ k = own
    <2>1. k < Len(jrnl) \/ k = Len(jrnl)
      OBVIOUS
    <2> QED
      BY <2>1 DEF Segmented
  <1>5. <<k, i>> \in Playable(own)
    BY <1>4, PlayedAll
  <1>6. <<k, i>>[1] = k /\ <<k, i>>[2] = i
    OBVIOUS
  <1> QED
    BY <1>1, <1>3, <1>5, <1>6 DEF ToRead

(* What Committed finds is what the file and the journal have together. *)
LEMMA CommittedIs ==
    ASSUME file \in Files, jrnl \in Seq(Segments), Journal(jrnl), Restores(file, jrnl)
    PROVE  Committed = Current(file, jrnl)
  <1> DEFINE hot == jrnl # << >> /\ file.size > 0 /\ jrnl[1].magic
             records == IF hot THEN {jrnl[r[1]].recs[r[2]] : r \in Playable(0)} ELSE {}
             n == IF hot THEN jrnl[1].orig ELSE file.size
             Recovered(p) == IF \E r \in records : r.page = p THEN (CHOOSE r \in records : r.page = p).val
                             ELSE file.page[p]
  <1>1. Committed = [size |-> n, page |-> [p \in 2..n |-> Recovered(p)]]
    BY DEF Committed
  <1>2. n = OldSize(file, jrnl) /\ n \in 0..MaxPage
    <2>1. OldSize(file, jrnl) \in 0..MaxPage /\ file.size \in 0..MaxPage
      BY OldSizeType DEF Files
    <2>2. jrnl # << >> => OldSize(file, jrnl) = jrnl[1].orig
      BY DEF OldSize
    <2>3. jrnl # << >> => jrnl[1].orig <= file.size /\ (~jrnl[1].magic => jrnl[1].orig = file.size)
      BY DEF Restores
    <2>4. jrnl = << >> => OldSize(file, jrnl) = file.size
      BY DEF OldSize
    <2> QED
      BY <2>1, <2>2, <2>3, <2>4
  <1>3. ASSUME NEW p \in 2..n PROVE Recovered(p) = Old(file, jrnl, p)
    <2>1. p \in Page
      BY <1>2 DEF Page
    <2>2. CASE hot
      <3>1. \A r \in records : r \in Logged(jrnl)
        BY <2>2, HotRecords DEF Restores
      <3>2. \A r \in Logged(jrnl) : r \in Unsynced(jrnl) \/ r \in records
        BY <2>2, HotRecords DEF Restores
      <3> HIDE DEF records
      <3>3. CASE \E r \in records : r.page = p
        <4> DEFINE s == CHOOSE r \in records : r.page = p
        <4>1. s \in records /\ s.page = p
          BY <3>3
        <4>2. Recovered(p) = s.val
          BY <3>3
        <4> HIDE DEF s
        <4> QED
          BY <3>1, <4>1, <4>2, OldLogged DEF Restores
      <3>4. CASE ~\E r \in records : r.page = p
        <4>1. Recovered(p) = file.page[p]
          BY <3>4
        <4>2. CASE Covered(jrnl, p)
          <5>1. PICK r \in Logged(jrnl) : r.page = p
            BY <4>2 DEF Covered
          <5>2. r \in Unsynced(jrnl)
            BY <3>2, <3>4, <5>1
          <5>3. file.page[p] = r.val
            BY <5>1, <5>2 DEF Restores, Unwritten
          <5>4. Old(file, jrnl, p) = r.val
            BY <5>1, OldLogged DEF Restores
          <5> HIDE DEF Recovered
          <5> QED
            BY <4>1, <5>3, <5>4
        <4>3. CASE ~Covered(jrnl, p)
          BY <4>1, <4>3, OldUncovered
        <4> QED
          BY <4>2, <4>3
      <3> QED
        BY <3>3, <3>4
    <2>3. CASE ~hot
      <3>1. records = {} /\ n = file.size
        BY <2>3
      <3>2. Recovered(p) = file.page[p]
        BY <3>1
      <3>3. ~Armed(jrnl)
        BY <1>2, <2>3, <3>1 DEF Armed, Files
      <3>4. AtRest(file, jrnl)
        BY <3>3, Disarmed
      <3> HIDE DEF Recovered, n
      <3> QED
        BY <2>1, <3>2, <3>4 DEF AtRest
    <2> HIDE DEF Recovered, hot
    <2> QED
      BY <2>2, <2>3
  <1> HIDE DEF n, Recovered
  <1>4. [p \in 2..n |-> Recovered(p)] = [p \in 2..n |-> Old(file, jrnl, p)]
    BY <1>3
  <1> QED
    BY <1>1, <1>2, <1>4 DEF Current

---------------------------------------------------------------------------
(* What keeps the file and the journal able to restore the old content *)

LEMMA KeptRestores ==
    ASSUME NEW f \in Files, NEW j \in Seq(Segments), Restores(f, j), NEW g, NEW k, Kept(f, j, g, k),
           Segmented(k), Single(k), Unwritten(g, k),
           k # << >> => k[1].orig <= g.size /\ (~k[1].magic => k[1].orig = g.size),
           \A p \in Page : p > g.size => g.page[p] = 0
    PROVE  Restores(g, k)
  <1>1. OldSize(f, j) \in 0..MaxPage
    BY OldSizeType
  <1>2. \A p \in 2..OldSize(g, k) : Old(g, k, p) \in Data
    BY <1>1 DEF Restores, Kept, Page
  <1> QED
    BY <1>2 DEF Restores

(* syncJournal writes the header. *)
LEMMA RestoresSynced ==
    ASSUME NEW f \in Files, NEW j \in Seq(Segments), j # << >>, Journal(j), Restores(f, j)
    PROVE  /\ Restores(f, Synced(j)) /\ Kept(f, j, f, Synced(j))
           /\ Armed(Synced(j)) /\ Unsynced(Synced(j)) = {} /\ Logged(Synced(j)) = Logged(j)
           /\ Len(Synced(j)) = Len(j) /\ Synced(j) # << >> /\ Synced(j)[Len(j)].magic
  <1> DEFINE k == Synced(j)
  <1>1. /\ Logged(k) = Logged(j) /\ Unsynced(k) = {} /\ Segmented(k) /\ Len(k) = Len(j) /\ Armed(k)
        /\ k[1].orig = j[1].orig /\ \A n \in DOMAIN k : k[n].magic
    BY SyncLogged DEF Restores
  <1>2. k \in Seq(Segments) /\ k # << >>
    BY SyncedType
  <1> HIDE DEF k
  <1>3. Kept(f, j, f, k)
    BY <1>1, <1>2, KeptLogged
  <1>4. Single(k)
    BY <1>1 DEF Single, Restores
  <1>5. Unwritten(f, k)
    BY <1>1 DEF Unwritten
  <1>6. k[1].magic /\ k[1].orig <= f.size
    BY <1>1 DEF Armed, Restores
  <1>7. Restores(f, k)
    BY <1>1, <1>2, <1>3, <1>4, <1>5, <1>6, KeptRestores DEF Restores
  <1>8. k[Len(j)].magic
    <2>1. Len(j) \in DOMAIN k
      BY <1>1, <1>2
    <2> QED
      BY <2>1, <1>1
  <1> QED
    BY <1>1, <1>2, <1>3, <1>7, <1>8 DEF k

(* A new segment is opened behind the others. *)
LEMMA RestoresSegment ==
    ASSUME NEW f \in Files, NEW j \in Seq(Segments), j # << >>, Restores(f, j), Armed(j), j[Len(j)].magic,
           NEW n \in 0..MaxPage
    PROVE  LET k == Append(j, NewSegment(n))
           IN  /\ Restores(f, k) /\ Kept(f, j, f, k)
               /\ Armed(k) /\ Unsynced(k) = {} /\ Logged(k) = Logged(j)
               /\ Len(k) = Len(j) + 1 /\ ~k[Len(k)].magic
  <1> DEFINE k == Append(j, NewSegment(n))
  <1>1. \A i \in DOMAIN j : j[i].magic
    <2> SUFFICES ASSUME NEW i \in DOMAIN j PROVE j[i].magic
      OBVIOUS
    <2>1. i < Len(j) \/ i = Len(j)
      OBVIOUS
    <2> QED
      BY <2>1 DEF Restores, Segmented
  <1>2. /\ Logged(k) = Logged(j) /\ Unsynced(k) = {} /\ Segmented(k) /\ Len(k) = Len(j) + 1 /\ ~k[Len(k)].magic
        /\ k[1].orig = j[1].orig /\ Armed(k)
    BY <1>1, SegmentLogged DEF Restores
  <1>3. k # << >>
    OBVIOUS
  <1> HIDE DEF k
  <1>4. Kept(f, j, f, k)
    BY <1>2, <1>3, KeptLogged
  <1>5. Single(k) /\ Unwritten(f, k)
    BY <1>2 DEF Single, Restores, Unwritten
  <1>6. k[1].magic /\ k[1].orig <= f.size
    BY <1>2 DEF Armed, Restores
  <1>7. Restores(f, k)
    BY <1>2, <1>3, <1>4, <1>5, <1>6, KeptRestores DEF Restores
  <1> QED
    BY <1>2, <1>4, <1>7 DEF k

(* A journal that is opened replaces one that is not needed. *)
LEMMA RestoresOpened ==
    ASSUME NEW f \in Files, NEW j \in Seq(Segments), Restores(f, j), ~Armed(j)
    PROVE  LET k == << NewSegment(f.size) >>
           IN  /\ Restores(f, k) /\ Kept(f, j, f, k)
               /\ ~Armed(k) /\ Logged(k) = {} /\ Unsynced(k) = {} /\ Len(k) = 1 /\ ~k[1].magic
               /\ k[1].orig = f.size
  <1> DEFINE k == << NewSegment(f.size) >>
  <1>1. k # << >> /\ Len(k) = 1 /\ DOMAIN k = {1} /\ k[1] = NewSegment(f.size)
    OBVIOUS
  <1>2. ~k[1].magic /\ k[1].orig = f.size /\ k[1].recs = << >> /\ k[1].nRec = 0 /\ DOMAIN k[1].recs = {}
    BY <1>1 DEF NewSegment
  <1> HIDE DEF k
  <1>3. ~Armed(k)
    BY <1>2 DEF Armed
  <1>4. Logged(k) = {} /\ Unsynced(k) = {}
    BY <1>1, <1>2, NoRecords
  <1>5. Segmented(k)
    BY <1>1, <1>2 DEF Segmented
  <1>6. Single(k) /\ Unwritten(f, k)
    BY <1>4 DEF Single, Unwritten
  <1>7. AtRest(f, k)
    BY <1>1, <1>2, <1>4 DEF AtRest, OldSize, Old, Covered
  <1>8. Kept(f, j, f, k)
    BY <1>7, Disarmed, KeptRest
  <1>9. f.size \in 0..MaxPage /\ k[1].orig <= f.size
    BY <1>2 DEF Files
  <1>10. Restores(f, k)
    BY <1>2, <1>5, <1>6, <1>8, <1>9, KeptRestores DEF Restores
  <1> QED
    BY <1>1, <1>2, <1>3, <1>4, <1>8, <1>10 DEF k

(* A page is added to the journal before anything changes it. *)
LEMMA RestoresRecord ==
    ASSUME NEW f \in Files, NEW j \in Seq(Segments), j # << >>, Restores(f, j), ~j[Len(j)].magic,
           NEW p \in Page, ~Covered(j, p)
    PROVE  LET k == WithRecord(j, p, f.page[p])
               new == [page |-> p, val |-> f.page[p]]
           IN  /\ Restores(f, k) /\ Kept(f, j, f, k)
               /\ (Armed(k) <=> Armed(j)) /\ Logged(k) = Logged(j) \cup {new} /\ Unsynced(k) = Unsynced(j) \cup {new}
               /\ Len(k) = Len(j) /\ k # << >> /\ ~k[Len(k)].magic
               /\ \A q : Covered(k, q) <=> Covered(j, q) \/ q = p
  <1> DEFINE v == f.page[p]
             k == WithRecord(j, p, v)
             new == [page |-> p, val |-> v]
  <1>1. v \in Nat
    BY DEF Files
  <1>2. /\ Logged(k) = Logged(j) \cup {new} /\ Unsynced(k) = Unsynced(j) \cup {new}
        /\ Segmented(k) /\ Len(k) = Len(j) /\ DOMAIN k = DOMAIN j
        /\ \A n \in DOMAIN j : k[n].magic = j[n].magic /\ k[n].orig = j[n].orig
    BY <1>1, RecordLogged DEF Restores
  <1>3. 1 \in DOMAIN j /\ Len(j) \in DOMAIN j /\ DOMAIN << >> = {}
    OBVIOUS
  <1>4. new.page = p /\ new.val = v
    OBVIOUS
  <1> HIDE DEF k
  <1>5. k # << >> /\ k[1].orig = j[1].orig /\ k[1].magic = j[1].magic /\ ~k[Len(k)].magic
    BY <1>2, <1>3
  <1>6. Kept(f, j, f, k) /\ Single(k) /\ \A q : Covered(k, q) <=> Covered(j, q) \/ q = p
    <2>1. Single(j) /\ v = f.page[p]
      BY DEF Restores
    <2>2. Logged(k) = Logged(j) \cup {[page |-> p, val |-> v]}
      BY <1>2
    <2>3. Single(j) /\ ~Covered(j, p) /\ j # << >> /\ k # << >> /\ k[1].orig = j[1].orig
      BY <2>1, <1>5
    <2> HIDE DEF v
    <2>4. Kept(f, j, f, k) /\ Single(k)
      BY <2>1, <2>2, <2>3, KeptRecord
    <2> HIDE DEF new
    <2>5. \A q : Covered(k, q) <=> Covered(j, q) \/ q = p
      BY <1>2, <1>4 DEF Covered
    <2> QED
      BY <2>4, <2>5
  <1> HIDE DEF new
  <1>7. Unwritten(f, k)
    BY <1>2, <1>4 DEF Unwritten, Restores
  <1>8. Restores(f, k)
    BY <1>2, <1>5, <1>6, <1>7, KeptRestores DEF Restores
  <1>9. Armed(k) <=> Armed(j)
    BY <1>5 DEF Armed
  <1> QED
    BY <1>2, <1>5, <1>6, <1>8, <1>9 DEF k, new, v

(* A page is written that the journal has with its header, or that is new. *)
LEMMA RestoresWritten ==
    ASSUME NEW f \in Files, NEW j \in Seq(Segments), Restores(f, j), Armed(j), NEW p \in Page, NEW v \in Nat,
           p > j[1].orig \/ Covered(j, p), \A r \in Unsynced(j) : r.page = p => r.val = v
    PROVE  /\ Restores(Written(f, p, v), j) /\ Kept(f, j, Written(f, p, v), j)
           /\ \A q \in Page : Written(f, p, v).page[q] = IF q = p THEN v ELSE f.page[q]
  <1> DEFINE g == Written(f, p, v)
  <1>1. g.size = (IF p > f.size THEN p ELSE f.size) /\ g.page = [f.page EXCEPT ![p] = v]
    BY DEF Written
  <1> HIDE DEF g
  <1>2. \A q \in Page : g.page[q] = IF q = p THEN v ELSE f.page[q]
    BY <1>1 DEF Files
  <1>3. j # << >> /\ j[1].magic
    BY DEF Armed
  <1>4. p \in Nat /\ f.size \in Nat /\ j[1].orig \in Nat /\ j[1].orig <= f.size
    <2>1. j[1] \in Segments
      BY <1>3
    <2> QED
      BY <2>1, <1>3 DEF Segments, Files, Page, Restores
  <1>5. Kept(f, j, g, j)
    BY <1>2, <1>3, <1>4, KeptPages DEF Page
  <1>6. Unwritten(g, j)
    <2> SUFFICES ASSUME NEW r \in Unsynced(j) PROVE g.page[r.page] = r.val
      BY DEF Unwritten
    <2>1. r.page \in Page
      BY UnsyncedLogged, LoggedType
    <2> QED
      BY <2>1, <1>2 DEF Restores, Unwritten
  <1>7. j[1].orig <= g.size
    BY <1>1, <1>4
  <1>8. \A q \in Page : q > g.size => g.page[q] = 0
    BY <1>1, <1>2, <1>4 DEF Restores, Page
  <1>9. Restores(g, j)
    BY <1>3, <1>5, <1>6, <1>7, <1>8, KeptRestores DEF Restores
  <1> QED
    BY <1>2, <1>5, <1>9 DEF g

(* The file gets its old size back. *)
LEMMA RestoresTruncated ==
    ASSUME NEW f \in Files, NEW j \in Seq(Segments), j # << >>, Journal(j), Restores(f, j)
    PROVE  LET g == Truncated(f, j[1].orig)
           IN  /\ Restores(g, j) /\ Kept(f, j, g, j) /\ g.size = j[1].orig
               /\ \A q \in Page : q <= j[1].orig => g.page[q] = f.page[q]
  <1> DEFINE n == j[1].orig
             g == Truncated(f, n)
  <1>1. n \in 0..MaxPage
    <2>1. j[1] \in Segments
      OBVIOUS
    <2> QED
      BY <2>1 DEF Segments
  <1>2. g.size = n /\ \A q \in Page : g.page[q] = IF q <= n THEN f.page[q] ELSE 0
    BY DEF Truncated
  <1> HIDE DEF g
  <1>3. \A q \in Page : q <= n => g.page[q] = f.page[q]
    BY <1>2
  <1>4. Kept(f, j, g, j)
    BY <1>3, KeptPages
  <1>5. Unwritten(g, j)
    <2> SUFFICES ASSUME NEW r \in Unsynced(j) PROVE g.page[r.page] = r.val
      BY DEF Unwritten
    <2>1. r.page \in Page /\ r.page <= n
      BY UnsyncedLogged, LoggedType, LoggedPage
    <2> QED
      BY <2>1, <1>3 DEF Restores, Unwritten
  <1>6. \A q \in Page : q > g.size => g.page[q] = 0
    BY <1>1, <1>2 DEF Page
  <1>7. Restores(g, j)
    BY <1>1, <1>2, <1>4, <1>5, <1>6, KeptRestores DEF Restores
  <1> QED
    BY <1>2, <1>3, <1>4, <1>7 DEF g, n

(* The journal is deleted when the file has the old content, or content of its own. *)
LEMMA RestoresFinished ==
    ASSUME NEW f \in Files, \A p \in Page : p > f.size => f.page[p] = 0, \A p \in 2..f.size : f.page[p] \in Data
    PROVE  Restores(f, << >>)
  <1>1. Segmented(<< >>) /\ Single(<< >>) /\ Unwritten(f, << >>)
    BY NoJournal DEF Single, Unwritten
  <1>2. OldSize(f, << >>) = f.size /\ \A p \in 2..f.size : Old(f, << >>, p) = f.page[p]
    <2>1. f.size \in 0..MaxPage
      BY DEF Files
    <2>2. \A p \in 2..f.size : p \in Page
      BY <2>1 DEF Page
    <2> QED
      BY <2>2, RestNoJournal DEF AtRest
  <1> QED
    BY <1>1, <1>2 DEF Restores

LEMMA RestoresRest ==
    ASSUME NEW f \in Files, NEW j \in Seq(Segments), Restores(f, j), OldSize(f, j) = f.size,
           \A p \in Page : p <= f.size => Old(f, j, p) = f.page[p]
    PROVE  Restores(f, << >>) /\ Kept(f, j, f, << >>)
  <1>1. Kept(f, j, f, << >>)
    BY RestNoJournal DEF Kept, AtRest
  <1>2. Segmented(<< >>) /\ Single(<< >>) /\ Unwritten(f, << >>)
    BY NoJournal DEF Single, Unwritten
  <1> QED
    BY <1>1, <1>2, KeptRestores DEF Restores

---------------------------------------------------------------------------
(* What a connection knows about the file and the journal *)

Seen(P, f, p) == IF P.cache[p] # NoPage THEN P.cache[p] ELSE f.page[p]
SeenBy(P, f) ==
  IF P.eState \in READER..FINISHED /\ P.op \in {"none", "flush", "finish"}
  THEN [size |-> P.dbSize, page |-> [p \in 2..P.dbSize |-> Seen(P, f, p)]]
  ELSE NoView

Blank(cache) == \A p \in Page : cache[p] = NoPage \/ (p = 1 /\ cache[p] = 0)
Agrees(cache, n, f) == \A p \in Page : cache[p] # NoPage => (p <= n \/ p = 1) /\ cache[p] = f.page[p]

(* Without a lock: the cache is of use for the version it belongs to. *)
Fresh(P, f, j) ==
  \/ Blank(P.cache)
  \/ P.dbFileVers < Version(f, j)
  \/ /\ P.dbFileVers = Version(f, j)
     /\ \A p \in Page : P.cache[p] # NoPage => p <= OldSize(f, j) /\ P.cache[p] = Old(f, j, p)

(* Nobody reads or waits for the lock of a writer behind a journal that would be played back. *)
InStep(P, lock, j) ==
  /\ Armed(j) => P.eState \notin {READER, WRITER_LOCKED, CACHEMOD} /\ lock \notin {RESERVED, PENDING}
  /\ ~Armed(j) => P.eState \notin {DBMOD, FINISHED} /\ P.op # "hot"

Clean(P) == P.inJournal = {} /\ ~P.changeCountDone
Knows(P, f) == Agrees(P.cache, P.dbSize, f) /\ (f.size > 0 => P.dbFileVers = f.page[1])

(* The writer's last header: still to be written, or, when a call could not open a new segment, behind the last one. *)
Ahead(P, j) ==
  \/ P.hdr = Len(j) /\ ~j[Len(j)].magic
  \/ P.hdr = Len(j) + 1 /\ P.op # "none" /\ j[Len(j)].magic

(* The journal has what the writer has changed of the old pages; what is not in it is as it was. *)
Changing(P, f, j) ==
  /\ \A p \in Page : p \in P.inJournal <=> Covered(j, p)
  /\ \A r \in Unsynced(j) : r.page \in P.needSync
  /\ \A p \in Page : p <= P.dbOrigSize /\ p \notin P.inJournal /\ P.cache[p] # NoPage => P.cache[p] = f.page[p]
  /\ P.dbOrigSize > 0 /\ (P.op = "none" \/ 1 \notin P.inJournal) => P.dbFileVers = Version(f, j)

Unflushed(P) == IF P.op = "none" THEN P.dirty ELSE P.list

(* The change: in the cache as far as pages are dirty, and otherwise in the file. *)
Pending(P, f, j) ==
  /\ \A p \in Page \ Unflushed(P) : P.cache[p] # NoPage => (p <= P.dbSize \/ p = 1) /\ P.cache[p] = f.page[p]
  /\ \A p \in P.dirty : p <= P.dbOrigSize => p \in P.inJournal
  /\ \A p \in 2..P.dbSize : Seen(P, f, p) \in Data
  /\ P.op = "none" /\ P.changeCountDone => 1 \in P.dirty
  /\ P.op = "flush" => /\ Unsynced(j) = {}
                       /\ 1 \in P.list /\ P.dbOrigSize > 0 => P.dbFileVers = Version(f, j)
                       /\ 1 \notin P.list => f.page[1] = P.dbFileVers /\ P.dbFileVers > Version(f, j)

(* A playback: what is not restored yet is still to be read. *)
Restoring(P, f, j) ==
  /\ \A p \in Page : p <= OldSize(f, j) => f.page[p] = Old(f, j, p) \/ ToRead(j, P.todo, p)
  /\ P.op = "rollback" =>
       /\ \A p \in Page : p <= P.dbSize /\ P.cache[p] # NoPage =>
            P.cache[p] = Old(f, j, p) \/ ToRead(j, P.todo, p)
       /\ P.dbSize > 0 => P.dbFileVers = Version(f, j) \/ ToRead(j, P.todo, 1)
  /\ P.op = "hot" /\ P.todo # {} => P.cache = NoCache

Done(P, f, j) ==
  /\ Agrees(P.cache, P.dbSize, f) /\ P.dbSize # 0
  /\ f.page[1] = P.dbFileVers /\ P.dbFileVers > Version(f, j)
  /\ \A p \in 2..P.dbSize : f.page[p] \in Data

Consistent(P, lock, f, j) ==
  /\ InStep(P, lock, j)
  /\ P.eState = OPEN => Fresh(P, f, j) /\ (~P.held => Blank(P.cache))
  /\ P.eState # OPEN => P.held
  /\ P.eState \in {OPEN, READER, WRITER_LOCKED} => Clean(P)
  /\ P.eState \in {READER, WRITER_LOCKED} => Knows(P, f)
  /\ P.eState \in {CACHEMOD, DBMOD} => Ahead(P, j)
  /\ P.eState \in {CACHEMOD, DBMOD} /\ P.op \in {"none", "flush", "failed"} => Changing(P, f, j)
  /\ P.eState \in {CACHEMOD, DBMOD} /\ P.op \in {"none", "flush"} => Pending(P, f, j)
  /\ P.op \in {"rollback", "hot"} => Restoring(P, f, j)
  /\ P.eState = FINISHED => Done(P, f, j)

AtomicInv ==
  /\ PagerInv
  /\ Restores(file, jrnl)
  /\ \A c \in Conn : Consistent(pager[c], fileLock[c], file, jrnl)

---------------------------------------------------------------------------
(* What a connection keeps that is not called *)

LEMMA FreshKept ==
    ASSUME NEW P \in Pagers, NEW f \in Files, NEW j \in Seq(Segments), NEW g, NEW k, Fresh(P, f, j),
           Kept(f, j, g, k)
    PROVE  Fresh(P, g, k)
  BY KeptAlike DEF Fresh, Kept

LEMMA FreshGrown ==
    ASSUME NEW P \in Pagers, NEW f \in Files, NEW j \in Seq(Segments), NEW g \in Files, NEW k \in Seq(Segments),
           Fresh(P, f, j), Version(f, j) < Version(g, k)
    PROVE  Fresh(P, g, k)
  <1>1. Version(f, j) \in Nat /\ Version(g, k) \in Nat /\ P.dbFileVers \in Nat
    BY VersionType DEF Pagers
  <1> QED
    BY <1>1 DEF Fresh

LEMMA ClosedOK ==
    ASSUME NEW P \in Pagers, P.eState = OPEN, P.op = "none", NEW f, NEW j, Fresh(P, f, j),
           ~P.held => Blank(P.cache), Clean(P)
    PROVE  Consistent(P, NO, f, j)
  BY DEF Consistent, InStep

LEMMA ReaderOK ==
    ASSUME NEW P \in Pagers, P.eState \in {READER, WRITER_LOCKED}, P.op = "none", P.held, Clean(P), NEW f, NEW j,
           Knows(P, f), ~Armed(j), NEW lock
    PROVE  Consistent(P, lock, f, j)
  BY DEF Consistent, InStep

LEMMA ErrorOK ==
    ASSUME NEW P \in Pagers, P.eState = ERROR, P.op = "none", P.held, NEW f, NEW j,
           NEW lock, Armed(j) => lock \notin {RESERVED, PENDING}
    PROVE  Consistent(P, lock, f, j)
  BY DEF Consistent, InStep

LEMMA NoLock ==
    ASSUME NEW P \in Pagers, Calls(P, NO)
    PROVE  P.eState = OPEN
  BY DEF Calls, Pagers

LEMMA SharedOnly ==
    ASSUME NEW P \in Pagers, NEW lock \in NO..SHARED, Calls(P, lock), P.op = "none"
    PROVE  P.eState \in {OPEN, READER, ERROR} /\ (lock = SHARED => P.eState # OPEN)
  BY DEF Calls, Pagers

LEMMA Unmoved ==
    ASSUME NEW P \in Pagers, NEW lock \in NO..EXCLUSIVE, P.op = "none", Calls(P, lock),
           NEW f \in Files, NEW j \in Seq(Segments), NEW g \in Files, NEW k \in Seq(Segments),
           Consistent(P, lock, f, j),
           g = f \/ lock = NO, k = j \/ lock <= SHARED,
           Kept(f, j, g, k) \/ (lock = NO /\ Version(f, j) < Version(g, k)),
           Armed(k) /\ ~Armed(j) => lock = NO
    PROVE  Consistent(P, lock, g, k) /\ SeenBy(P, g) = SeenBy(P, f)
  <1>1. CASE lock = NO
    <2>1. P.eState = OPEN
      BY <1>1, NoLock
    <2>2. Fresh(P, g, k)
      BY <2>1, FreshKept, FreshGrown DEF Consistent
    <2>3. (~P.held => Blank(P.cache)) /\ Clean(P)
      BY <2>1 DEF Consistent
    <2> QED
      BY <1>1, <2>1, <2>2, <2>3, ClosedOK DEF SeenBy
  <1>2. CASE lock = SHARED
    <2>1. g = f /\ P.eState \in {READER, ERROR} /\ P.held
      BY <1>2, SharedOnly DEF Consistent
    <2>2. CASE P.eState = READER
      <3>1. Knows(P, f) /\ Clean(P) /\ ~Armed(j)
        BY <2>2 DEF Consistent, InStep
      <3>2. ~Armed(k)
        BY <3>1, <1>2
      <3> QED
        BY <2>1, <2>2, <3>1, <3>2, ReaderOK
    <2>3. CASE P.eState = ERROR
      BY <1>2, <2>1, <2>3, ErrorOK
    <2> QED
      BY <2>1, <2>2, <2>3
  <1>3. CASE lock > SHARED
    BY <1>3
  <1> QED
    BY <1>1, <1>2, <1>3

---------------------------------------------------------------------------
(* Steps of the promise: what a call of connection c does to the content and to what c sees *)

Moves(c) ==
  LET db == Current(file, jrnl)
      was == SeenBy(pager[c], file)
      is == SeenBy(pager'[c], file')
  IN  \/ Current(file', jrnl') = db /\ is \in {was, NoView}
      \/ Current(file', jrnl') = db /\ was = NoView /\ is = db
      \/ /\ Current(file', jrnl') = db /\ was \in Content /\ is \in Content
         /\ ~Armed(jrnl) \/ \A d \in Conn \ {c} : fileLock[d] = NO
         /\ \A d \in Conn \ {c} : fileLock[d] <= SHARED
      \/ /\ Current(file', jrnl') = was /\ is = was /\ was \in Content
         /\ \A d \in Conn \ {c} : fileLock[d] = NO

Step(c) ==
  /\ AtomicInv'
  /\ Moves(c)
  /\ \A d \in Conn \ {c} : SeenBy(pager'[d], file') = SeenBy(pager[d], file)

LEMMA MoreFacts ==
    ASSUME AtomicInv, NEW c \in Conn
    PROVE  /\ PagerInv
           /\ pager[c] \in Pagers /\ fileLock[c] \in NO..EXCLUSIVE /\ file \in Files /\ jrnl \in Seq(Segments)
           /\ Journal(jrnl) /\ Restores(file, jrnl)
           /\ Calls(pager[c], fileLock[c]) /\ Sizes(pager[c], file, jrnl) /\ Cached(pager[c])
           /\ Consistent(pager[c], fileLock[c], file, jrnl)
  BY Facts DEF AtomicInv

LEMMA NextFacts ==
    ASSUME PagerInv'
    PROVE  file' \in Files /\ jrnl' \in Seq(Segments) /\ Journal(jrnl') /\ \A c \in Conn : pager'[c] \in Pagers
  BY DEF PagerInv, PagerTypes, Files

LEMMA OneStep ==
    ASSUME AtomicInv, PagerInv', NEW c \in Conn, Undisturbed(c),
           pager' = [pager EXCEPT ![c] = pager'[c]],
           \A d \in Conn \ {c} : fileLock'[d] = fileLock[d],
           file' = file \/ \A d \in Conn \ {c} : fileLock[d] = NO,
           jrnl' = jrnl \/ \A d \in Conn \ {c} : fileLock[d] <= SHARED,
           Restores(file', jrnl'),
           Kept(file, jrnl, file', jrnl')
             \/ ((\A d \in Conn \ {c} : fileLock[d] = NO) /\ Version(file, jrnl) < Version(file', jrnl')),
           Armed(jrnl') /\ ~Armed(jrnl) => \A d \in Conn \ {c} : fileLock[d] = NO,
           Consistent(pager'[c], fileLock'[c], file', jrnl'),
           Moves(c)
    PROVE  Step(c)
  <1>1. file' \in Files /\ jrnl' \in Seq(Segments)
    BY NextFacts
  <1>2. ASSUME NEW d \in Conn \ {c}
        PROVE  /\ Consistent(pager'[d], fileLock'[d], file', jrnl')
               /\ SeenBy(pager'[d], file') = SeenBy(pager[d], file)
    <2>1. pager'[d] = pager[d] /\ fileLock'[d] = fileLock[d] /\ pager[d].op = "none"
      BY DEF AtomicInv, PagerInv, PagerTypes, Undisturbed
    <2>2. /\ pager[d] \in Pagers /\ fileLock[d] \in NO..EXCLUSIVE /\ file \in Files /\ jrnl \in Seq(Segments)
          /\ Calls(pager[d], fileLock[d]) /\ Consistent(pager[d], fileLock[d], file, jrnl)
      BY MoreFacts
    <2>3. file' = file \/ fileLock[d] = NO
      OBVIOUS
    <2>4. jrnl' = jrnl \/ fileLock[d] <= SHARED
      OBVIOUS
    <2>5. \/ Kept(file, jrnl, file', jrnl')
          \/ fileLock[d] = NO /\ Version(file, jrnl) < Version(file', jrnl')
      OBVIOUS
    <2>6. Armed(jrnl') /\ ~Armed(jrnl) => fileLock[d] = NO
      OBVIOUS
    <2>7. Consistent(pager[d], fileLock[d], file', jrnl') /\ SeenBy(pager[d], file') = SeenBy(pager[d], file)
      BY <1>1, <2>1, <2>2, <2>3, <2>4, <2>5, <2>6, Unmoved
    <2> QED
      BY <2>1, <2>7
  <1>3. \A d \in Conn : Consistent(pager'[d], fileLock'[d], file', jrnl')
    BY <1>2
  <1>4. AtomicInv'
    BY <1>3 DEF AtomicInv
  <1> QED
    BY <1>2, <1>4 DEF Step

(* A call that leaves both files as they are *)
LEMMA QuietStep ==
    ASSUME AtomicInv, PagerInv', NEW c \in Conn, Undisturbed(c), UNCHANGED <<file, jrnl>>,
           pager' = [pager EXCEPT ![c] = pager'[c]],
           \A d \in Conn \ {c} : fileLock'[d] = fileLock[d],
           Consistent(pager'[c], fileLock'[c], file, jrnl),
           \/ SeenBy(pager'[c], file) \in {SeenBy(pager[c], file), NoView}
           \/ SeenBy(pager[c], file) = NoView /\ SeenBy(pager'[c], file) = Current(file, jrnl)
    PROVE  Step(c)
  <1>1. Restores(file, jrnl) /\ Kept(file, jrnl, file, jrnl)
    BY KeptSame DEF AtomicInv
  <1>2. Moves(c)
    BY DEF Moves
  <1> QED
    BY <1>1, <1>2, OneStep

---------------------------------------------------------------------------
(* Views *)

LEMMA NoViewOf ==
    ASSUME NEW P \in Pagers, P.eState \in {OPEN, ERROR} \/ P.op \in {"failed", "rollback", "hot"}, NEW f
    PROVE  SeenBy(P, f) = NoView
  BY DEF SeenBy

LEMMA SameView ==
    ASSUME NEW P \in Pagers, NEW Q \in Pagers,
           P.eState \in READER..FINISHED /\ P.op \in {"none", "flush", "finish"},
           Q.eState \in READER..FINISHED /\ Q.op \in {"none", "flush", "finish"},
           Q.dbSize = P.dbSize, NEW f, NEW g, \A p \in 2..P.dbSize : Seen(Q, g, p) = Seen(P, f, p)
    PROVE  SeenBy(Q, g) = SeenBy(P, f)
  <1>1. [p \in 2..Q.dbSize |-> Seen(Q, g, p)] = [p \in 2..P.dbSize |-> Seen(P, f, p)]
    OBVIOUS
  <1> QED
    BY <1>1 DEF SeenBy

LEMMA ViewIsContent ==
    ASSUME NEW P \in Pagers, P.eState \in READER..FINISHED /\ P.op \in {"none", "flush", "finish"},
           NEW f, \A p \in 2..P.dbSize : Seen(P, f, p) \in Data
    PROVE  SeenBy(P, f) \in Content
  <1> DEFINE n == P.dbSize
             page == [p \in 2..n |-> Seen(P, f, p)]
  <1>1. n \in 0..MaxPage /\ page \in [2..n -> Data]
    BY DEF Pagers
  <1>2. SeenBy(P, f) = [size |-> n, page |-> page]
    BY DEF SeenBy
  <1> HIDE DEF n, page
  <1>3. SeenBy(P, f) \in [size : {n}, page : [2..n -> Data]]
    BY <1>1, <1>2
  <1> QED
    BY <1>1, <1>3 DEF Content

LEMMA CurrentIsContent ==
    ASSUME NEW f \in Files, NEW j \in Seq(Segments), Restores(f, j)
    PROVE  Current(f, j) \in Content
  <1> DEFINE n == OldSize(f, j)
             page == [p \in 2..n |-> Old(f, j, p)]
  <1>1. n \in 0..MaxPage /\ page \in [2..n -> Data]
    BY OldSizeType DEF Restores
  <1>2. Current(f, j) = [size |-> n, page |-> page]
    BY DEF Current
  <1> HIDE DEF n, page
  <1>3. Current(f, j) \in [size : {n}, page : [2..n -> Data]]
    BY <1>1, <1>2
  <1> QED
    BY <1>1, <1>3 DEF Content

(* Who finds in its cache what the file holds sees the content of the file. *)
LEMMA FileView ==
    ASSUME NEW P \in Pagers, P.eState \in READER..FINISHED /\ P.op \in {"none", "flush", "finish"},
           NEW f \in Files, P.dbSize = f.size, Agrees(P.cache, P.dbSize, f), NEW j, AtRest(f, j)
    PROVE  SeenBy(P, f) = Current(f, j)
  <1> DEFINE n == f.size
  <1>1. n \in 0..MaxPage /\ OldSize(f, j) = n
    BY DEF Files, AtRest
  <1>2. ASSUME NEW p \in 2..n PROVE Seen(P, f, p) = Old(f, j, p)
    <2>1. p \in Page
      BY <1>1 DEF Page
    <2> QED
      BY <2>1 DEF Seen, Agrees, AtRest
  <1>3. [p \in 2..n |-> Seen(P, f, p)] = [p \in 2..n |-> Old(f, j, p)]
    BY <1>2
  <1> QED
    BY <1>1, <1>3 DEF SeenBy, Current

---------------------------------------------------------------------------
(* Read transactions *)

LEMMA OpenedIs ==
    ASSUME NEW P \in Pagers, file \in Files, NEW cache,
           cache = IF P.held /\ P.dbFileVers # FileVers THEN NoCache ELSE P.cache
    PROVE  /\ Opened(P).held /\ Opened(P).inJournal = P.inJournal
           /\ Opened(P).cache = IF cache[1] = NoPage THEN [cache EXCEPT ![1] = file.page[1]] ELSE cache
           /\ Opened(P).dbFileVers = IF cache[1] = NoPage /\ file.size > 0 THEN file.page[1] ELSE P.dbFileVers
  BY DEF Opened, Pagers

LEMMA UnlockedIs ==
    ASSUME NEW P \in Pagers
    PROVE  /\ Unlocked(P).held = P.held /\ Unlocked(P).dbFileVers = P.dbFileVers
           /\ Unlocked(P).cache = IF P.eState = ERROR THEN NoCache ELSE P.cache
           /\ Clean(Unlocked(P))
  BY DEF Unlocked, NewPager, Clean

(* The check of the change counter: what sqlite3PagerSharedLock keeps is what the file holds, and lockBtree takes no *)
(* page 1 of another file for it. *)
LEMMA OpenedKnows ==
    ASSUME NEW P \in Pagers, file \in Files, NEW j \in Seq(Segments), AtRest(file, j), Fresh(P, file, j),
           ~P.held => Blank(P.cache), \A p \in Page : p > file.size => file.page[p] = 0
    PROVE  /\ Accepted(Opened(P)) => Knows(Opened(P), file)
           /\ ~Accepted(Opened(P)) => Fresh(Opened(P), file, j)
  <1> DEFINE cache == IF P.held /\ P.dbFileVers # FileVers THEN NoCache ELSE P.cache
             Q == Opened(P)
  <1>1. FileVers = Version(file, j) /\ OldSize(file, j) = file.size /\ (file.size > 0 => FileVers = file.page[1])
    <2>1. 1 \in Page /\ file.size \in Nat
      BY DEF Page, Files
    <2> QED
      BY <2>1 DEF FileVers, Version, AtRest
  <1>2. /\ Q.cache = (IF cache[1] = NoPage THEN [cache EXCEPT ![1] = file.page[1]] ELSE cache)
        /\ Q.dbFileVers = (IF cache[1] = NoPage /\ file.size > 0 THEN file.page[1] ELSE P.dbFileVers)
    BY OpenedIs
  <1>3. Q.dbSize = file.size /\ cache \in Cache
    BY OpenedOK, NoCacheType DEF Pagers, Cache
  <1>4. \/ Blank(cache)
        \/ /\ P.dbFileVers = FileVers
           /\ \A p \in Page : cache[p] # NoPage => p <= file.size /\ cache[p] = file.page[p]
    <2>1. CASE P.held /\ P.dbFileVers # FileVers
      <3>1. cache = NoCache
        BY <2>1
      <3> QED
        BY <3>1 DEF Blank, NoCache
    <2>2. CASE ~(P.held /\ P.dbFileVers # FileVers)
      <3>1. cache = P.cache
        BY <2>2
      <3>2. CASE ~P.held
        BY <3>1, <3>2
      <3>3. CASE P.held /\ P.dbFileVers = FileVers
        <4>1. ~(P.dbFileVers < Version(file, j))
          BY <1>1, <3>3 DEF Pagers
        <4> HIDE DEF cache
        <4> QED
          BY <1>1, <3>1, <3>3, <4>1 DEF Fresh, AtRest
      <3> QED
        BY <2>2, <3>2, <3>3
    <2> QED
      BY <2>1, <2>2
  <1> HIDE DEF cache, Q
  <1>5. 1 \in Page /\ file.size \in Nat /\ \A p \in Page : p \in Nat \ {0}
    BY DEF Page, Files
  <1>6. /\ \A p \in Page : Q.cache[p] = IF p = 1 /\ cache[1] = NoPage THEN file.page[1] ELSE cache[p]
        /\ file.page[1] \in Nat
    BY <1>2, <1>3, <1>5 DEF Cache, Files
  <1>7. CASE Accepted(Q)
    <2>1. file.size = 0 \/ Q.cache[1] # 0
      BY <1>3, <1>7 DEF Accepted
    <2>2. file.size = 0 => file.page[1] = 0
      BY <1>5
    <2>3. Agrees(Q.cache, file.size, file)
      BY <1>4, <1>5, <1>6, <2>1, <2>2 DEF Agrees, Blank
    <2>4. file.size > 0 => Q.dbFileVers = file.page[1]
      BY <1>1, <1>2, <1>4, <1>5, <1>6, <2>1 DEF Blank
    <2> QED
      BY <1>3, <1>7, <2>3, <2>4 DEF Knows, Q
  <1>8. CASE ~Accepted(Q)
    <2>1. file.size > 0 /\ Q.cache[1] = 0
      BY <1>3, <1>5, <1>8 DEF Accepted
    <2>2. CASE Blank(cache)
      <3>1. Blank(Q.cache)
        BY <1>6, <2>1, <2>2 DEF Blank
      <3> QED
        BY <3>1, <1>8 DEF Fresh, Q
    <2>3. CASE /\ P.dbFileVers = FileVers
               /\ \A p \in Page : cache[p] # NoPage => p <= file.size /\ cache[p] = file.page[p]
      <3>1. Q.dbFileVers = Version(file, j)
        BY <1>1, <1>2, <2>1, <2>3
      <3>2. \A p \in Page : Q.cache[p] # NoPage => p <= file.size /\ Q.cache[p] = file.page[p]
        BY <1>5, <1>6, <2>1, <2>3
      <3>3. \A p \in Page : Q.cache[p] # NoPage => p <= OldSize(file, j) /\ Q.cache[p] = Old(file, j, p)
        BY <1>1, <3>2 DEF AtRest
      <3> QED
        BY <3>1, <3>3, <1>8 DEF Fresh, Q
    <2> QED
      BY <1>4, <2>2, <2>3
  <1> QED
    BY <1>7, <1>8 DEF Q

(* A hot journal is played back before anyone reads; another one belongs to a writer that has not written to the *)
(* file, or to an empty file. *)
LEMMA SharedLockMoves ==
    ASSUME AtomicInv, PagerInv', NEW c \in Conn, Undisturbed(c), SharedLock(c)
    PROVE  Step(c)
  <1> DEFINE P == pager[c]
             Q == pager'[c]
  <1>1. /\ PagerInv /\ P \in Pagers /\ file \in Files /\ jrnl \in Seq(Segments) /\ Journal(jrnl)
        /\ Restores(file, jrnl) /\ Calls(P, fileLock[c]) /\ Consistent(P, fileLock[c], file, jrnl)
        /\ LockTypes /\ LockTable
    BY MoreFacts, Facts
  <1>2. P.eState = OPEN /\ P.op = "none" /\ Accepted(Opened(P)) /\ ~Refused(c, SHARED) /\ ~HotJournal /\ file' = file
    BY DEF SharedLock, TakeShared
  <1>3. fileLock[c] = NO /\ Clean(P) /\ Fresh(P, file, jrnl) /\ (~P.held => Blank(P.cache))
    BY <1>1, <1>2, ClosedHasNoLock DEF LockTypes, Consistent
  <1>4. Q = Opened(P) /\ pager' = [pager EXCEPT ![c] = Q]
    BY Called, <1>1 DEF SharedLock
  <1>5. fileLock'[c] = SHARED /\ \A d \in Conn \ {c} : fileLock'[d] = fileLock[d]
    BY <1>1, <1>3, TakeSharedOK DEF SharedLock, LockTypes
  <1>6. /\ Restores(file, jrnl') /\ Kept(file, jrnl, file, jrnl') /\ ~Armed(jrnl')
        /\ jrnl' = jrnl \/ \A d \in Conn \ {c} : fileLock[d] <= SHARED
    <2>1. CASE inode.eFileLock <= SHARED /\ file.size = 0
      <3>1. jrnl' = << >>
        BY <2>1 DEF SharedLock
      <3>2. OldSize(file, jrnl) = 0
        <4>1. OldSize(file, jrnl) \in 0..MaxPage
          BY <1>1, OldSizeType
        <4> QED
          BY <1>1, <2>1, <4>1 DEF OldSize, Restores
      <3>3. \A p \in Page : ~(p <= file.size)
        BY <2>1 DEF Page
      <3>4. Restores(file, << >>) /\ Kept(file, jrnl, file, << >>)
        BY <1>1, <2>1, <3>2, <3>3, RestoresRest
      <3>5. \A d \in Conn \ {c} : fileLock[d] <= SHARED
        BY <1>1, <2>1, NoneAbove
      <3> QED
        BY <3>1, <3>4, <3>5, NoJournal
    <2>2. CASE ~(inode.eFileLock <= SHARED /\ file.size = 0)
      <3>1. jrnl' = jrnl
        BY <2>2 DEF SharedLock
      <3>2. CASE inode.eFileLock <= SHARED
        BY <1>1, <1>2, <2>2, <3>1, <3>2, KeptSame DEF HotJournal, Armed, Files
      <3>3. CASE ~(inode.eFileLock <= SHARED)
        <4>1. inode.eFileLock = RESERVED
          BY <1>1, <1>2, <1>3, <3>3 DEF Refused, LockTypes
        <4>2. PICK d \in Conn : fileLock[d] = RESERVED
          BY <1>1, <4>1 DEF LockTable
        <4>3. Consistent(pager[d], RESERVED, file, jrnl)
          BY <4>2, MoreFacts
        <4> QED
          BY <1>1, <3>1, <4>3, KeptSame DEF Consistent, InStep
      <3> QED
        BY <3>2, <3>3
    <2> QED
      BY <2>1, <2>2
  <1>7. jrnl' \in Seq(Segments) /\ Q \in Pagers
    BY NextFacts
  <1>8. AtRest(file, jrnl') /\ Fresh(P, file, jrnl') /\ \A p \in Page : p > file.size => file.page[p] = 0
    <2>1. \A p \in Page : p > file.size => file.page[p] = 0
      BY <1>1 DEF Restores
    <2> QED
      BY <1>1, <1>3, <1>6, <1>7, <2>1, Disarmed, FreshKept
  <1>9. Knows(Q, file) /\ Q.held /\ Clean(Q) /\ Q.eState = READER /\ Q.op = "none" /\ Q.dbSize = file.size
    <2>1. Knows(Opened(P), file)
      BY <1>1, <1>2, <1>3, <1>7, <1>8, OpenedKnows
    <2>2. Opened(P).held /\ Opened(P).inJournal = P.inJournal
      BY <1>1, OpenedIs
    <2>3. /\ Opened(P).eState = READER /\ Opened(P).op = "none" /\ Opened(P).dbSize = file.size
          /\ Opened(P).changeCountDone = P.changeCountDone
      BY <1>1, OpenedOK
    <2> QED
      BY <1>3, <1>4, <2>1, <2>2, <2>3 DEF Clean
  <1>10. Consistent(Q, SHARED, file, jrnl')
    BY <1>6, <1>7, <1>9, ReaderOK
  <1>11. SeenBy(P, file) = NoView
    BY <1>1, <1>2, NoViewOf
  <1>12. SeenBy(Q, file) = Current(file, jrnl') /\ Current(file, jrnl') = Current(file, jrnl)
    BY <1>1, <1>6, <1>7, <1>8, <1>9, FileView, KeptAlike DEF Knows
  <1>13. Moves(c)
    BY <1>2, <1>11, <1>12 DEF Moves
  <1> HIDE DEF Q
  <1> QED
    BY <1>2, <1>4, <1>5, <1>6, <1>10, <1>13, OneStep DEF Q

(* pager_unlock keeps the version with the cache. *)
LEMMA EndReadMoves ==
    ASSUME AtomicInv, PagerInv', NEW c \in Conn, Undisturbed(c), EndRead(c)
    PROVE  Step(c)
  <1> DEFINE P == pager[c]
             Q == pager'[c]
  <1>1. /\ PagerInv /\ P \in Pagers /\ file \in Files /\ jrnl \in Seq(Segments) /\ Restores(file, jrnl)
        /\ Calls(P, fileLock[c]) /\ Sizes(P, file, jrnl) /\ Consistent(P, fileLock[c], file, jrnl)
    BY MoreFacts
  <1>2. P.eState \in {READER, ERROR} /\ P.op = "none" /\ UNCHANGED <<file, jrnl>>
    BY DEF EndRead
  <1>3. Q = Unlocked(P) /\ pager' = [pager EXCEPT ![c] = Q]
    BY Called, <1>1 DEF EndRead
  <1>4. fileLock'[c] = NO /\ \A d \in Conn \ {c} : fileLock'[d] = fileLock[d]
    <2>1. P.eLock >= SHARED
      BY <1>1, <1>2 DEF Calls, Pagers
    <2> QED
      BY <1>1, <2>1, Released DEF EndRead
  <1>5. /\ Q \in Pagers /\ Q.eState = OPEN /\ Q.op = "none" /\ Q.held = P.held /\ Q.dbFileVers = P.dbFileVers
        /\ Q.cache = (IF P.eState = ERROR THEN NoCache ELSE P.cache) /\ Clean(Q)
    BY <1>1, <1>3, UnlockedOK, UnlockedIs
  <1>6. Fresh(Q, file, jrnl) /\ (~Q.held => Blank(Q.cache))
    <2>1. CASE P.eState = ERROR
      BY <1>5, <2>1 DEF Fresh, Blank, NoCache
    <2>2. CASE P.eState = READER
      <3>1. Knows(P, file) /\ ~Armed(jrnl) /\ P.held
        BY <1>1, <2>2 DEF Consistent, InStep
      <3>2. AtRest(file, jrnl) /\ P.dbSize = file.size
        BY <1>1, <2>2, <3>1, Disarmed DEF Sizes
      <3>3. CASE file.size = 0
        <4>1. \A p \in Page : file.page[p] = 0
          BY <1>1, <3>3 DEF Restores, Page
        <4>2. \A p \in Page : ~(p <= P.dbSize)
          BY <3>2, <3>3 DEF Page
        <4>3. Blank(P.cache)
          BY <3>1, <4>1, <4>2 DEF Knows, Agrees, Blank
        <4> QED
          BY <1>5, <2>2, <4>3 DEF Fresh
      <3>4. CASE file.size # 0
        <4>1. file.size > 0 /\ 1 \in Page /\ 1 <= file.size
          BY <1>1, <3>4 DEF Files, Page
        <4>2. P.dbFileVers = Version(file, jrnl)
          BY <3>1, <3>2, <3>4, <4>1 DEF Knows, AtRest, Version
        <4>3. \A p \in Page : P.cache[p] # NoPage => p <= OldSize(file, jrnl) /\ P.cache[p] = Old(file, jrnl, p)
          BY <3>1, <3>2, <4>1 DEF Knows, Agrees, AtRest
        <4> QED
          BY <1>5, <2>2, <3>1, <4>2, <4>3 DEF Fresh
      <3> QED
        BY <3>3, <3>4
    <2> QED
      BY <1>2, <2>1, <2>2
  <1>7. Consistent(Q, NO, file, jrnl) /\ SeenBy(Q, file) = NoView
    BY <1>5, <1>6, ClosedOK, NoViewOf
  <1> QED
    BY <1>2, <1>3, <1>4, <1>7, QuietStep

LEMMA CloseMoves ==
    ASSUME AtomicInv, PagerInv', NEW c \in Conn, Undisturbed(c), Close(c)
    PROVE  Step(c)
  <1>1. PagerInv /\ pager[c] \in Pagers /\ fileLock[c] \in NO..EXCLUSIVE /\ Calls(pager[c], fileLock[c])
    BY MoreFacts
  <1>2. UNCHANGED <<file, jrnl>> /\ fileLock' = fileLock /\ fileLock[c] = NO
    BY <1>1, ClosedHasNoLock DEF Close
  <1>3. pager'[c] = NewPager /\ pager' = [pager EXCEPT ![c] = pager'[c]]
    BY <1>1, Called DEF Close
  <1>4. Blank(NewPager.cache) /\ Clean(NewPager)
    BY DEF NewPager, NoCache, Blank, Clean
  <1>5. Consistent(NewPager, NO, file, jrnl) /\ SeenBy(NewPager, file) = NoView
    BY <1>4, NewPagerOK, ClosedOK, NoViewOf DEF Fresh
  <1> QED
    BY <1>2, <1>3, <1>5, QuietStep

LEMMA RecycleMoves ==
    ASSUME AtomicInv, PagerInv', NEW c \in Conn, Undisturbed(c), Recycle(c)
    PROVE  Step(c)
  <1> DEFINE P == pager[c]
             Q == pager'[c]
  <1>1. PagerInv /\ P \in Pagers /\ fileLock[c] \in NO..EXCLUSIVE /\ Calls(P, fileLock[c])
        /\ Consistent(P, fileLock[c], file, jrnl)
    BY MoreFacts
  <1>2. UNCHANGED <<file, jrnl>> /\ fileLock' = fileLock /\ fileLock[c] = NO /\ P.eState = OPEN /\ P.op = "none"
    BY <1>1, ClosedHasNoLock DEF Recycle
  <1>3. Q = [P EXCEPT !.cache = [P.cache EXCEPT ![1] = NoPage]] /\ pager' = [pager EXCEPT ![c] = Q]
    BY <1>1, Called DEF Recycle
  <1>4. /\ Q.eState = OPEN /\ Q.op = "none" /\ Q.held = P.held /\ Q.dbFileVers = P.dbFileVers
        /\ Q.inJournal = P.inJournal /\ Q.changeCountDone = P.changeCountDone
        /\ \A p \in Page : Q.cache[p] = NoPage \/ Q.cache[p] = P.cache[p]
    BY <1>1, <1>2, <1>3 DEF Pagers
  <1>5. Q \in Pagers
    BY NextFacts
  <1> HIDE DEF Q
  <1>6. Fresh(Q, file, jrnl) /\ (~Q.held => Blank(Q.cache)) /\ Clean(Q)
    BY <1>1, <1>2, <1>4 DEF Consistent, Fresh, Blank, Clean
  <1>7. Consistent(Q, NO, file, jrnl) /\ SeenBy(Q, file) = NoView
    BY <1>4, <1>5, <1>6, ClosedOK, NoViewOf
  <1> QED
    BY <1>2, <1>3, <1>7, QuietStep DEF Q

(* What a connection that only reads can rely on *)
LEMMA ReaderFacts ==
    ASSUME AtomicInv, NEW c \in Conn, pager[c].eState \in {READER, WRITER_LOCKED}, pager[c].op = "none"
    PROVE  /\ Knows(pager[c], file) /\ Clean(pager[c]) /\ pager[c].held /\ ~Armed(jrnl) /\ AtRest(file, jrnl)
           /\ pager[c].dbSize = file.size
           /\ SeenBy(pager[c], file) = Current(file, jrnl) /\ SeenBy(pager[c], file) \in Content
           /\ \A p \in 2..file.size : file.page[p] \in Data
  <1> DEFINE P == pager[c]
  <1>1. /\ P \in Pagers /\ file \in Files /\ jrnl \in Seq(Segments) /\ Restores(file, jrnl)
        /\ Sizes(P, file, jrnl) /\ Consistent(P, fileLock[c], file, jrnl)
    BY MoreFacts
  <1>2. Knows(P, file) /\ Clean(P) /\ P.held /\ ~Armed(jrnl)
    BY <1>1 DEF Consistent, InStep
  <1>3. AtRest(file, jrnl) /\ P.dbSize = file.size
    BY <1>1, <1>2, Disarmed DEF Sizes
  <1>4. SeenBy(P, file) = Current(file, jrnl)
    BY <1>1, <1>2, <1>3, FileView DEF Knows
  <1>5. Current(file, jrnl) \in Content
    BY <1>1, CurrentIsContent
  <1>6. \A p \in 2..file.size : file.page[p] \in Data
    <2>1. \A p \in 2..file.size : Old(file, jrnl, p) \in Data
      BY <1>1, <1>3 DEF Restores, AtRest
    <2>2. \A p \in 2..file.size : p \in Page
      BY <1>1 DEF Files, Page
    <2> QED
      BY <1>3, <2>1, <2>2 DEF AtRest
  <1> QED
    BY <1>2, <1>3, <1>4, <1>5, <1>6

LEMMA ChangingOK ==
    ASSUME NEW P \in Pagers, P.eState \in {CACHEMOD, DBMOD}, P.op \in {"none", "flush", "failed"}, P.held,
           NEW lock, NEW f, NEW j, InStep(P, lock, j), Ahead(P, j), Changing(P, f, j),
           P.op \in {"none", "flush"} => Pending(P, f, j)
    PROVE  Consistent(P, lock, f, j)
  BY DEF Consistent

(* A page that is read for the first time is not in the change. *)
LEMMA FetchMoves ==
    ASSUME AtomicInv, PagerInv', NEW c \in Conn, Undisturbed(c), NEW p \in Page, Fetch(c, p)
    PROVE  Step(c)
  <1> DEFINE P == pager[c]
             Q == pager'[c]
  <1>1. /\ PagerInv /\ P \in Pagers /\ file \in Files /\ fileLock[c] \in NO..EXCLUSIVE
        /\ Cached(P) /\ Consistent(P, fileLock[c], file, jrnl)
    BY MoreFacts
  <1>2. /\ P.eState \in READER..DBMOD /\ P.op = "none" /\ P.cache[p] = NoPage /\ p <= P.dbSize
        /\ UNCHANGED <<file, jrnl>> /\ fileLock' = fileLock
    BY DEF Fetch
  <1>3. Q = [P EXCEPT !.cache = [P.cache EXCEPT ![p] = file.page[p]]] /\ pager' = [pager EXCEPT ![c] = Q]
    BY <1>1, Called DEF Fetch
  <1>4. Q \in Pagers
    BY NextFacts
  <1>5. /\ Q.eState = P.eState /\ Q.op = P.op /\ Q.held = P.held /\ Q.dbFileVers = P.dbFileVers
        /\ Q.inJournal = P.inJournal /\ Q.changeCountDone = P.changeCountDone /\ Q.dbSize = P.dbSize
        /\ Q.dbOrigSize = P.dbOrigSize /\ Q.hdr = P.hdr /\ Q.needSync = P.needSync /\ Q.dirty = P.dirty
    BY <1>1, <1>3 DEF Pagers
  <1>6. \A q \in Page : Q.cache[q] = IF q = p THEN file.page[p] ELSE P.cache[q]
    BY <1>1, <1>3 DEF Pagers
  <1> HIDE DEF Q
  <1>7. \A q \in Page : Seen(Q, file, q) = Seen(P, file, q)
    BY <1>2, <1>6 DEF Seen
  <1>8. \A q \in 2..P.dbSize : Seen(Q, file, q) = Seen(P, file, q)
    BY <1>1, <1>7 DEF Pagers, Page
  <1>9. SeenBy(Q, file) = SeenBy(P, file)
    BY <1>1, <1>2, <1>4, <1>5, <1>8, SameView
  <1>10. CASE P.eState \in {READER, WRITER_LOCKED}
    <2>1. Knows(P, file) /\ Clean(P) /\ P.held /\ ~Armed(jrnl)
      BY <1>2, <1>10, ReaderFacts
    <2>2. Knows(Q, file) /\ Clean(Q)
      BY <1>2, <1>5, <1>6, <2>1 DEF Knows, Agrees, Clean
    <2>3. Consistent(Q, fileLock[c], file, jrnl)
      BY <1>2, <1>4, <1>5, <1>10, <2>1, <2>2, ReaderOK
    <2> QED
      BY <1>2, <1>3, <1>9, <2>3, QuietStep DEF Q
  <1>11. CASE P.eState \in {CACHEMOD, DBMOD}
    <2>1. P.held /\ InStep(P, fileLock[c], jrnl) /\ Ahead(P, jrnl) /\ Changing(P, file, jrnl) /\ Pending(P, file, jrnl)
      BY <1>1, <1>2, <1>11 DEF Consistent
    <2>2. InStep(Q, fileLock[c], jrnl) /\ Ahead(Q, jrnl)
      BY <1>5, <2>1 DEF InStep, Ahead
    <2>3. Changing(Q, file, jrnl)
      BY <1>5, <1>6, <2>1 DEF Changing
    <2>4. Pending(Q, file, jrnl)
      <3>1. p \notin P.dirty
        BY <1>1, <1>2, <1>11 DEF Cached
      <3> QED
        BY <1>2, <1>5, <1>6, <1>8, <2>1, <3>1 DEF Pending, Unflushed
    <2>5. Consistent(Q, fileLock[c], file, jrnl)
      BY <1>2, <1>4, <1>5, <1>11, <2>1, <2>2, <2>3, <2>4, ChangingOK
    <2> QED
      BY <1>2, <1>3, <1>9, <2>5, QuietStep DEF Q
  <1> QED
    BY <1>2, <1>10, <1>11

---------------------------------------------------------------------------
(* Write transactions: begin and end *)

LEMMA BeginMoves ==
    ASSUME AtomicInv, PagerInv', NEW c \in Conn, Undisturbed(c), Begin(c) \/ BeginExclusive(c)
    PROVE  Step(c)
  <1> DEFINE P == pager[c]
             Q == pager'[c]
  <1>1. PagerInv /\ P \in Pagers /\ LockTypes
    BY MoreFacts, Facts
  <1>2. P.eState = READER /\ P.op = "none" /\ UNCHANGED <<file, jrnl>>
    BY DEF Begin, BeginExclusive
  <1>3. \A d \in Conn \ {c} : fileLock'[d] = fileLock[d]
    BY <1>1 DEF Begin, BeginExclusive, Raise, LockTypes
  <1>4. \E state \in {READER, WRITER_LOCKED} : \E orig, lock :
          pager' = [pager EXCEPT ![c] = [P EXCEPT !.eState = state, !.dbOrigSize = orig, !.eLock = lock]]
    <2>1. CASE Begin(c)
      BY <2>1 DEF Begin
    <2>2. CASE BeginExclusive(c) /\ inode.nShared = 1
      BY <2>2 DEF BeginExclusive
    <2>3. CASE BeginExclusive(c) /\ inode.nShared # 1
      <3>1. pager' = [pager EXCEPT ![c] = [P EXCEPT !.eLock = RESERVED]]
        BY <2>3 DEF BeginExclusive
      <3>2. [P EXCEPT !.eLock = RESERVED] =
              [P EXCEPT !.eState = READER, !.dbOrigSize = P.dbOrigSize, !.eLock = RESERVED]
        BY <1>1, <1>2 DEF Pagers
      <3> QED
        BY <3>1, <3>2
    <2> QED
      BY <2>1, <2>2, <2>3
  <1>a. PICK state \in {READER, WRITER_LOCKED} : \E orig, lock :
          pager' = [pager EXCEPT ![c] = [P EXCEPT !.eState = state, !.dbOrigSize = orig, !.eLock = lock]]
    BY <1>4
  <1>5. PICK orig, lock :
          pager' = [pager EXCEPT ![c] = [P EXCEPT !.eState = state, !.dbOrigSize = orig, !.eLock = lock]]
    BY <1>a
  <1>6. /\ Q = [P EXCEPT !.eState = state, !.dbOrigSize = orig, !.eLock = lock]
        /\ pager' = [pager EXCEPT ![c] = Q]
    BY <1>1, <1>5, Called
  <1>7. Q \in Pagers
    BY NextFacts
  <1>8. /\ Q.eState = state /\ Q.op = P.op /\ Q.held = P.held /\ Q.dbFileVers = P.dbFileVers
        /\ Q.inJournal = P.inJournal /\ Q.changeCountDone = P.changeCountDone /\ Q.dbSize = P.dbSize
        /\ Q.cache = P.cache
    BY <1>1, <1>6 DEF Pagers
  <1> HIDE DEF Q
  <1>9. Knows(P, file) /\ Clean(P) /\ P.held /\ ~Armed(jrnl)
    BY <1>2, ReaderFacts
  <1>10. Knows(Q, file) /\ Clean(Q) /\ Q.held
    BY <1>8, <1>9 DEF Knows, Clean
  <1>11. Consistent(Q, fileLock'[c], file, jrnl)
    BY <1>2, <1>7, <1>8, <1>9, <1>10, ReaderOK
  <1>12. SeenBy(Q, file) = SeenBy(P, file)
    BY <1>1, <1>2, <1>7, <1>8, SameView DEF Seen
  <1> QED
    BY <1>2, <1>3, <1>6, <1>11, <1>12, QuietStep DEF Q

LEMMA EndedIs ==
    ASSUME NEW P \in Pagers
    PROVE  /\ Ended(P).held = P.held /\ Ended(P).dbFileVers = P.dbFileVers /\ Clean(Ended(P))
           /\ Ended(P).cache = [p \in Page |-> IF p <= P.dbSize THEN P.cache[p] ELSE IF p = 1 THEN 0 ELSE NoPage]
  BY DEF Ended, Pagers, Clean

(* pager_end_transaction truncates the cache to the database. *)
LEMMA EndedKnows ==
    ASSUME NEW P \in Pagers, NEW f \in Files, P.dbSize = f.size,
           \A p \in Page : p <= P.dbSize /\ P.cache[p] # NoPage => P.cache[p] = f.page[p],
           f.size > 0 => P.dbFileVers = f.page[1],
           \A p \in Page : p > f.size => f.page[p] = 0
    PROVE  Knows(Ended(P), f)
  <1>1. /\ Ended(P).dbFileVers = P.dbFileVers /\ Ended(P).dbSize = P.dbSize
        /\ \A p \in Page : Ended(P).cache[p] = IF p <= P.dbSize THEN P.cache[p] ELSE IF p = 1 THEN 0 ELSE NoPage
    <2>1. Ended(P).dbFileVers = P.dbFileVers /\ Ended(P).dbSize = P.dbSize
      BY EndedIs, EndedOK
    <2>2. Ended(P).cache = [p \in Page |-> IF p <= P.dbSize THEN P.cache[p] ELSE IF p = 1 THEN 0 ELSE NoPage]
      BY EndedIs
    <2> QED
      BY <2>1, <2>2
  <1>2. \A p \in Page : p > f.size \/ p <= f.size
    BY DEF Files, Page
  <1> QED
    BY <1>1, <1>2 DEF Knows, Agrees

LEMMA EndUnchangedMoves ==
    ASSUME AtomicInv, PagerInv', NEW c \in Conn, Undisturbed(c), EndUnchanged(c)
    PROVE  Step(c)
  <1> DEFINE P == pager[c]
             Q == pager'[c]
  <1>1. PagerInv /\ P \in Pagers /\ file \in Files /\ Restores(file, jrnl) /\ Calls(P, fileLock[c])
    BY MoreFacts
  <1>2. P.eState = WRITER_LOCKED /\ P.op = "none" /\ UNCHANGED <<file, jrnl>>
    BY DEF EndUnchanged
  <1>3. Q = Ended(P) /\ pager' = [pager EXCEPT ![c] = Q]
    BY <1>1, Called DEF EndUnchanged
  <1>4. \A d \in Conn \ {c} : fileLock'[d] = fileLock[d]
    <2>1. P.eLock >= SHARED
      BY <1>1, <1>2 DEF Calls, Pagers
    <2> QED
      BY <1>1, <2>1, Downgraded DEF EndUnchanged
  <1>5. /\ Knows(P, file) /\ P.held /\ ~Armed(jrnl) /\ AtRest(file, jrnl) /\ P.dbSize = file.size
        /\ SeenBy(P, file) = Current(file, jrnl)
    BY <1>2, ReaderFacts
  <1>6. Knows(Ended(P), file)
    <2>1. /\ \A p \in Page : p <= P.dbSize /\ P.cache[p] # NoPage => P.cache[p] = file.page[p]
          /\ file.size > 0 => P.dbFileVers = file.page[1]
      BY <1>5 DEF Knows, Agrees
    <2>2. \A p \in Page : p > file.size => file.page[p] = 0
      BY <1>1 DEF Restores
    <2> QED
      BY <1>1, <1>5, <2>1, <2>2, EndedKnows
  <1>7. Q \in Pagers /\ Q.eState = READER /\ Q.op = "none" /\ Q.held /\ Clean(Q) /\ Q.dbSize = file.size
    <2>1. /\ Ended(P) \in Pagers /\ Ended(P).eState = READER /\ Ended(P).op = "none"
          /\ Ended(P).dbSize = P.dbSize
      BY <1>1, EndedOK
    <2>2. Ended(P).held = P.held /\ Clean(Ended(P))
      BY <1>1, EndedIs
    <2> QED
      BY <1>3, <1>5, <2>1, <2>2
  <1>8. Consistent(Q, fileLock'[c], file, jrnl)
    BY <1>3, <1>5, <1>6, <1>7, ReaderOK
  <1>9. SeenBy(Q, file) = Current(file, jrnl)
    <2>1. Agrees(Q.cache, Q.dbSize, file)
      BY <1>3, <1>6 DEF Knows
    <2> HIDE DEF Q
    <2> QED
      BY <1>1, <1>5, <1>7, <2>1, FileView
  <1> QED
    BY <1>2, <1>3, <1>4, <1>5, <1>8, <1>9, QuietStep

---------------------------------------------------------------------------
(* Write transactions: what the writer relies on *)

LEMMA Opening ==
    ASSUME AtomicInv, NEW c \in Conn, pager[c].eState = WRITER_LOCKED, pager[c].op = "none",
           NEW open, open = << NewSegment(pager[c].dbSize) >>
    PROVE  /\ open \in Seq(Segments) /\ open # << >> /\ Len(open) = 1 /\ ~open[Len(open)].magic
           /\ open[1].orig = pager[c].dbOrigSize
           /\ Restores(file, open) /\ Kept(file, jrnl, file, open) /\ ~Armed(open) /\ ~Armed(jrnl)
           /\ Changing(pager[c], file, open) /\ Pending(pager[c], file, open)
  <1> DEFINE P == pager[c]
  <1>1. /\ P \in Pagers /\ file \in Files /\ jrnl \in Seq(Segments) /\ Restores(file, jrnl)
        /\ Sizes(P, file, jrnl) /\ Cached(P)
    BY MoreFacts
  <1>2. /\ Knows(P, file) /\ Clean(P) /\ ~Armed(jrnl) /\ P.dbSize = file.size
        /\ \A p \in 2..file.size : file.page[p] \in Data
    BY ReaderFacts
  <1>3. P.dbOrigSize = file.size /\ P.dirty = {}
    BY <1>1 DEF Sizes, Cached
  <1>4. /\ Restores(file, open) /\ Kept(file, jrnl, file, open)
        /\ ~Armed(open) /\ Logged(open) = {} /\ Unsynced(open) = {} /\ Len(open) = 1 /\ ~open[1].magic
        /\ open[1].orig = file.size
    BY <1>1, <1>2, RestoresOpened
  <1>5. open \in Seq(Segments) /\ open # << >>
    <2>1. file.size \in 0..MaxPage
      BY <1>1 DEF Files
    <2>2. NewSegment(file.size) \in Segments
      BY <2>1 DEF NewSegment, Segments
    <2> QED
      BY <1>2, <2>2
  <1>6. AtRest(file, open)
    BY <1>1, <1>4, <1>5, Disarmed
  <1>7. file.size \in 0..MaxPage /\ \A p \in 2..file.size : p \in Page
    BY <1>1 DEF Files, Page
  <1>8. Changing(P, file, open)
    <2>1. \A p \in Page : p \in P.inJournal <=> Covered(open, p)
      BY <1>2, <1>4 DEF Clean, Covered
    <2>2. \A p \in Page : p <= P.dbOrigSize /\ P.cache[p] # NoPage => P.cache[p] = file.page[p]
      BY <1>2 DEF Knows, Agrees
    <2>3. P.dbOrigSize > 0 => P.dbFileVers = Version(file, open)
      <3>1. 1 \in Page
        BY DEF Page
      <3> QED
        BY <3>1, <1>2, <1>3, <1>6, <1>7 DEF Version, AtRest, Knows
    <2> QED
      BY <1>4, <2>1, <2>2, <2>3 DEF Changing
  <1>9. Pending(P, file, open)
    <2>1. \A p \in 2..P.dbSize : Seen(P, file, p) \in Data
      BY <1>2, <1>7 DEF Seen, Knows, Agrees
    <2>2. Unflushed(P) = {}
      BY <1>3 DEF Unflushed
    <2>3. \A p \in Page : P.cache[p] # NoPage => (p <= P.dbSize \/ p = 1) /\ P.cache[p] = file.page[p]
      BY <1>2 DEF Knows, Agrees
    <2> QED
      BY <1>2, <1>3, <2>1, <2>2, <2>3 DEF Pending, Clean
  <1> QED
    BY <1>2, <1>3, <1>4, <1>5, <1>8, <1>9

(* A writer, from its first change on *)
LEMMA ChangerFacts ==
    ASSUME AtomicInv, NEW c \in Conn, Writer(c), pager[c].eState # WRITER_LOCKED
    PROVE  /\ pager[c].eState \in {CACHEMOD, DBMOD} /\ pager[c].op = "none" /\ pager[c].held
           /\ jrnl # << >> /\ jrnl[1].orig = pager[c].dbOrigSize
           /\ pager[c].hdr = Len(jrnl) /\ ~jrnl[Len(jrnl)].magic
           /\ Changing(pager[c], file, jrnl) /\ Pending(pager[c], file, jrnl)
           /\ InStep(pager[c], fileLock[c], jrnl)
           /\ Armed(jrnl) <=> pager[c].eState = DBMOD
           /\ SeenBy(pager[c], file) \in Content
           /\ \A d \in Conn \ {c} : fileLock[d] <= SHARED
           /\ ~Armed(jrnl) \/ \A d \in Conn \ {c} : fileLock[d] = NO
  <1> DEFINE P == pager[c]
  <1>1. /\ PagerInv /\ P \in Pagers /\ Calls(P, fileLock[c]) /\ LockTypes /\ LockTable
        /\ Consistent(P, fileLock[c], file, jrnl)
    BY MoreFacts, Facts
  <1>2. /\ P.op = "none" /\ P.eState \in {CACHEMOD, DBMOD} /\ jrnl # << >> /\ jrnl[1].orig = P.dbOrigSize
        /\ \A d \in Conn \ {c} : fileLock[d] <= SHARED
    BY <1>1, WriterFacts
  <1>3. /\ P.held /\ InStep(P, fileLock[c], jrnl) /\ Changing(P, file, jrnl) /\ Pending(P, file, jrnl)
        /\ Ahead(P, jrnl)
    BY <1>1, <1>2 DEF Consistent
  <1>4. P.hdr = Len(jrnl) /\ ~jrnl[Len(jrnl)].magic
    BY <1>2, <1>3 DEF Ahead
  <1>5. Armed(jrnl) <=> P.eState = DBMOD
    BY <1>2, <1>3 DEF InStep
  <1>6. ~Armed(jrnl) \/ \A d \in Conn \ {c} : fileLock[d] = NO
    <2>1. P.eState = DBMOD => fileLock[c] = EXCLUSIVE
      BY <1>1 DEF Calls
    <2> QED
      BY <1>1, <1>5, <2>1, Above
  <1>7. SeenBy(P, file) \in Content
    BY <1>1, <1>2, <1>3, ViewIsContent DEF Pending
  <1> QED
    BY <1>2, <1>3, <1>4, <1>5, <1>6, <1>7

(* A page goes to the journal. *)
LEMMA Recording ==
    ASSUME NEW P \in Pagers, NEW f \in Files, NEW j \in Seq(Segments), j # << >>, Restores(f, j), Changing(P, f, j),
           ~j[Len(j)].magic, NEW p \in Page, p \notin P.inJournal
    PROVE  LET k == WithRecord(j, p, f.page[p])
           IN  /\ Restores(f, k) /\ Kept(f, j, f, k) /\ (Armed(k) <=> Armed(j))
               /\ k # << >> /\ Len(k) = Len(j) /\ ~k[Len(k)].magic
               /\ \A q \in Page : q \in P.inJournal \cup {p} <=> Covered(k, q)
               /\ \A r \in Unsynced(k) : r.page \in P.needSync \cup {p}
  <1> DEFINE k == WithRecord(j, p, f.page[p])
             new == [page |-> p, val |-> f.page[p]]
  <1>1. ~Covered(j, p)
    BY DEF Changing
  <1>2. /\ Restores(f, k) /\ Kept(f, j, f, k) /\ (Armed(k) <=> Armed(j)) /\ Unsynced(k) = Unsynced(j) \cup {new}
        /\ Len(k) = Len(j) /\ k # << >> /\ ~k[Len(k)].magic
        /\ \A q : Covered(k, q) <=> Covered(j, q) \/ q = p
    BY <1>1, RestoresRecord
  <1>3. new.page = p
    OBVIOUS
  <1> HIDE DEF k, new
  <1>4. \A q \in Page : q \in P.inJournal \cup {p} <=> Covered(k, q)
    BY <1>2 DEF Changing
  <1>5. \A r \in Unsynced(k) : r.page \in P.needSync \cup {p}
    BY <1>2, <1>3 DEF Changing
  <1> QED
    BY <1>2, <1>4, <1>5 DEF k

LEMMA WriterIs ==
    ASSUME AtomicInv, NEW c \in Conn, Writer(c), NEW open,
           open = IF pager[c].eState = WRITER_LOCKED THEN << NewSegment(pager[c].dbSize) >> ELSE jrnl
    PROVE  /\ pager[c].op = "none" /\ pager[c].held
           /\ open \in Seq(Segments) /\ open # << >> /\ ~open[Len(open)].magic /\ open[1].orig = pager[c].dbOrigSize
           /\ (IF pager[c].eState = WRITER_LOCKED THEN 1 ELSE pager[c].hdr) = Len(open)
           /\ Restores(file, open) /\ Kept(file, jrnl, file, open)
           /\ (Armed(open) <=> Armed(jrnl)) /\ (Armed(open) <=> pager[c].eState = DBMOD)
           /\ Armed(open) => fileLock[c] \notin {RESERVED, PENDING}
           /\ Changing(pager[c], file, open) /\ Pending(pager[c], file, open)
           /\ SeenBy(pager[c], file) \in Content
           /\ \A d \in Conn \ {c} : fileLock[d] <= SHARED
           /\ ~Armed(jrnl) \/ \A d \in Conn \ {c} : fileLock[d] = NO
  <1>1. pager[c].op = "none" /\ \A d \in Conn \ {c} : fileLock[d] <= SHARED
    <2>1. PagerInv
      BY MoreFacts
    <2> QED
      BY <2>1, WriterFacts
  <1>2. CASE pager[c].eState = WRITER_LOCKED
    <2>1. open = << NewSegment(pager[c].dbSize) >>
      BY <1>2
    <2>2. /\ open \in Seq(Segments) /\ open # << >> /\ Len(open) = 1 /\ ~open[Len(open)].magic
          /\ open[1].orig = pager[c].dbOrigSize
          /\ Restores(file, open) /\ Kept(file, jrnl, file, open) /\ ~Armed(open) /\ ~Armed(jrnl)
          /\ Changing(pager[c], file, open) /\ Pending(pager[c], file, open)
      BY <1>1, <1>2, <2>1, Opening
    <2>3. pager[c].held /\ SeenBy(pager[c], file) \in Content
      BY <1>1, <1>2, ReaderFacts
    <2> QED
      BY <1>1, <1>2, <2>2, <2>3
  <1>3. CASE pager[c].eState # WRITER_LOCKED
    <2>1. open = jrnl
      BY <1>3
    <2>2. jrnl \in Seq(Segments) /\ Restores(file, jrnl) /\ Kept(file, jrnl, file, jrnl)
      BY MoreFacts, KeptSame
    <2>3. /\ pager[c].held /\ jrnl # << >> /\ jrnl[1].orig = pager[c].dbOrigSize
          /\ pager[c].hdr = Len(jrnl) /\ ~jrnl[Len(jrnl)].magic
          /\ Changing(pager[c], file, jrnl) /\ Pending(pager[c], file, jrnl)
          /\ InStep(pager[c], fileLock[c], jrnl)
          /\ Armed(jrnl) <=> pager[c].eState = DBMOD
          /\ SeenBy(pager[c], file) \in Content
          /\ ~Armed(jrnl) \/ \A d \in Conn \ {c} : fileLock[d] = NO
      BY <1>3, ChangerFacts
    <2> QED
      BY <1>1, <1>3, <2>1, <2>2, <2>3 DEF InStep
  <1> QED
    BY <1>2, <1>3

LEMMA WriteMoves ==
    ASSUME AtomicInv, PagerInv', NEW c \in Conn, Undisturbed(c), NEW p \in Page, NEW v \in Input, Write(c, p, v)
    PROVE  Step(c)
  <1> DEFINE P == pager[c]
             Q == pager'[c]
             old == IF P.cache[p] # NoPage THEN P.cache[p] ELSE file.page[p]
             first == P.eState = WRITER_LOCKED
             open == IF first THEN << NewSegment(P.dbSize) >> ELSE jrnl
             journal == p <= P.dbOrigSize /\ p \notin P.inJournal
             state == IF first THEN CACHEMOD ELSE P.eState
             h == IF first THEN 1 ELSE P.hdr
             cache == [P.cache EXCEPT ![p] = IF p = 1 THEN old ELSE v]
             dirty == P.dirty \cup {p}
             n == IF p > P.dbSize THEN p ELSE P.dbSize
             inJ == IF journal THEN P.inJournal \cup {p} ELSE P.inJournal
             sync == IF journal \/ (p > P.dbOrigSize /\ P.eState # DBMOD) THEN P.needSync \cup {p} ELSE P.needSync
  <1>1. /\ PagerInv /\ P \in Pagers /\ file \in Files /\ jrnl \in Seq(Segments)
        /\ file' \in Files /\ jrnl' \in Seq(Segments) /\ Q \in Pagers
    BY MoreFacts, NextFacts
  <1>2. Writer(c) /\ p <= P.dbSize + 1 /\ UNCHANGED <<file, fileLock>>
    BY DEF Write
  <1>3. /\ P.op = "none" /\ P.held
        /\ open \in Seq(Segments) /\ open # << >> /\ ~open[Len(open)].magic /\ open[1].orig = P.dbOrigSize
        /\ h = Len(open)
        /\ Restores(file, open) /\ Kept(file, jrnl, file, open)
        /\ (Armed(open) <=> Armed(jrnl)) /\ (Armed(open) <=> P.eState = DBMOD)
        /\ Armed(open) => fileLock[c] \notin {RESERVED, PENDING}
        /\ Changing(P, file, open) /\ Pending(P, file, open)
        /\ SeenBy(P, file) \in Content
        /\ \A d \in Conn \ {c} : fileLock[d] <= SHARED
        /\ ~Armed(jrnl) \/ \A d \in Conn \ {c} : fileLock[d] = NO
    <2> HIDE DEF open
    <2>1. open = IF P.eState = WRITER_LOCKED THEN << NewSegment(P.dbSize) >> ELSE jrnl
      BY DEF open
    <2> QED
      BY <1>2, <2>1, WriterIs
  <1>4. P.eState \in {WRITER_LOCKED, CACHEMOD, DBMOD}
    BY <1>2 DEF Writer
  <1>5. /\ Q = [P EXCEPT !.eState = state, !.hdr = h, !.cache = cache, !.dirty = dirty,
                         !.dbSize = n, !.inJournal = inJ, !.needSync = sync]
        /\ pager' = [pager EXCEPT ![c] = Q]
        /\ jrnl' = IF journal THEN WithRecord(open, p, old) ELSE open
    <2>1. pager' = [pager EXCEPT ![c] = [P EXCEPT !.eState = state, !.hdr = h, !.cache = cache, !.dirty = dirty,
                                                  !.dbSize = n, !.inJournal = inJ, !.needSync = sync]]
      BY DEF Write
    <2>2. jrnl' = IF journal THEN WithRecord(open, p, old) ELSE open
      BY DEF Write
    <2> HIDE DEF state, h, cache, dirty, n, inJ, sync, open, old, journal
    <2> QED
      BY <1>1, <2>1, <2>2, Called
  <1>6. /\ state = IF Armed(open) THEN DBMOD ELSE CACHEMOD
        /\ p \in Nat /\ P.dbSize \in Nat /\ P.dbOrigSize \in Nat /\ n \in Nat /\ p <= n /\ P.dbSize <= n
        /\ \A q \in 2..n : q \in Page /\ (q = p \/ q \in 2..P.dbSize)
    <2>1. P.dbSize \in 0..MaxPage /\ P.dbOrigSize \in 0..MaxPage
      BY <1>1 DEF Pagers
    <2>2. state = IF Armed(open) THEN DBMOD ELSE CACHEMOD
      BY <1>3, <1>4
    <2> QED
      BY <1>2, <2>1, <2>2 DEF Page
  <1>7. /\ v \in Data /\ v # NoPage
        /\ \A q \in Page : q # p => cache[q] = P.cache[q]
        /\ p # 1 => cache[p] = v
    BY <1>1 DEF Pagers
  <1>8. /\ p <= P.dbOrigSize => p \in inJ
        /\ P.inJournal \subseteq inJ /\ P.needSync \subseteq sync /\ \A q \in inJ : q \in P.inJournal \/ q = p
    OBVIOUS
  <1>9. /\ Restores(file, jrnl') /\ Kept(file, open, file, jrnl') /\ (Armed(jrnl') <=> Armed(open))
        /\ jrnl' # << >> /\ Len(jrnl') = Len(open) /\ ~jrnl'[Len(jrnl')].magic
        /\ \A q \in Page : q \in inJ <=> Covered(jrnl', q)
        /\ \A r \in Unsynced(jrnl') : r.page \in sync
    <2>1. CASE journal
      <3>1. p \notin P.inJournal /\ old = file.page[p]
        BY <2>1, <1>3 DEF Changing
      <3>2. jrnl' = WithRecord(open, p, file.page[p]) /\ inJ = P.inJournal \cup {p} /\ sync = P.needSync \cup {p}
        BY <2>1, <3>1, <1>5
      <3> HIDE DEF open, inJ, sync
      <3> QED
        BY <1>1, <1>3, <3>1, <3>2, Recording
    <2>2. CASE ~journal
      <3>1. jrnl' = open /\ inJ = P.inJournal
        BY <2>2, <1>5
      <3> HIDE DEF open
      <3> QED
        BY <3>1, <1>3, KeptSame DEF Changing
    <2> QED
      BY <2>1, <2>2
  <1> HIDE DEF open, state, h, cache, dirty, n, inJ, sync, Q
  <1>10. /\ Q.eState = state /\ Q.op = "none" /\ Q.held = P.held /\ Q.dbFileVers = P.dbFileVers
         /\ Q.changeCountDone = P.changeCountDone /\ Q.dbOrigSize = P.dbOrigSize
         /\ Q.hdr = h /\ Q.cache = cache /\ Q.dirty = dirty /\ Q.dbSize = n /\ Q.inJournal = inJ /\ Q.needSync = sync
    <2>1. /\ P \in Pagers /\ P.op = "none"
          /\ Q = [P EXCEPT !.eState = state, !.hdr = h, !.cache = cache, !.dirty = dirty,
                            !.dbSize = n, !.inJournal = inJ, !.needSync = sync]
      BY <1>1, <1>3, <1>5
    <2> HIDE DEF P
    <2> QED
      BY <2>1 DEF Pagers
  <1>11. Version(file, jrnl') = Version(file, open)
    BY <1>1, <1>3, <1>9, KeptAlike
  <1>12. Changing(Q, file, jrnl')
    <2>1. \A q \in Page : q <= P.dbOrigSize /\ q \notin inJ /\ cache[q] # NoPage => cache[q] = file.page[q]
      BY <1>3, <1>7, <1>8 DEF Changing
    <2>2. P.dbOrigSize > 0 => P.dbFileVers = Version(file, jrnl')
      BY <1>3, <1>11 DEF Changing
    <2> QED
      BY <1>9, <1>10, <2>1, <2>2 DEF Changing
  <1>13. dirty = P.dirty \cup {p}
    BY DEF dirty
  <1>14. Pending(Q, file, jrnl')
    <2>1. \A q \in Page \ dirty : cache[q] # NoPage => (q <= n \/ q = 1) /\ cache[q] = file.page[q]
      <3> SUFFICES ASSUME NEW q \in Page \ dirty, cache[q] # NoPage
                   PROVE  (q <= n \/ q = 1) /\ cache[q] = file.page[q]
        OBVIOUS
      <3>1. q # p /\ q \in Page \ P.dirty /\ cache[q] = P.cache[q]
        BY <1>7, <1>13
      <3>2. (q <= P.dbSize \/ q = 1) /\ P.cache[q] = file.page[q]
        BY <1>3, <3>1 DEF Pending, Unflushed
      <3> QED
        BY <1>6, <3>1, <3>2 DEF Page
    <2>2. \A q \in dirty : q <= P.dbOrigSize => q \in inJ
      BY <1>3, <1>8, <1>13 DEF Pending
    <2>3. \A q \in 2..n : Seen(Q, file, q) \in Data
      <3> SUFFICES ASSUME NEW q \in 2..n PROVE Seen(Q, file, q) \in Data
        OBVIOUS
      <3>1. CASE q = p
        BY <3>1, <1>6, <1>7, <1>10 DEF Seen
      <3>2. CASE q # p
        <4>1. q \in Page /\ q \in 2..P.dbSize /\ Seen(P, file, q) = Seen(Q, file, q)
          BY <3>2, <1>6, <1>7, <1>10 DEF Seen
        <4> QED
          BY <4>1, <1>3 DEF Pending
      <3> QED
        BY <3>1, <3>2
    <2>4. P.changeCountDone => 1 \in dirty
      BY <1>3, <1>13 DEF Pending
    <2> QED
      BY <1>10, <2>1, <2>2, <2>3, <2>4 DEF Pending, Unflushed
  <1>15. InStep(Q, fileLock[c], jrnl') /\ Ahead(Q, jrnl') /\ Q.eState \in {CACHEMOD, DBMOD}
    BY <1>3, <1>6, <1>9, <1>10 DEF InStep, Ahead
  <1>16. Consistent(Q, fileLock[c], file, jrnl')
    BY <1>1, <1>3, <1>10, <1>12, <1>14, <1>15, ChangingOK DEF Q
  <1>17. SeenBy(Q, file) \in Content
    BY <1>1, <1>10, <1>14, <1>15, ViewIsContent DEF Pending, Q
  <1>18. Kept(file, jrnl, file, jrnl')
    BY <1>3, <1>9, KeptTrans
  <1>19. Moves(c)
    BY <1>1, <1>2, <1>3, <1>17, <1>18, KeptAlike DEF Moves, Q
  <1> QED
    BY <1>2, <1>3, <1>5, <1>9, <1>16, <1>18, <1>19, OneStep DEF Q

LEMMA WriteFailsMoves ==
    ASSUME AtomicInv, PagerInv', NEW c \in Conn, Undisturbed(c), NEW p \in Page, WriteFails(c, p)
    PROVE  Step(c)
  <1> DEFINE P == pager[c]
             Q == pager'[c]
  <1>1. PagerInv /\ P \in Pagers /\ Q \in Pagers
    BY MoreFacts, NextFacts
  <1>2. /\ Writer(c) /\ P.eState # WRITER_LOCKED /\ p <= P.dbOrigSize /\ p \notin P.inJournal
        /\ UNCHANGED <<file, jrnl>> /\ fileLock' = fileLock
    BY DEF WriteFails
  <1>3. /\ P.eState \in {CACHEMOD, DBMOD} /\ P.held /\ P.hdr = Len(jrnl) /\ ~jrnl[Len(jrnl)].magic
        /\ Changing(P, file, jrnl) /\ InStep(P, fileLock[c], jrnl) /\ P.op = "none"
    BY <1>2, ChangerFacts
  <1>4. /\ Q = [P EXCEPT !.dirty = P.dirty \cup {p}, !.needSync = P.needSync \cup {p}, !.op = "failed"]
        /\ pager' = [pager EXCEPT ![c] = Q]
    BY <1>1, Called DEF WriteFails
  <1> HIDE DEF Q
  <1>5. /\ Q.eState = P.eState /\ Q.op = "failed" /\ Q.held = P.held /\ Q.dbFileVers = P.dbFileVers
        /\ Q.inJournal = P.inJournal /\ Q.dbOrigSize = P.dbOrigSize
        /\ Q.hdr = P.hdr /\ Q.needSync = P.needSync \cup {p} /\ Q.cache = P.cache
    BY <1>1, <1>4 DEF Pagers
  <1>6. Changing(Q, file, jrnl)
    BY <1>3, <1>5 DEF Changing
  <1>7. InStep(Q, fileLock[c], jrnl) /\ Ahead(Q, jrnl)
    BY <1>3, <1>5 DEF InStep, Ahead
  <1>8. Consistent(Q, fileLock[c], file, jrnl)
    BY <1>1, <1>3, <1>5, <1>6, <1>7, ChangingOK DEF Q
  <1>9. SeenBy(Q, file) = NoView
    BY <1>1, <1>5, NoViewOf DEF Q
  <1> QED
    BY <1>2, <1>4, <1>8, <1>9, QuietStep DEF Q

---------------------------------------------------------------------------
(* Write transactions: the cache is full *)

(* The journal is synced before a page of it goes to the file. *)
LEMMA StressedIs ==
    ASSUME AtomicInv, NEW c \in Conn, NEW p \in Page, Stress(c, p), NEW S, S = AfterStress(c, p)
    PROVE  /\ S \in Pagers /\ S.eState = DBMOD /\ S.op = "none" /\ S.held /\ S.dirty = pager[c].dirty
           /\ S.cache = pager[c].cache /\ S.dbSize = pager[c].dbSize
           /\ fileLock'[c] = EXCLUSIVE /\ \A d \in Conn \ {c} : fileLock[d] = NO /\ fileLock'[d] = fileLock[d]
           /\ jrnl' \in Seq(Segments) /\ jrnl' # << >> /\ jrnl'[1].orig = S.dbOrigSize
           /\ Restores(file, jrnl') /\ Kept(file, jrnl, file, jrnl') /\ Armed(jrnl')
           /\ S.hdr = Len(jrnl') /\ ~jrnl'[Len(jrnl')].magic
           /\ Changing(S, file, jrnl') /\ Pending(S, file, jrnl')
           /\ p # 1 /\ p \in S.dirty /\ p <= S.dbSize /\ S.cache[p] \in Nat /\ S.cache[p] # NoPage
           /\ \A r \in Unsynced(jrnl') : r.page # p
           /\ p <= S.dbOrigSize => Covered(jrnl', p)
  <1> DEFINE P == pager[c]
  <1>1. /\ PagerInv /\ P \in Pagers /\ file \in Files /\ jrnl \in Seq(Segments) /\ Journal(jrnl)
        /\ Restores(file, jrnl) /\ Cached(P) /\ LockTypes /\ LockTable
    BY MoreFacts, Facts
  <1>2. /\ S \in Pagers /\ S.eState = DBMOD /\ S.op = "none" /\ S.dirty = P.dirty /\ S.cache = P.cache
        /\ S.dbSize = P.dbSize /\ S.dbOrigSize = P.dbOrigSize /\ P.eState \in {CACHEMOD, DBMOD}
        /\ fileLock'[c] = EXCLUSIVE /\ \A d \in Conn \ {c} : fileLock[d] = NO /\ fileLock'[d] = fileLock[d]
        /\ jrnl' \in Seq(Segments) /\ jrnl' # << >> /\ jrnl'[1].orig = P.dbOrigSize
    BY <1>1, StressOK
  <1>3. Writer(c) /\ p \in P.dirty /\ p # 1
    BY DEF Stress
  <1>4. /\ P.op = "none" /\ P.held /\ jrnl # << >> /\ jrnl[1].orig = P.dbOrigSize
        /\ P.hdr = Len(jrnl) /\ ~jrnl[Len(jrnl)].magic
        /\ Changing(P, file, jrnl) /\ Pending(P, file, jrnl) /\ (Armed(jrnl) <=> P.eState = DBMOD)
    BY <1>2, <1>3, ChangerFacts
  <1>5. /\ S.held = P.held /\ S.inJournal = P.inJournal /\ S.dbFileVers = P.dbFileVers
        /\ S.changeCountDone = P.changeCountDone
        /\ S.needSync = (IF MustSync(c, p) THEN {} ELSE P.needSync)
        /\ S.hdr = IF MustSync(c, p) THEN Len(jrnl) + 1 ELSE P.hdr
    <2>1. CASE MustSync(c, p)
      BY <1>1, <2>1 DEF AfterStress, Pagers
    <2>2. CASE ~MustSync(c, p)
      BY <2>2 DEF AfterStress
    <2> QED
      BY <2>1, <2>2
  <1>6. p <= P.dbSize /\ P.cache[p] # NoPage /\ P.cache[p] \in Nat
    BY <1>1, <1>2, <1>3, <1>4 DEF Cached, Pagers
  <1>7. /\ Restores(file, jrnl') /\ Kept(file, jrnl, file, jrnl') /\ Armed(jrnl') /\ Logged(jrnl') = Logged(jrnl)
        /\ S.hdr = Len(jrnl') /\ ~jrnl'[Len(jrnl')].magic
        /\ \A r \in Unsynced(jrnl') : r.page \in S.needSync
        /\ \A r \in Unsynced(jrnl') : r.page # p
    <2>1. CASE MustSync(c, p)
      <3> DEFINE synced == Synced(jrnl)
      <3>1. /\ Restores(file, synced) /\ Kept(file, jrnl, file, synced) /\ Armed(synced)
            /\ Logged(synced) = Logged(jrnl) /\ Len(synced) = Len(jrnl) /\ synced # << >> /\ synced[Len(jrnl)].magic
        BY <1>1, <1>4, RestoresSynced
      <3>2. synced \in Seq(Segments) /\ P.dbOrigSize \in 0..MaxPage
        BY <1>1, <1>4, SyncedType DEF Pagers
      <3>3. jrnl' = Append(synced, NewSegment(P.dbOrigSize))
        BY <2>1 DEF Stress
      <3> HIDE DEF synced
      <3>4. /\ Restores(file, jrnl') /\ Kept(file, synced, file, jrnl')
            /\ Armed(jrnl') /\ Unsynced(jrnl') = {} /\ Logged(jrnl') = Logged(synced)
            /\ Len(jrnl') = Len(synced) + 1 /\ ~jrnl'[Len(jrnl')].magic
        BY <1>1, <3>1, <3>2, <3>3, RestoresSegment
      <3>5. Kept(file, jrnl, file, jrnl')
        BY <3>1, <3>4, KeptTrans
      <3> QED
        BY <2>1, <1>5, <3>1, <3>4, <3>5
    <2>2. CASE ~MustSync(c, p)
      <3>1. jrnl' = jrnl
        BY <2>2 DEF Stress
      <3>2. p \notin P.needSync /\ P.eState = DBMOD
        BY <2>2, <1>2 DEF MustSync
      <3> QED
        BY <2>2, <1>1, <1>4, <1>5, <3>1, <3>2, KeptSame DEF Changing
    <2> QED
      BY <2>1, <2>2
  <1>8. \A q \in Page : Covered(jrnl', q) <=> Covered(jrnl, q)
    BY <1>7 DEF Covered
  <1>9. Version(file, jrnl') = Version(file, jrnl)
    BY <1>1, <1>7, KeptAlike
  <1>10. Changing(S, file, jrnl')
    BY <1>2, <1>4, <1>5, <1>7, <1>8, <1>9 DEF Changing
  <1>11. Pending(S, file, jrnl')
    BY <1>2, <1>4, <1>5 DEF Pending, Unflushed, Seen
  <1>12. p <= P.dbOrigSize => Covered(jrnl', p)
    BY <1>2, <1>3, <1>4, <1>8 DEF Pending, Changing
  <1> QED
    BY <1>2, <1>3, <1>4, <1>5, <1>6, <1>7, <1>10, <1>11, <1>12

LEMMA SpillMoves ==
    ASSUME AtomicInv, PagerInv', NEW c \in Conn, Undisturbed(c), NEW p \in Page, Spill(c, p)
    PROVE  Step(c)
  <1> DEFINE P == pager[c]
             Q == pager'[c]
             S == AfterStress(c, p)
             v == S.cache[p]
  <1>1. /\ PagerInv /\ P \in Pagers /\ file \in Files /\ jrnl \in Seq(Segments)
        /\ file' \in Files /\ jrnl' \in Seq(Segments) /\ Q \in Pagers
    BY MoreFacts, NextFacts
  <1>2. Stress(c, p) /\ file' = Written(file, p, v)
    BY DEF Spill
  <1>3. PICK kept \in {NoPage, v} :
          pager' = [pager EXCEPT ![c] = [S EXCEPT !.dirty = S.dirty \ {p}, !.cache = [S.cache EXCEPT ![p] = kept]]]
    BY DEF Spill
  <1>4. /\ Q = [S EXCEPT !.dirty = S.dirty \ {p}, !.cache = [S.cache EXCEPT ![p] = kept]]
        /\ pager' = [pager EXCEPT ![c] = Q]
    <2> HIDE DEF S
    <2> QED
      BY <1>1, <1>3, Called
  <1> HIDE DEF S, Q
  <1>5. /\ S \in Pagers /\ S.eState = DBMOD /\ S.op = "none" /\ S.held /\ S.dirty = P.dirty
        /\ S.cache = P.cache /\ S.dbSize = P.dbSize
        /\ fileLock'[c] = EXCLUSIVE /\ \A d \in Conn \ {c} : fileLock[d] = NO /\ fileLock'[d] = fileLock[d]
        /\ jrnl' # << >> /\ jrnl'[1].orig = S.dbOrigSize
        /\ Restores(file, jrnl') /\ Kept(file, jrnl, file, jrnl') /\ Armed(jrnl')
        /\ S.hdr = Len(jrnl') /\ ~jrnl'[Len(jrnl')].magic
        /\ Changing(S, file, jrnl') /\ Pending(S, file, jrnl')
        /\ p # 1 /\ p \in S.dirty /\ p <= S.dbSize /\ v \in Nat /\ v # NoPage
        /\ \A r \in Unsynced(jrnl') : r.page # p
        /\ p <= S.dbOrigSize => Covered(jrnl', p)
    BY <1>2, StressedIs DEF S
  <1>6. S.dbOrigSize \in Nat /\ p \in Nat
    BY <1>5 DEF Pagers, Page
  <1> HIDE DEF v
  <1>7. /\ Restores(file', jrnl') /\ Kept(file, jrnl', file', jrnl')
        /\ \A q \in Page : file'.page[q] = IF q = p THEN v ELSE file.page[q]
    <2>1. p > jrnl'[1].orig \/ Covered(jrnl', p)
      BY <1>5, <1>6
    <2> QED
      BY <1>1, <1>2, <1>5, <2>1, RestoresWritten
  <1>8. /\ Q.eState = DBMOD /\ Q.op = "none" /\ Q.held /\ Q.dbFileVers = S.dbFileVers
        /\ Q.changeCountDone = S.changeCountDone /\ Q.dbOrigSize = S.dbOrigSize /\ Q.hdr = S.hdr
        /\ Q.dirty = S.dirty \ {p} /\ Q.dbSize = S.dbSize /\ Q.inJournal = S.inJournal /\ Q.needSync = S.needSync
    BY <1>4, <1>5 DEF Pagers
  <1>9. \A q \in Page : Q.cache[q] = IF q = p THEN kept ELSE S.cache[q]
    BY <1>4, <1>5 DEF Pagers
  <1>10. Version(file', jrnl') = Version(file, jrnl')
    BY <1>1, <1>7, KeptAlike
  <1>11. \A q \in Page : q <= S.dbOrigSize /\ q \notin S.inJournal => q # p
    BY <1>5 DEF Pending
  <1>12. Changing(Q, file', jrnl')
    <2>1. /\ \A q \in Page : q \in Q.inJournal <=> Covered(jrnl', q)
          /\ \A r \in Unsynced(jrnl') : r.page \in Q.needSync
      BY <1>5, <1>8 DEF Changing
    <2>2. \A q \in Page : q <= S.dbOrigSize /\ q \notin S.inJournal /\ Q.cache[q] # NoPage => Q.cache[q] = file'.page[q]
      BY <1>5, <1>7, <1>9, <1>11 DEF Changing
    <2>3. S.dbOrigSize > 0 => S.dbFileVers = Version(file', jrnl')
      BY <1>5, <1>10 DEF Changing
    <2> QED
      BY <1>8, <2>1, <2>2, <2>3 DEF Changing
  <1>13. S.cache[p] = v
    BY DEF v
  <1>14. \A q \in Page : Seen(Q, file', q) = Seen(S, file, q)
    BY <1>3, <1>5, <1>7, <1>9, <1>13 DEF Seen
  <1>15. \A q \in 2..S.dbSize : q \in Page
    BY <1>5 DEF Pagers, Page
  <1>16. Pending(Q, file', jrnl')
    <2>1. \A q \in Page \ Q.dirty : Q.cache[q] # NoPage => (q <= Q.dbSize \/ q = 1) /\ Q.cache[q] = file'.page[q]
      <3> SUFFICES ASSUME NEW q \in Page \ Q.dirty, Q.cache[q] # NoPage
                   PROVE  (q <= Q.dbSize \/ q = 1) /\ Q.cache[q] = file'.page[q]
        OBVIOUS
      <3>1. CASE q = p
        BY <3>1, <1>3, <1>5, <1>7, <1>8, <1>9
      <3>2. CASE q # p
        BY <3>2, <1>5, <1>7, <1>8, <1>9 DEF Pending, Unflushed
      <3> QED
        BY <3>1, <3>2
    <2>2. \A q \in Q.dirty : q <= Q.dbOrigSize => q \in Q.inJournal
      BY <1>5, <1>8 DEF Pending
    <2>3. \A q \in 2..Q.dbSize : Seen(Q, file', q) \in Data
      BY <1>5, <1>8, <1>14, <1>15 DEF Pending
    <2>4. Q.changeCountDone => 1 \in Q.dirty
      BY <1>5, <1>8 DEF Pending
    <2> QED
      BY <1>8, <2>1, <2>2, <2>3, <2>4 DEF Pending, Unflushed
  <1>17. InStep(Q, fileLock'[c], jrnl') /\ Ahead(Q, jrnl')
    BY <1>5, <1>8 DEF InStep, Ahead
  <1>18. Consistent(Q, fileLock'[c], file', jrnl')
    BY <1>1, <1>8, <1>12, <1>16, <1>17, ChangingOK DEF Q
  <1>19. SeenBy(Q, file') = SeenBy(P, file)
    <2>1. P.eState \in READER..FINISHED /\ P.op \in {"none", "flush", "finish"}
      BY <1>2 DEF Stress, Writer
    <2>2. \A q \in 2..P.dbSize : Seen(Q, file', q) = Seen(P, file, q)
      BY <1>5, <1>14, <1>15 DEF Seen
    <2> QED
      BY <1>1, <1>5, <1>8, <2>1, <2>2, SameView DEF Q
  <1>20. Kept(file, jrnl, file', jrnl')
    BY <1>5, <1>7, KeptTrans
  <1>21. Moves(c)
    BY <1>1, <1>19, <1>20, KeptAlike DEF Moves, Q
  <1> QED
    BY <1>4, <1>5, <1>7, <1>18, <1>20, <1>21, OneStep DEF Q

LEMMA SpillFailsMoves ==
    ASSUME AtomicInv, PagerInv', NEW c \in Conn, Undisturbed(c), NEW p \in Page, SpillFails(c, p)
    PROVE  Step(c)
  <1> DEFINE Q == pager'[c]
             S == AfterStress(c, p)
  <1>1. PagerInv /\ file \in Files /\ jrnl \in Seq(Segments) /\ Q \in Pagers
    BY MoreFacts, NextFacts
  <1>2. Stress(c, p) /\ file' = file
    BY DEF SpillFails
  <1>3. Q = [S EXCEPT !.eState = ERROR] /\ pager' = [pager EXCEPT ![c] = Q]
    <2>1. pager' = [pager EXCEPT ![c] = [S EXCEPT !.eState = ERROR]]
      BY DEF SpillFails
    <2> HIDE DEF S
    <2> QED
      BY <1>1, <2>1, Called
  <1> HIDE DEF S, Q
  <1>4. /\ S \in Pagers /\ S.op = "none" /\ S.held
        /\ fileLock'[c] = EXCLUSIVE /\ \A d \in Conn \ {c} : fileLock[d] = NO /\ fileLock'[d] = fileLock[d]
        /\ Restores(file, jrnl') /\ Kept(file, jrnl, file, jrnl')
    BY <1>2, StressedIs DEF S
  <1>5. Q.eState = ERROR /\ Q.op = "none" /\ Q.held
    BY <1>3, <1>4 DEF Pagers
  <1>6. Consistent(Q, fileLock'[c], file, jrnl') /\ SeenBy(Q, file) = NoView
    BY <1>1, <1>4, <1>5, ErrorOK, NoViewOf DEF Q
  <1>7. Moves(c)
    BY <1>1, <1>2, <1>4, <1>6, KeptAlike DEF Moves, Q
  <1> QED
    BY <1>2, <1>3, <1>4, <1>6, <1>7, OneStep DEF Q

LEMMA SpillBusyMoves ==
    ASSUME AtomicInv, PagerInv', NEW c \in Conn, Undisturbed(c), NEW p \in Page, SpillBusy(c, p)
    PROVE  Step(c)
  <1> DEFINE P == pager[c]
  <1>1. /\ PagerInv /\ P \in Pagers /\ Consistent(P, fileLock[c], file, jrnl) /\ Calls(P, fileLock[c])
        /\ pager \in [Conn -> Pagers]
    BY MoreFacts DEF PagerInv, PagerTypes
  <1>2. /\ Writer(c) /\ P.eState # OPEN /\ ExclusiveBusy(c) /\ Raise(c, PENDING)
        /\ UNCHANGED <<file, jrnl, pager>>
    BY DEF SpillBusy, Writer
  <1>3. P.eLock >= RESERVED
    BY <1>1, <1>2, WriterFacts
  <1>4. /\ fileLock'[c] = PENDING /\ P.eLock = RESERVED
        /\ \A d \in Conn \ {c} : fileLock'[d] = fileLock[d]
    BY <1>1, <1>2, <1>3, RaisedToPending
  <1>5. P.eState \notin {DBMOD, FINISHED}
    BY <1>1, <1>4 DEF Calls
  <1>6. ~Armed(jrnl)
    BY <1>1, <1>2, <1>5 DEF Consistent, InStep, Writer
  <1>7. Consistent(P, fileLock'[c], file, jrnl)
    <2>1. InStep(P, fileLock'[c], jrnl)
      BY <1>1, <1>6 DEF Consistent, InStep
    <2> QED
      BY <1>1, <2>1 DEF Consistent
  <1>8. pager' = [pager EXCEPT ![c] = pager'[c]] /\ pager'[c] = P
    BY <1>1, <1>2
  <1> QED
    BY <1>2, <1>4, <1>7, <1>8, QuietStep

---------------------------------------------------------------------------
(* Commit: the change counter and the journal *)

LEMMA CountedIs ==
    ASSUME AtomicInv, NEW c \in Conn, Writer(c), pager[c].eState # WRITER_LOCKED,
           NEW C, C = Counted(pager[c]), NEW k, k = CountedJournal(pager[c])
    PROVE  /\ C \in Pagers /\ C.eState = pager[c].eState /\ C.eState \in {CACHEMOD, DBMOD} /\ C.op = "none" /\ C.held
           /\ k \in Seq(Segments) /\ k # << >> /\ Journal(k)
           /\ Restores(file, k) /\ Kept(file, jrnl, file, k) /\ (Armed(k) <=> Armed(jrnl))
           /\ Len(k) = Len(jrnl) /\ C.hdr = Len(k) /\ ~k[Len(k)].magic
           /\ Changing(C, file, k) /\ Pending(C, file, k) /\ 1 \in C.dirty
           /\ SeenBy(C, file) = SeenBy(pager[c], file)
  <1> DEFINE P == pager[c]
             journal == 1 <= P.dbOrigSize /\ 1 \notin P.inJournal
             inJ == IF journal THEN P.inJournal \cup {1} ELSE P.inJournal
             sync == IF journal THEN P.needSync \cup {1} ELSE P.needSync
  <1>1. /\ PagerInv /\ P \in Pagers /\ file \in Files /\ jrnl \in Seq(Segments)
        /\ Restores(file, jrnl)
    BY MoreFacts
  <1>2. /\ P.eState \in {CACHEMOD, DBMOD} /\ P.op = "none" /\ P.held /\ jrnl # << >>
        /\ P.hdr = Len(jrnl) /\ ~jrnl[Len(jrnl)].magic
        /\ Changing(P, file, jrnl) /\ Pending(P, file, jrnl)
    BY ChangerFacts
  <1>3. C \in Pagers /\ k \in Seq(Segments) /\ k # << >> /\ Journal(k)
    BY <1>1, CountedOK, CountedJournalOK
  <1>4. CASE P.changeCountDone
    <2>1. C = P /\ k = jrnl
      BY <1>4 DEF Counted, CountedJournal
    <2>2. 1 \in P.dirty
      BY <1>2, <1>4 DEF Pending
    <2> QED
      BY <1>1, <1>2, <1>3, <2>1, <2>2, KeptSame
  <1>5. CASE ~P.changeCountDone
    <2>1. /\ C = [P EXCEPT !.changeCountDone = TRUE, !.cache = [P.cache EXCEPT ![1] = P.dbFileVers + 1],
                           !.dirty = P.dirty \cup {1}, !.inJournal = inJ, !.needSync = sync]
          /\ k = IF journal THEN WithRecord(jrnl, 1, P.cache[1]) ELSE jrnl
      BY <1>5 DEF Counted, CountedJournal
    <2>2. 1 \in Page /\ P.dbOrigSize \in Nat /\ P.dbSize \in 0..MaxPage
      BY <1>1 DEF Page, Pagers
    <2>3. P.cache[1] # NoPage
      BY <1>1, WriterFacts
    <2>4. /\ Restores(file, k) /\ Kept(file, jrnl, file, k) /\ (Armed(k) <=> Armed(jrnl))
          /\ Len(k) = Len(jrnl) /\ ~k[Len(k)].magic
          /\ \A q \in Page : q \in inJ <=> Covered(k, q)
          /\ \A r \in Unsynced(k) : r.page \in sync
      <3>1. CASE journal
        <4>1. 1 \notin P.inJournal /\ P.cache[1] = file.page[1]
          BY <3>1, <1>2, <2>2, <2>3 DEF Changing
        <4>2. k = WithRecord(jrnl, 1, file.page[1]) /\ inJ = P.inJournal \cup {1} /\ sync = P.needSync \cup {1}
          BY <3>1, <4>1, <2>1
        <4> HIDE DEF inJ, sync
        <4> QED
          BY <1>1, <1>2, <2>2, <4>1, <4>2, Recording
      <3>2. CASE ~journal
        BY <3>2, <1>1, <1>2, <2>1, KeptSame DEF Changing
      <3> QED
        BY <3>1, <3>2
    <2>5. P.inJournal \subseteq inJ /\ (1 <= P.dbOrigSize => 1 \in inJ)
      OBVIOUS
    <2> HIDE DEF inJ, sync, journal
    <2>6. /\ C.eState = P.eState /\ C.op = P.op /\ C.held = P.held /\ C.dbFileVers = P.dbFileVers
          /\ C.changeCountDone = TRUE /\ C.dbSize = P.dbSize /\ C.dbOrigSize = P.dbOrigSize /\ C.hdr = P.hdr
          /\ C.dirty = P.dirty \cup {1} /\ C.inJournal = inJ /\ C.needSync = sync
      BY <1>1, <2>1 DEF Pagers
    <2>7. \A q \in Page : q # 1 => C.cache[q] = P.cache[q]
      BY <1>1, <2>1 DEF Pagers
    <2>8. Version(file, k) = Version(file, jrnl)
      BY <1>1, <2>4, KeptAlike
    <2>9. Changing(C, file, k)
      <3>1. \A q \in Page : q <= P.dbOrigSize /\ q \notin inJ /\ C.cache[q] # NoPage => C.cache[q] = file.page[q]
        BY <1>2, <2>5, <2>7 DEF Changing
      <3>2. P.dbOrigSize > 0 => P.dbFileVers = Version(file, k)
        BY <1>2, <2>8 DEF Changing
      <3> QED
        BY <2>4, <2>6, <3>1, <3>2 DEF Changing
    <2>10. \A q \in 2..P.dbSize : Seen(C, file, q) = Seen(P, file, q)
      BY <2>2, <2>7 DEF Seen, Page
    <2>11. Pending(C, file, k)
      <3>1. \A q \in Page \ C.dirty : C.cache[q] # NoPage => (q <= P.dbSize \/ q = 1) /\ C.cache[q] = file.page[q]
        BY <1>2, <2>6, <2>7 DEF Pending, Unflushed
      <3>2. \A q \in C.dirty : q <= P.dbOrigSize => q \in inJ
        BY <1>2, <2>5, <2>6 DEF Pending
      <3>3. \A q \in 2..P.dbSize : Seen(C, file, q) \in Data
        BY <1>2, <2>10 DEF Pending
      <3> QED
        BY <1>2, <2>6, <3>1, <3>2, <3>3 DEF Pending, Unflushed
    <2>12. SeenBy(C, file) = SeenBy(P, file)
      BY <1>1, <1>2, <1>3, <2>6, <2>10, SameView
    <2> QED
      BY <1>2, <1>3, <2>4, <2>6, <2>9, <2>11, <2>12
  <1> QED
    BY <1>4, <1>5

LEMMA CommitBusyMoves ==
    ASSUME AtomicInv, PagerInv', NEW c \in Conn, Undisturbed(c), CommitBusy(c)
    PROVE  Step(c)
  <1> DEFINE P == pager[c]
             Q == pager'[c]
  <1>1. /\ PagerInv /\ P \in Pagers /\ file \in Files /\ jrnl \in Seq(Segments) /\ Calls(P, fileLock[c])
    BY MoreFacts
  <1>2. /\ Writer(c) /\ P.eState # WRITER_LOCKED /\ ExclusiveBusy(c) /\ Raise(c, PENDING)
        /\ jrnl' = CountedJournal(P) /\ file' = file
    BY DEF CommitBusy
  <1>3. Q = Counted(P) /\ pager' = [pager EXCEPT ![c] = Q]
    BY <1>1, Called DEF CommitBusy
  <1>4. P.eLock >= RESERVED
    BY <1>1, <1>2, WriterFacts
  <1>5. /\ fileLock'[c] = PENDING /\ P.eLock = RESERVED
        /\ \A d \in Conn \ {c} : fileLock[d] <= SHARED /\ fileLock'[d] = fileLock[d]
    BY <1>1, <1>2, <1>4, RaisedToPending
  <1> HIDE DEF Q
  <1>6. /\ Q \in Pagers /\ Q.eState = P.eState /\ Q.eState \in {CACHEMOD, DBMOD} /\ Q.op = "none" /\ Q.held
        /\ Restores(file, jrnl') /\ Kept(file, jrnl, file, jrnl') /\ (Armed(jrnl') <=> Armed(jrnl))
        /\ Q.hdr = Len(jrnl') /\ ~jrnl'[Len(jrnl')].magic
        /\ Changing(Q, file, jrnl') /\ Pending(Q, file, jrnl')
        /\ SeenBy(Q, file) = SeenBy(P, file)
    BY <1>2, <1>3, CountedIs
  <1>7. P.eState = CACHEMOD
    BY <1>1, <1>5, <1>6 DEF Calls
  <1>8. ~Armed(jrnl)
    BY <1>2, <1>7, ChangerFacts
  <1>9. InStep(Q, fileLock'[c], jrnl') /\ Ahead(Q, jrnl')
    BY <1>6, <1>7, <1>8 DEF InStep, Ahead
  <1>10. Consistent(Q, fileLock'[c], file, jrnl')
    BY <1>6, <1>9, ChangingOK
  <1>11. Moves(c)
    BY <1>1, <1>2, <1>6, KeptAlike DEF Moves, Q
  <1> QED
    BY <1>2, <1>3, <1>5, <1>6, <1>10, <1>11, OneStep DEF Q

LEMMA SyncFailsMoves ==
    ASSUME AtomicInv, PagerInv', NEW c \in Conn, Undisturbed(c), SyncFails(c)
    PROVE  Step(c)
  <1> DEFINE P == pager[c]
             Q == pager'[c]
             C == Counted(P)
  <1>1. /\ PagerInv /\ P \in Pagers /\ file \in Files /\ jrnl \in Seq(Segments) /\ Q \in Pagers
    BY MoreFacts, NextFacts
  <1>2. /\ Writer(c) /\ P.eState # WRITER_LOCKED /\ ExclusiveFree(c) /\ Raise(c, EXCLUSIVE)
        /\ jrnl' = CountedJournal(P) /\ file' = file
    BY DEF SyncFails
  <1>3. Q = [C EXCEPT !.eLock = EXCLUSIVE, !.op = "failed"] /\ pager' = [pager EXCEPT ![c] = Q]
    <2>1. pager' = [pager EXCEPT ![c] = [C EXCEPT !.eLock = EXCLUSIVE, !.op = "failed"]]
      BY DEF SyncFails
    <2> HIDE DEF C
    <2> QED
      BY <1>1, <2>1, Called
  <1>4. P.eLock >= SHARED
    BY <1>1, <1>2, WriterFacts DEF Pagers
  <1>5. fileLock'[c] = EXCLUSIVE /\ \A d \in Conn \ {c} : fileLock[d] = NO /\ fileLock'[d] = fileLock[d]
    BY <1>1, <1>2, <1>4, RaisedToExclusive
  <1> HIDE DEF C, Q
  <1>6. /\ C \in Pagers /\ C.eState = P.eState /\ C.eState \in {CACHEMOD, DBMOD} /\ C.op = "none" /\ C.held
        /\ Restores(file, jrnl') /\ Kept(file, jrnl, file, jrnl') /\ (Armed(jrnl') <=> Armed(jrnl))
        /\ C.hdr = Len(jrnl') /\ ~jrnl'[Len(jrnl')].magic
        /\ Changing(C, file, jrnl')
    BY <1>2, CountedIs DEF C
  <1>7. /\ Q.eState = C.eState /\ Q.op = "failed" /\ Q.held /\ Q.dbFileVers = C.dbFileVers
        /\ Q.inJournal = C.inJournal /\ Q.dbOrigSize = C.dbOrigSize
        /\ Q.hdr = C.hdr /\ Q.needSync = C.needSync /\ Q.cache = C.cache
    BY <1>3, <1>6 DEF Pagers
  <1>8. Armed(jrnl) <=> P.eState = DBMOD
    BY <1>2, ChangerFacts
  <1>9. InStep(Q, fileLock'[c], jrnl') /\ Ahead(Q, jrnl')
    BY <1>5, <1>6, <1>7, <1>8 DEF InStep, Ahead
  <1>10. Changing(Q, file, jrnl')
    BY <1>6, <1>7 DEF Changing
  <1>11. Consistent(Q, fileLock'[c], file, jrnl')
    BY <1>1, <1>6, <1>7, <1>9, <1>10, ChangingOK DEF Q
  <1>12. SeenBy(Q, file) = NoView
    BY <1>1, <1>7, NoViewOf DEF Q
  <1>13. Moves(c)
    BY <1>1, <1>2, <1>6, <1>12, KeptAlike DEF Moves, Q
  <1> QED
    BY <1>2, <1>3, <1>5, <1>6, <1>11, <1>13, OneStep DEF Q

LEMMA CommitMoves ==
    ASSUME AtomicInv, PagerInv', NEW c \in Conn, Undisturbed(c), Commit(c)
    PROVE  Step(c)
  <1> DEFINE P == pager[c]
             Q == pager'[c]
             C == Counted(P)
             k == CountedJournal(P)
  <1>1. /\ PagerInv /\ P \in Pagers /\ file \in Files /\ jrnl \in Seq(Segments) /\ Q \in Pagers
    BY MoreFacts, NextFacts
  <1>2. /\ Writer(c) /\ P.eState # WRITER_LOCKED /\ ExclusiveFree(c) /\ Raise(c, EXCLUSIVE)
        /\ jrnl' = Synced(k) /\ file' = file
    BY DEF Commit
  <1>3. /\ Q = [C EXCEPT !.eState = DBMOD, !.eLock = EXCLUSIVE, !.needSync = {}, !.hdr = Len(jrnl) + 1,
                         !.op = "flush", !.list = C.dirty]
        /\ pager' = [pager EXCEPT ![c] = Q]
    <2>1. pager' = [pager EXCEPT ![c] = [C EXCEPT !.eState = DBMOD, !.eLock = EXCLUSIVE, !.needSync = {},
                                                  !.hdr = Len(jrnl) + 1, !.op = "flush", !.list = C.dirty]]
      BY DEF Commit
    <2> HIDE DEF C
    <2> QED
      BY <1>1, <2>1, Called
  <1>4. P.eLock >= SHARED
    BY <1>1, <1>2, WriterFacts DEF Pagers
  <1>5. fileLock'[c] = EXCLUSIVE /\ \A d \in Conn \ {c} : fileLock[d] = NO /\ fileLock'[d] = fileLock[d]
    BY <1>1, <1>2, <1>4, RaisedToExclusive
  <1> HIDE DEF C, Q, k
  <1>6. /\ C \in Pagers /\ C.eState \in {CACHEMOD, DBMOD} /\ C.op = "none" /\ C.held
        /\ k \in Seq(Segments) /\ k # << >> /\ Journal(k)
        /\ Restores(file, k) /\ Kept(file, jrnl, file, k) /\ Len(k) = Len(jrnl)
        /\ Changing(C, file, k) /\ Pending(C, file, k) /\ 1 \in C.dirty
        /\ SeenBy(C, file) = SeenBy(P, file)
    BY <1>2, CountedIs DEF C, k
  <1>7. /\ Restores(file, jrnl') /\ Kept(file, k, file, jrnl') /\ Armed(jrnl') /\ Unsynced(jrnl') = {}
        /\ Logged(jrnl') = Logged(k) /\ Len(jrnl') = Len(k) /\ jrnl'[Len(k)].magic
    BY <1>1, <1>2, <1>6, RestoresSynced
  <1>8. /\ Q.eState = DBMOD /\ Q.op = "flush" /\ Q.held /\ Q.dbFileVers = C.dbFileVers
        /\ Q.inJournal = C.inJournal /\ Q.dbOrigSize = C.dbOrigSize /\ Q.dbSize = C.dbSize
        /\ Q.hdr = Len(jrnl) + 1 /\ Q.needSync = {} /\ Q.cache = C.cache /\ Q.dirty = C.dirty /\ Q.list = C.dirty
    BY <1>3, <1>6 DEF Pagers
  <1>9. InStep(Q, fileLock'[c], jrnl') /\ Ahead(Q, jrnl')
    BY <1>5, <1>6, <1>7, <1>8 DEF InStep, Ahead
  <1>10. Version(file, jrnl') = Version(file, k) /\ \A q : Covered(jrnl', q) <=> Covered(k, q)
    BY <1>1, <1>6, <1>7, KeptAlike DEF Covered
  <1>11. Changing(Q, file, jrnl')
    BY <1>6, <1>7, <1>8, <1>10 DEF Changing
  <1>12. Pending(Q, file, jrnl')
    <2>1. \A q \in 2..Q.dbSize : Seen(Q, file, q) \in Data
      BY <1>6, <1>8 DEF Pending, Seen
    <2>2. \A q \in Page \ C.dirty : C.cache[q] # NoPage => (q <= C.dbSize \/ q = 1) /\ C.cache[q] = file.page[q]
      BY <1>6 DEF Pending, Unflushed
    <2>3. \A q \in C.dirty : q <= C.dbOrigSize => q \in C.inJournal
      BY <1>6 DEF Pending
    <2>4. C.dbOrigSize > 0 => C.dbFileVers = Version(file, jrnl')
      BY <1>6, <1>10 DEF Changing
    <2> QED
      BY <1>6, <1>7, <1>8, <2>1, <2>2, <2>3, <2>4 DEF Pending, Unflushed
  <1>13. Consistent(Q, fileLock'[c], file, jrnl')
    BY <1>1, <1>8, <1>9, <1>11, <1>12, ChangingOK DEF Q
  <1>14. SeenBy(Q, file) = SeenBy(P, file)
    <2>1. SeenBy(Q, file) = SeenBy(C, file)
      BY <1>1, <1>6, <1>8, SameView DEF Seen, Q
    <2> QED
      BY <1>6, <2>1
  <1>15. Kept(file, jrnl, file, jrnl')
    BY <1>6, <1>7, KeptTrans
  <1>16. Moves(c)
    BY <1>1, <1>2, <1>14, <1>15, KeptAlike DEF Moves, Q
  <1> QED
    BY <1>2, <1>3, <1>5, <1>7, <1>13, <1>15, <1>16, OneStep DEF Q

---------------------------------------------------------------------------
(* Commit: the pages go to the file *)

LEMMA FlushFacts ==
    ASSUME AtomicInv, NEW c \in Conn, pager[c].op = "flush"
    PROVE  /\ pager[c].eState = DBMOD /\ pager[c].held /\ pager[c].list \subseteq pager[c].dirty
           /\ fileLock[c] = EXCLUSIVE /\ \A d \in Conn \ {c} : fileLock[d] = NO
           /\ jrnl # << >> /\ jrnl[1].orig = pager[c].dbOrigSize /\ Armed(jrnl)
           /\ InStep(pager[c], fileLock[c], jrnl) /\ Ahead(pager[c], jrnl)
           /\ Changing(pager[c], file, jrnl) /\ Pending(pager[c], file, jrnl)
           /\ pager[c].dbSize # 0
           /\ \A p \in pager[c].dirty : p <= pager[c].dbSize /\ pager[c].cache[p] # NoPage
  <1> DEFINE P == pager[c]
  <1>1. /\ PagerInv /\ P \in Pagers /\ Calls(P, fileLock[c]) /\ Sizes(P, file, jrnl) /\ Cached(P)
        /\ LockTypes /\ LockTable /\ Consistent(P, fileLock[c], file, jrnl)
    BY MoreFacts, Facts
  <1>2. P.eState = DBMOD /\ P.list \subseteq P.dirty /\ fileLock[c] = EXCLUSIVE
    BY <1>1 DEF Calls
  <1>3. \A d \in Conn \ {c} : fileLock[d] = NO
    BY <1>1, <1>2, Above
  <1>4. jrnl # << >> /\ jrnl[1].orig = P.dbOrigSize
    BY <1>1, <1>2 DEF Sizes
  <1>5. /\ P.held /\ InStep(P, fileLock[c], jrnl) /\ Ahead(P, jrnl) /\ Changing(P, file, jrnl)
        /\ Pending(P, file, jrnl)
    BY <1>1, <1>2 DEF Consistent
  <1>6. Armed(jrnl)
    BY <1>2, <1>5 DEF InStep
  <1>7. P.dbSize # 0 /\ \A p \in P.dirty : p <= P.dbSize /\ P.cache[p] # NoPage
    BY <1>1, <1>2 DEF Cached
  <1> QED
    BY <1>2, <1>3, <1>4, <1>5, <1>6, <1>7

LEMMA FlushPageMoves ==
    ASSUME AtomicInv, PagerInv', NEW c \in Conn, Undisturbed(c), NEW p \in Page, FlushPage(c, p)
    PROVE  Step(c)
  <1> DEFINE P == pager[c]
             Q == pager'[c]
             v == IF p = 1 THEN P.dbFileVers + 1 ELSE P.cache[p]
  <1>1. /\ PagerInv /\ P \in Pagers /\ file \in Files /\ jrnl \in Seq(Segments) /\ Restores(file, jrnl)
        /\ file' \in Files /\ Q \in Pagers
    BY MoreFacts, NextFacts
  <1>2. P.op = "flush" /\ p \in P.list /\ file' = Written(file, p, v) /\ jrnl' = jrnl /\ fileLock' = fileLock
    BY DEF FlushPage
  <1>3. /\ Q = [P EXCEPT !.list = P.list \ {p}, !.cache = [P.cache EXCEPT ![p] = v],
                         !.dbFileVers = IF p = 1 THEN v ELSE P.dbFileVers]
        /\ pager' = [pager EXCEPT ![c] = Q]
    <2>1. pager' = [pager EXCEPT ![c] = [P EXCEPT !.list = P.list \ {p}, !.cache = [P.cache EXCEPT ![p] = v],
                                                  !.dbFileVers = IF p = 1 THEN v ELSE P.dbFileVers]]
      BY DEF FlushPage
    <2> HIDE DEF v
    <2> QED
      BY <1>1, <2>1, Called
  <1>4. /\ P.eState = DBMOD /\ P.held /\ P.list \subseteq P.dirty
        /\ \A d \in Conn \ {c} : fileLock[d] = NO
        /\ jrnl # << >> /\ jrnl[1].orig = P.dbOrigSize /\ Armed(jrnl)
        /\ InStep(P, fileLock[c], jrnl) /\ Ahead(P, jrnl)
        /\ Changing(P, file, jrnl) /\ Pending(P, file, jrnl)
        /\ \A q \in P.dirty : q <= P.dbSize /\ P.cache[q] # NoPage
    BY <1>2, FlushFacts
  <1>5. /\ p \in P.dirty /\ p <= P.dbSize /\ P.cache[p] # NoPage /\ P.cache[p] \in Nat
        /\ p \in Nat /\ P.dbOrigSize \in Nat /\ P.dbFileVers \in Nat /\ P.dbSize \in 0..MaxPage
    BY <1>1, <1>2, <1>4 DEF Pagers, Page
  <1>6. v \in Nat /\ v # NoPage /\ (p # 1 => v = P.cache[p]) /\ (p = 1 => v = P.dbFileVers + 1)
    BY <1>5
  <1> HIDE DEF v, Q
  <1>7. Unsynced(jrnl) = {}
    BY <1>2, <1>4 DEF Pending
  <1>8. /\ Restores(file', jrnl) /\ Kept(file, jrnl, file', jrnl)
        /\ \A q \in Page : file'.page[q] = IF q = p THEN v ELSE file.page[q]
    <2>1. p > jrnl[1].orig \/ Covered(jrnl, p)
      BY <1>4, <1>5 DEF Pending, Changing
    <2> QED
      BY <1>1, <1>2, <1>4, <1>6, <1>7, <2>1, RestoresWritten
  <1>9. /\ Q.eState = DBMOD /\ Q.op = "flush" /\ Q.held
        /\ Q.inJournal = P.inJournal /\ Q.dbOrigSize = P.dbOrigSize /\ Q.dbSize = P.dbSize
        /\ Q.hdr = P.hdr /\ Q.needSync = P.needSync /\ Q.dirty = P.dirty /\ Q.list = P.list \ {p}
        /\ Q.dbFileVers = IF p = 1 THEN v ELSE P.dbFileVers
    BY <1>1, <1>2, <1>3, <1>4 DEF Pagers
  <1>10. \A q \in Page : Q.cache[q] = IF q = p THEN v ELSE P.cache[q]
    BY <1>1, <1>3 DEF Pagers
  <1>11. Version(file', jrnl) = Version(file, jrnl)
    BY <1>1, <1>8, KeptAlike
  <1>12. Changing(Q, file', jrnl)
    <2>1. \A q \in Page : q <= P.dbOrigSize /\ q \notin P.inJournal => q # p
      BY <1>4, <1>5 DEF Pending
    <2>2. \A q \in Page : q <= P.dbOrigSize /\ q \notin P.inJournal /\ Q.cache[q] # NoPage => Q.cache[q] = file'.page[q]
      BY <1>4, <1>8, <1>10, <2>1 DEF Changing
    <2>3. P.dbOrigSize > 0 /\ 1 \notin P.inJournal => Q.dbFileVers = Version(file', jrnl)
      <3>1. P.dbOrigSize > 0 /\ 1 \notin P.inJournal => p # 1
        BY <1>5, <2>1
      <3> QED
        BY <1>4, <1>9, <1>11, <3>1 DEF Changing
    <2> QED
      BY <1>4, <1>7, <1>9, <2>2, <2>3 DEF Changing
  <1>13. \A q \in 2..P.dbSize : Seen(Q, file', q) = Seen(P, file, q)
    <2> SUFFICES ASSUME NEW q \in 2..P.dbSize PROVE Seen(Q, file', q) = Seen(P, file, q)
      OBVIOUS
    <2>1. q \in Page /\ q # 1
      BY <1>5 DEF Page
    <2> QED
      BY <1>5, <1>6, <1>8, <1>10, <2>1 DEF Seen
  <1>14. Pending(Q, file', jrnl)
    <2>1. \A q \in Page \ Q.list : Q.cache[q] # NoPage => (q <= P.dbSize \/ q = 1) /\ Q.cache[q] = file'.page[q]
      <3> SUFFICES ASSUME NEW q \in Page \ Q.list, Q.cache[q] # NoPage
                   PROVE  (q <= P.dbSize \/ q = 1) /\ Q.cache[q] = file'.page[q]
        OBVIOUS
      <3>1. CASE q = p
        BY <3>1, <1>5, <1>8, <1>10
      <3>2. CASE q # p
        BY <3>2, <1>2, <1>4, <1>8, <1>9, <1>10 DEF Pending, Unflushed
      <3> QED
        BY <3>1, <3>2
    <2>2. \A q \in P.dirty : q <= P.dbOrigSize => q \in P.inJournal
      BY <1>4 DEF Pending
    <2>3. \A q \in 2..P.dbSize : Seen(Q, file', q) \in Data
      BY <1>4, <1>13 DEF Pending
    <2>4. 1 \in Q.list /\ P.dbOrigSize > 0 => Q.dbFileVers = Version(file', jrnl)
      BY <1>2, <1>4, <1>9, <1>11 DEF Pending
    <2>5. ASSUME 1 \notin Q.list
          PROVE  file'.page[1] = Q.dbFileVers /\ Q.dbFileVers > Version(file', jrnl)
      <3>0. 1 \in Page
        BY DEF Page
      <3>1. CASE p = 1
        <4>1. P.dbOrigSize > 0 => P.dbFileVers = Version(file, jrnl)
          BY <1>2, <1>4, <3>1 DEF Pending
        <4>2. ~(P.dbOrigSize > 0) => Version(file, jrnl) = 0
          BY <1>4, <1>5 DEF Version, OldSize
        <4> QED
          BY <3>0, <3>1, <1>5, <1>6, <1>8, <1>9, <1>11, <4>1, <4>2
      <3>2. CASE p # 1
        BY <2>5, <3>0, <3>2, <1>2, <1>4, <1>8, <1>9, <1>11 DEF Pending
      <3> QED
        BY <3>1, <3>2
    <2> QED
      BY <1>7, <1>9, <2>1, <2>2, <2>3, <2>4, <2>5 DEF Pending, Unflushed
  <1>15. InStep(Q, fileLock[c], jrnl) /\ Ahead(Q, jrnl)
    BY <1>2, <1>4, <1>9 DEF InStep, Ahead
  <1>16. Consistent(Q, fileLock[c], file', jrnl)
    BY <1>1, <1>9, <1>12, <1>14, <1>15, ChangingOK DEF Q
  <1>17. SeenBy(Q, file') = SeenBy(P, file)
    BY <1>1, <1>2, <1>4, <1>9, <1>13, SameView DEF Q
  <1>18. Moves(c)
    BY <1>1, <1>2, <1>8, <1>17, KeptAlike DEF Moves, Q
  <1> QED
    BY <1>2, <1>3, <1>4, <1>8, <1>16, <1>18, OneStep DEF Q

LEMMA FlushFailsMoves ==
    ASSUME AtomicInv, PagerInv', NEW c \in Conn, Undisturbed(c), FlushFails(c)
    PROVE  Step(c)
  <1> DEFINE P == pager[c]
             Q == pager'[c]
  <1>1. PagerInv /\ P \in Pagers /\ Q \in Pagers
    BY MoreFacts, NextFacts
  <1>2. P.op = "flush" /\ UNCHANGED <<file, jrnl>> /\ fileLock' = fileLock
    BY DEF FlushFails
  <1>3. Q = [P EXCEPT !.op = "failed", !.list = {}] /\ pager' = [pager EXCEPT ![c] = Q]
    BY <1>1, Called DEF FlushFails
  <1>4. /\ P.eState = DBMOD /\ P.held /\ InStep(P, fileLock[c], jrnl) /\ Ahead(P, jrnl) /\ Changing(P, file, jrnl)
    BY <1>2, FlushFacts
  <1> HIDE DEF Q
  <1>5. /\ Q.eState = DBMOD /\ Q.op = "failed" /\ Q.held /\ Q.dbFileVers = P.dbFileVers
        /\ Q.inJournal = P.inJournal /\ Q.dbOrigSize = P.dbOrigSize
        /\ Q.hdr = P.hdr /\ Q.needSync = P.needSync /\ Q.cache = P.cache
    BY <1>1, <1>3, <1>4 DEF Pagers
  <1>6. Changing(Q, file, jrnl)
    BY <1>2, <1>4, <1>5 DEF Changing
  <1>7. InStep(Q, fileLock[c], jrnl) /\ Ahead(Q, jrnl)
    BY <1>2, <1>4, <1>5 DEF InStep, Ahead
  <1>8. Consistent(Q, fileLock[c], file, jrnl)
    BY <1>1, <1>5, <1>6, <1>7, ChangingOK DEF Q
  <1>9. SeenBy(Q, file) = NoView
    BY <1>1, <1>5, NoViewOf DEF Q
  <1> QED
    BY <1>2, <1>3, <1>8, <1>9, QuietStep DEF Q

LEMMA EndFlushMoves ==
    ASSUME AtomicInv, PagerInv', NEW c \in Conn, Undisturbed(c), EndFlush(c)
    PROVE  Step(c)
  <1> DEFINE P == pager[c]
             Q == pager'[c]
  <1>1. PagerInv /\ P \in Pagers /\ Q \in Pagers
    BY MoreFacts, NextFacts
  <1>2. P.op = "flush" /\ P.list = {} /\ UNCHANGED <<file, jrnl>> /\ fileLock' = fileLock
    BY DEF EndFlush
  <1>3. Q = [P EXCEPT !.op = "finish", !.eState = FINISHED, !.dirty = {}] /\ pager' = [pager EXCEPT ![c] = Q]
    BY <1>1, Called DEF EndFlush
  <1>4. /\ P.eState = DBMOD /\ P.held /\ Armed(jrnl) /\ fileLock[c] = EXCLUSIVE /\ Pending(P, file, jrnl)
        /\ P.dbSize # 0
    BY <1>2, FlushFacts
  <1> HIDE DEF Q
  <1>5. /\ Q.eState = FINISHED /\ Q.op = "finish" /\ Q.held /\ Q.dbFileVers = P.dbFileVers
        /\ Q.cache = P.cache /\ Q.dbSize = P.dbSize
    BY <1>1, <1>3, <1>4 DEF Pagers
  <1>6. Done(Q, file, jrnl)
    <2>1. \A q \in Page : P.cache[q] # NoPage => (q <= P.dbSize \/ q = 1) /\ P.cache[q] = file.page[q]
      BY <1>2, <1>4 DEF Pending, Unflushed
    <2>2. ASSUME NEW q \in 2..P.dbSize PROVE file.page[q] \in Data
      <3>1. q \in Page
        BY <1>1 DEF Pagers, Page
      <3>2. Seen(P, file, q) = file.page[q]
        BY <2>1, <3>1 DEF Seen
      <3> QED
        BY <1>4, <3>2 DEF Pending
    <2>3. file.page[1] = P.dbFileVers /\ P.dbFileVers > Version(file, jrnl)
      BY <1>2, <1>4 DEF Pending
    <2> QED
      BY <1>4, <1>5, <2>1, <2>2, <2>3 DEF Done, Agrees
  <1>7. Consistent(Q, fileLock[c], file, jrnl)
    BY <1>4, <1>5, <1>6 DEF Consistent, InStep
  <1>8. SeenBy(Q, file) = SeenBy(P, file)
    BY <1>1, <1>2, <1>4, <1>5, SameView DEF Seen, Q
  <1> QED
    BY <1>2, <1>3, <1>7, <1>8, QuietStep DEF Q

---------------------------------------------------------------------------
(* Commit: the journal is deleted *)

LEMMA FinishFacts ==
    ASSUME AtomicInv, NEW c \in Conn, pager[c].op = "finish"
    PROVE  /\ pager[c].eState = FINISHED /\ pager[c].held /\ pager[c].eLock >= SHARED
           /\ \A d \in Conn \ {c} : fileLock[d] = NO
           /\ Done(pager[c], file, jrnl) /\ pager[c].dbSize = file.size
  <1> DEFINE P == pager[c]
  <1>1. /\ PagerInv /\ P \in Pagers /\ Calls(P, fileLock[c]) /\ Sizes(P, file, jrnl)
        /\ LockTypes /\ LockTable /\ Consistent(P, fileLock[c], file, jrnl)
    BY MoreFacts, Facts
  <1>2. P.eState = FINISHED /\ fileLock[c] = EXCLUSIVE /\ P.eLock >= SHARED
    BY <1>1 DEF Calls
  <1>3. \A d \in Conn \ {c} : fileLock[d] = NO
    BY <1>1, <1>2, Above
  <1> QED
    BY <1>1, <1>2, <1>3 DEF Consistent, Sizes

LEMMA CommitPhaseTwoMoves ==
    ASSUME AtomicInv, PagerInv', NEW c \in Conn, Undisturbed(c), CommitPhaseTwo(c)
    PROVE  Step(c)
  <1> DEFINE P == pager[c]
             Q == pager'[c]
  <1>1. /\ PagerInv /\ P \in Pagers /\ file \in Files /\ jrnl \in Seq(Segments) /\ Restores(file, jrnl)
    BY MoreFacts
  <1>2. P.op = "finish" /\ jrnl' = << >> /\ file' = file /\ Downgrade(c)
    BY DEF CommitPhaseTwo
  <1>3. Q = Ended(P) /\ pager' = [pager EXCEPT ![c] = Q]
    BY <1>1, Called DEF CommitPhaseTwo
  <1>4. /\ P.eState = FINISHED /\ P.held /\ P.eLock >= SHARED /\ \A d \in Conn \ {c} : fileLock[d] = NO
        /\ Done(P, file, jrnl) /\ P.dbSize = file.size
    BY <1>2, FinishFacts
  <1>5. \A d \in Conn \ {c} : fileLock'[d] = fileLock[d]
    BY <1>1, <1>2, <1>4, Downgraded
  <1>6. /\ Agrees(P.cache, P.dbSize, file) /\ file.size # 0 /\ file.page[1] = P.dbFileVers
        /\ P.dbFileVers > Version(file, jrnl) /\ \A q \in 2..file.size : file.page[q] \in Data
        /\ \A q \in Page : q > file.size => file.page[q] = 0
    BY <1>1, <1>4 DEF Done, Restores
  <1>7. Restores(file, << >>)
    BY <1>1, <1>6, RestoresFinished
  <1>8. AtRest(file, << >>) /\ OldSize(file, << >>) = file.size /\ ~Armed(<< >>)
    BY RestNoJournal, NoJournal
  <1>9. Version(file, << >>) = file.page[1]
    BY <1>6, <1>8 DEF Version, AtRest, Page
  <1>10. Knows(Ended(P), file)
    <2>1. \A p \in Page : p <= P.dbSize /\ P.cache[p] # NoPage => P.cache[p] = file.page[p]
      BY <1>6 DEF Agrees
    <2> QED
      BY <1>1, <1>4, <1>6, <2>1, EndedKnows
  <1>11. Q \in Pagers /\ Q.eState = READER /\ Q.op = "none" /\ Q.held /\ Clean(Q) /\ Q.dbSize = file.size
    <2>1. /\ Ended(P) \in Pagers /\ Ended(P).eState = READER /\ Ended(P).op = "none"
          /\ Ended(P).dbSize = P.dbSize
      BY <1>1, EndedOK
    <2>2. Ended(P).held = P.held /\ Clean(Ended(P))
      BY <1>1, EndedIs
    <2> QED
      BY <1>3, <1>4, <2>1, <2>2
  <1>12. Consistent(Q, fileLock'[c], file, << >>)
    BY <1>3, <1>8, <1>10, <1>11, ReaderOK
  <1>13. SeenBy(P, file) = Current(file, << >>)
    BY <1>1, <1>2, <1>4, <1>6, <1>8, FileView
  <1>14. SeenBy(Q, file) = Current(file, << >>)
    <2>1. Agrees(Q.cache, Q.dbSize, file)
      BY <1>3, <1>10 DEF Knows
    <2> HIDE DEF Q
    <2> QED
      BY <1>1, <1>8, <1>11, <2>1, FileView
  <1>15. Current(file, << >>) \in Content
    <2>1. << >> \in Seq(Segments)
      BY EmptyJournal
    <2> QED
      BY <1>1, <1>7, <2>1, CurrentIsContent
  <1>16. Moves(c)
    BY <1>2, <1>4, <1>13, <1>14, <1>15 DEF Moves
  <1>17. Version(file, jrnl) < Version(file, << >>)
    <2>1. Version(file, jrnl) \in Nat /\ P.dbFileVers \in Nat
      BY <1>1, VersionType DEF Pagers
    <2> QED
      BY <1>6, <1>9, <2>1
  <1> QED
    BY <1>2, <1>3, <1>4, <1>5, <1>7, <1>8, <1>12, <1>16, <1>17, OneStep

LEMMA CommitPhaseTwoFailsMoves ==
    ASSUME AtomicInv, PagerInv', NEW c \in Conn, Undisturbed(c), CommitPhaseTwoFails(c)
    PROVE  Step(c)
  <1> DEFINE P == pager[c]
             Q == pager'[c]
  <1>1. PagerInv /\ P \in Pagers /\ Q \in Pagers
    BY MoreFacts, NextFacts
  <1>2. P.op = "finish" /\ UNCHANGED <<file, jrnl>> /\ Downgrade(c)
    BY DEF CommitPhaseTwoFails
  <1>3. Q = [Ended(P) EXCEPT !.eState = ERROR] /\ pager' = [pager EXCEPT ![c] = Q]
    <2>1. pager' = [pager EXCEPT ![c] = [Ended(P) EXCEPT !.eState = ERROR]]
      BY DEF CommitPhaseTwoFails
    <2> QED
      BY <1>1, <2>1, Called
  <1>4. P.held /\ P.eLock >= SHARED
    BY <1>2, FinishFacts
  <1>5. fileLock'[c] = SHARED /\ \A d \in Conn \ {c} : fileLock'[d] = fileLock[d]
    BY <1>1, <1>2, <1>4, Downgraded
  <1> HIDE DEF Q
  <1>6. Ended(P) \in Pagers /\ Ended(P).op = "none"
    BY <1>1, EndedOK
  <1>7. Ended(P).held
    BY <1>1, <1>4, EndedIs
  <1>8. Q.eState = ERROR /\ Q.op = "none" /\ Q.held
    BY <1>3, <1>6, <1>7 DEF Pagers
  <1>9. Consistent(Q, fileLock'[c], file, jrnl) /\ SeenBy(Q, file) = NoView
    BY <1>1, <1>5, <1>8, ErrorOK, NoViewOf DEF Q
  <1> QED
    BY <1>2, <1>3, <1>5, <1>9, QuietStep DEF Q

---------------------------------------------------------------------------
(* Rollback *)

LEMMA RollbackMoves ==
    ASSUME AtomicInv, PagerInv', NEW c \in Conn, Undisturbed(c), Rollback(c)
    PROVE  Step(c)
  <1> DEFINE P == pager[c]
             Q == pager'[c]
             n == jrnl[1].orig
             todo == Playable(P.hdr)
  <1>1. /\ PagerInv /\ P \in Pagers /\ file \in Files /\ jrnl \in Seq(Segments) /\ Journal(jrnl)
        /\ Restores(file, jrnl) /\ Calls(P, fileLock[c]) /\ Sizes(P, file, jrnl)
        /\ LockTypes /\ LockTable /\ Consistent(P, fileLock[c], file, jrnl)
        /\ file' \in Files /\ Q \in Pagers
    BY MoreFacts, NextFacts, Facts
  <1>2. /\ P.eState \in {CACHEMOD, DBMOD} /\ P.op \in {"none", "failed"}
        /\ file' = (IF P.eState = DBMOD THEN Truncated(file, n) ELSE file)
        /\ jrnl' = jrnl /\ fileLock' = fileLock
    BY DEF Rollback
  <1>3. Q = [P EXCEPT !.op = "rollback", !.todo = todo, !.dbSize = n] /\ pager' = [pager EXCEPT ![c] = Q]
    <2>1. pager' = [pager EXCEPT ![c] = [P EXCEPT !.op = "rollback", !.todo = todo, !.dbSize = n]]
      BY DEF Rollback
    <2> HIDE DEF todo, n
    <2> QED
      BY <1>1, <2>1, Called
  <1> HIDE DEF todo, Q
  <1>4. /\ jrnl # << >> /\ n = P.dbOrigSize /\ P.held /\ InStep(P, fileLock[c], jrnl) /\ Ahead(P, jrnl)
        /\ Changing(P, file, jrnl)
    BY <1>1, <1>2 DEF Sizes, Consistent
  <1>5. P.hdr \in Nat /\ (P.hdr = Len(jrnl) \/ jrnl[Len(jrnl)].magic) /\ Segmented(jrnl)
    BY <1>1, <1>4 DEF Ahead, Pagers, Restores
  <1>6. \A p \in Page : Covered(jrnl, p) => ToRead(jrnl, todo, p)
    BY <1>1, <1>5, OwnRecords DEF todo
  <1>7. /\ Restores(file', jrnl) /\ Kept(file, jrnl, file', jrnl)
        /\ \A p \in Page : p <= n => file'.page[p] = file.page[p]
    <2>1. CASE P.eState = DBMOD
      <3>1. /\ Restores(Truncated(file, n), jrnl) /\ Kept(file, jrnl, Truncated(file, n), jrnl)
            /\ \A p \in Page : p <= n => Truncated(file, n).page[p] = file.page[p]
        BY <1>1, <1>4, RestoresTruncated
      <3> QED
        BY <1>2, <2>1, <3>1
    <2>2. CASE P.eState # DBMOD
      BY <1>1, <1>2, <2>2, KeptSame
    <2> QED
      BY <2>1, <2>2
  <1>8. /\ Q.eState = P.eState /\ Q.op = "rollback" /\ Q.held = P.held /\ Q.dbFileVers = P.dbFileVers
        /\ Q.hdr = P.hdr /\ Q.todo = todo /\ Q.dbSize = n /\ Q.cache = P.cache
    BY <1>1, <1>3 DEF Pagers
  <1>9. \A p \in Page : ~Covered(jrnl, p) => Old(file', jrnl, p) = file'.page[p]
    BY OldUncovered
  <1>10. Restoring(Q, file', jrnl)
    <2>1. OldSize(file', jrnl) = n
      BY <1>4 DEF OldSize
    <2>2. \A p \in Page : p <= n => file'.page[p] = Old(file', jrnl, p) \/ ToRead(jrnl, todo, p)
      BY <1>6, <1>9
    <2>3. ASSUME NEW p \in Page, p <= n, P.cache[p] # NoPage
          PROVE  P.cache[p] = Old(file', jrnl, p) \/ ToRead(jrnl, todo, p)
      <3>1. CASE Covered(jrnl, p)
        BY <1>6, <3>1
      <3>2. CASE ~Covered(jrnl, p)
        BY <2>3, <3>2, <1>4, <1>7, <1>9 DEF Changing
      <3> QED
        BY <3>1, <3>2
    <2>4. n > 0 => P.dbFileVers = Version(file', jrnl) \/ ToRead(jrnl, todo, 1)
      <3>1. Version(file', jrnl) = Version(file, jrnl)
        BY <1>1, <1>7, KeptAlike
      <3>2. 1 \in P.inJournal => ToRead(jrnl, todo, 1)
        BY <1>4, <1>6 DEF Changing, Page
      <3> QED
        BY <1>4, <3>1, <3>2 DEF Changing
    <2> QED
      BY <1>8, <2>1, <2>2, <2>3, <2>4 DEF Restoring
  <1>11. Consistent(Q, fileLock[c], file', jrnl)
    BY <1>2, <1>4, <1>8, <1>10 DEF Consistent, InStep, Ahead
  <1>12. SeenBy(Q, file') = NoView
    BY <1>1, <1>8, NoViewOf DEF Q
  <1>13. Moves(c)
    BY <1>1, <1>2, <1>7, <1>12, KeptAlike DEF Moves, Q
  <1>14. file' = file \/ \A d \in Conn \ {c} : fileLock[d] = NO
    <2>1. P.eState = DBMOD => fileLock[c] = EXCLUSIVE
      BY <1>1 DEF Calls
    <2> QED
      BY <1>1, <1>2, <2>1, Above
  <1> QED
    BY <1>2, <1>3, <1>7, <1>11, <1>13, <1>14, OneStep DEF Q

(* One record less to play back, one page more restored *)
LEMMA PlayRecordMoves ==
    ASSUME AtomicInv, PagerInv', NEW c \in Conn, Undisturbed(c), NEW r \in pager[c].todo, PlayRecord(c, r)
    PROVE  Step(c)
  <1> DEFINE P == pager[c]
             Q == pager'[c]
             rec == jrnl[r[1]].recs[r[2]]
             p == rec.page
             cached == P.cache[p] # NoPage
             toFile == P.op = "hot" \/ (P.eState >= DBMOD /\ r[1] < P.hdr)
  <1>1. /\ PagerInv /\ P \in Pagers /\ file \in Files /\ jrnl \in Seq(Segments)
        /\ Restores(file, jrnl) /\ Calls(P, fileLock[c]) /\ Sizes(P, file, jrnl) /\ Cached(P)
        /\ LockTypes /\ LockTable /\ Consistent(P, fileLock[c], file, jrnl)
        /\ file' \in Files /\ Q \in Pagers
    BY MoreFacts, NextFacts, Facts
  <1>2. /\ P.op \in {"hot", "rollback"} /\ jrnl' = jrnl /\ fileLock' = fileLock
        /\ file' = IF toFile THEN Written(file, p, rec.val) ELSE file
    BY DEF PlayRecord
  <1>3. r[1] \in DOMAIN jrnl /\ r[2] \in DOMAIN jrnl[r[1]].recs
    BY <1>1, <1>2 DEF Sizes
  <1>4. rec \in Logged(jrnl)
    BY <1>3, LoggedIs
  <1>5. /\ Q = [P EXCEPT !.todo = P.todo \ {r}, !.cache = IF cached THEN [P.cache EXCEPT ![p] = rec.val] ELSE P.cache,
                         !.dbFileVers = IF cached /\ p = 1 THEN rec.val ELSE P.dbFileVers]
        /\ pager' = [pager EXCEPT ![c] = Q]
    <2>1. pager' = [pager EXCEPT ![c] = Replayed(P, r)]
      BY DEF PlayRecord
    <2>2. Q = Replayed(P, r) /\ pager' = [pager EXCEPT ![c] = Q]
      BY <1>1, <2>1, Called
    <2>3. Replayed(P, r) = [P EXCEPT !.todo = P.todo \ {r},
                                     !.cache = IF cached THEN [P.cache EXCEPT ![p] = rec.val] ELSE P.cache,
                                     !.dbFileVers = IF cached /\ p = 1 THEN rec.val ELSE P.dbFileVers]
      BY DEF Replayed
    <2> QED
      BY <2>2, <2>3
  <1> DEFINE v == rec.val
  <1>6. ToRead(jrnl, P.todo, p) /\ \A q : q # p /\ ToRead(jrnl, P.todo, q) => ToRead(jrnl, P.todo \ {r}, q)
    BY DEF ToRead
  <1>7. ~toFile /\ P.op = "rollback" /\ P.eState = DBMOD => rec \in Unsynced(jrnl)
    <2> SUFFICES ASSUME ~toFile, P.op = "rollback", P.eState = DBMOD PROVE rec \in Unsynced(jrnl)
      OBVIOUS
    <2>1. P.hdr \in Nat /\ ~(r[1] < P.hdr) /\ r[1] \in Nat /\ Len(jrnl) \in Nat /\ r[1] <= Len(jrnl)
      BY <1>1, <1>3 DEF Pagers
    <2>2. Ahead(P, jrnl)
      BY <1>1 DEF Consistent
    <2>3. r[1] = Len(jrnl) /\ ~jrnl[r[1]].magic
      BY <2>1, <2>2 DEF Ahead
    <2> QED
      BY <1>3, <2>3, LoggedIs
  <1>8. p \in Page /\ v \in Nat /\ v # NoPage /\ Covered(jrnl, p)
    BY <1>1, <1>4, LoggedType, OldLogged DEF Restores
  <1>9. Old(file, jrnl, p) = v /\ Old(file', jrnl, p) = v /\ \A s \in Unsynced(jrnl) : s.page = p => s.val = v
    <2>1. Single(jrnl)
      BY <1>1 DEF Restores
    <2>2. Old(file, jrnl, p) = v /\ Old(file', jrnl, p) = v
      BY <1>4, <2>1, OldLogged
    <2>3. \A s \in Unsynced(jrnl) : s.page = p => s.val = v
      BY <1>4, <2>1, UnsyncedLogged DEF Single
    <2> QED
      BY <2>2, <2>3
  <1>10. toFile => Armed(jrnl) /\ \A d \in Conn \ {c} : fileLock[d] = NO
    <2> SUFFICES ASSUME toFile PROVE Armed(jrnl) /\ \A d \in Conn \ {c} : fileLock[d] = NO
      OBVIOUS
    <2>1. P.op = "hot" \/ P.eState = DBMOD
      BY <1>1, <1>2 DEF Calls
    <2>2. fileLock[c] = EXCLUSIVE
      BY <1>1, <2>1 DEF Calls
    <2>3. Armed(jrnl)
      BY <1>1, <2>1 DEF Consistent, InStep
    <2> QED
      BY <1>1, <2>2, <2>3, Above
  <1>11. P.op = "rollback" => P.eState \in {CACHEMOD, DBMOD}
    BY <1>1 DEF Calls
  <1>12. ~toFile => file.page[p] = v
    <2> SUFFICES ASSUME ~toFile PROVE file.page[p] = v
      OBVIOUS
    <2>1. P.op = "rollback"
      BY <1>2
    <2>2. CASE P.eState = DBMOD
      BY <1>1, <1>7, <2>1, <2>2 DEF Restores, Unwritten
    <2>3. CASE P.eState = CACHEMOD
      <3>1. ~Armed(jrnl)
        BY <1>1, <2>3 DEF Consistent, InStep
      <3>2. AtRest(file, jrnl)
        BY <1>1, <3>1, Disarmed
      <3> QED
        BY <1>8, <1>9, <3>2 DEF AtRest
    <2> QED
      BY <1>11, <2>1, <2>2, <2>3
  <1> HIDE DEF toFile, cached, v, p, rec, Q
  <1>13. /\ Restores(file', jrnl) /\ Kept(file, jrnl, file', jrnl)
         /\ \A q \in Page : file'.page[q] = IF q = p THEN v ELSE file.page[q]
    <2>1. CASE toFile
      <3>1. file' = Written(file, p, v)
        BY <1>2, <2>1 DEF v
      <3> QED
        BY <1>1, <1>8, <1>9, <1>10, <2>1, <3>1, RestoresWritten
    <2>2. CASE ~toFile
      BY <1>1, <1>2, <1>12, <2>2, KeptSame
    <2> QED
      BY <2>1, <2>2
  <1>14. /\ Q.eState = P.eState /\ Q.op = P.op /\ Q.held = P.held
         /\ Q.hdr = P.hdr /\ Q.dbSize = P.dbSize /\ Q.todo = P.todo \ {r}
         /\ Q.inJournal = P.inJournal /\ Q.changeCountDone = P.changeCountDone
         /\ Q.cache = (IF cached THEN [P.cache EXCEPT ![p] = v] ELSE P.cache)
         /\ Q.dbFileVers = IF cached /\ p = 1 THEN v ELSE P.dbFileVers
    BY <1>1, <1>5 DEF Pagers, v
  <1>15. /\ \A q \in Page : q # p => Q.cache[q] = P.cache[q]
         /\ Q.cache[p] = IF cached THEN v ELSE NoPage
    BY <1>1, <1>8, <1>14 DEF Pagers, cached
  <1>16. /\ OldSize(file', jrnl) = OldSize(file, jrnl)
         /\ \A q \in Page : q <= OldSize(file, jrnl) => Old(file', jrnl, q) = Old(file, jrnl, q)
         /\ Version(file', jrnl) = Version(file, jrnl)
    BY <1>1, <1>13, KeptAlike DEF Kept
  <1>17. Restoring(P, file, jrnl)
    BY <1>1, <1>2 DEF Consistent
  <1>18. Restoring(Q, file', jrnl)
    <2>1. ASSUME NEW q \in Page, q <= OldSize(file', jrnl)
          PROVE  file'.page[q] = Old(file', jrnl, q) \/ ToRead(jrnl, Q.todo, q)
      <3>1. CASE q = p
        BY <3>1, <1>9, <1>13
      <3>2. CASE q # p
        <4>1. file.page[q] = Old(file, jrnl, q) \/ ToRead(jrnl, P.todo, q)
          BY <2>1, <1>16, <1>17 DEF Restoring
        <4> QED
          BY <2>1, <3>2, <4>1, <1>6, <1>13, <1>14, <1>16
      <3> QED
        BY <3>1, <3>2
    <2>2. ASSUME Q.op = "rollback"
          PROVE  /\ \A q \in Page : q <= Q.dbSize /\ Q.cache[q] # NoPage =>
                      Q.cache[q] = Old(file', jrnl, q) \/ ToRead(jrnl, Q.todo, q)
                 /\ Q.dbSize > 0 => Q.dbFileVers = Version(file', jrnl) \/ ToRead(jrnl, Q.todo, 1)
      <3>1. P.op = "rollback" /\ P.eState \in {CACHEMOD, DBMOD}
        BY <2>2, <1>11, <1>14
      <3>2. Q.dbSize = OldSize(file, jrnl) /\ Q.dbSize = OldSize(file', jrnl) /\ P.dbSize = Q.dbSize
        BY <1>1, <1>14, <1>16, <3>1 DEF Sizes, OldSize
      <3>3. ASSUME NEW q \in Page, q <= Q.dbSize, Q.cache[q] # NoPage
            PROVE  Q.cache[q] = Old(file', jrnl, q) \/ ToRead(jrnl, Q.todo, q)
        <4>1. CASE q = p
          BY <3>3, <4>1, <1>9, <1>15
        <4>2. CASE q # p
          <5>1. P.cache[q] = Old(file, jrnl, q) \/ ToRead(jrnl, P.todo, q)
            BY <3>1, <3>2, <3>3, <4>2, <1>15, <1>17 DEF Restoring
          <5> QED
            BY <3>2, <3>3, <4>2, <5>1, <1>6, <1>14, <1>15, <1>16
        <4> QED
          BY <4>1, <4>2
      <3>4. ASSUME Q.dbSize > 0 PROVE Q.dbFileVers = Version(file', jrnl) \/ ToRead(jrnl, Q.todo, 1)
        <4>1. CASE p = 1
          <5>1. P.cache[1] # NoPage
            BY <1>1, <3>1 DEF Cached
          <5>2. Q.dbFileVers = v
            BY <4>1, <5>1, <1>14 DEF cached
          <5>3. OldSize(file', jrnl) # 0
            BY <3>2, <3>4
          <5> QED
            BY <4>1, <5>2, <5>3, <1>9 DEF Version
        <4>2. CASE p # 1
          <5>1. P.dbFileVers = Version(file, jrnl) \/ ToRead(jrnl, P.todo, 1)
            BY <3>1, <3>2, <3>4, <1>17 DEF Restoring
          <5> QED
            BY <4>2, <5>1, <1>6, <1>14, <1>16
        <4> QED
          BY <4>1, <4>2
      <3> QED
        BY <3>3, <3>4
    <2>3. ASSUME Q.op = "hot", Q.todo # {} PROVE Q.cache = NoCache
      <3>1. P.cache = NoCache
        BY <2>3, <1>14, <1>17 DEF Restoring
      <3>2. ~cached
        BY <3>1, <1>8 DEF cached, NoCache
      <3> QED
        BY <3>1, <3>2, <1>14
    <2> QED
      BY <2>1, <2>2, <2>3 DEF Restoring
  <1>19. P.op = "hot" => P.eState = OPEN /\ Blank(Q.cache) /\ Clean(Q)
    <2> SUFFICES ASSUME P.op = "hot" PROVE P.eState = OPEN /\ Blank(Q.cache) /\ Clean(Q)
      OBVIOUS
    <2>1. P.eState = OPEN
      BY <1>1 DEF Calls
    <2>2. Clean(P)
      BY <1>1, <2>1 DEF Consistent
    <2>3. P.todo # {} /\ P.cache = NoCache
      BY <1>17 DEF Restoring
    <2>4. Blank(Q.cache)
      <3>1. ~cached
        BY <2>3, <1>8 DEF cached, NoCache
      <3> QED
        BY <2>3, <3>1, <1>14 DEF Blank, NoCache
    <2> QED
      BY <2>1, <2>2, <2>4, <1>14 DEF Clean
  <1>20. Consistent(Q, fileLock[c], file', jrnl)
    <2>1. CASE P.op = "hot"
      BY <2>1, <1>1, <1>14, <1>18, <1>19 DEF Consistent, InStep, Fresh
    <2>2. CASE P.op = "rollback"
      <3>1. InStep(Q, fileLock[c], jrnl) /\ Ahead(Q, jrnl) /\ Q.held /\ Q.eState \in {CACHEMOD, DBMOD}
        BY <2>2, <1>1, <1>11, <1>14 DEF Consistent, InStep, Ahead
      <3> QED
        BY <2>2, <3>1, <1>14, <1>18 DEF Consistent
    <2> QED
      BY <1>2, <2>1, <2>2
  <1>21. SeenBy(Q, file') = NoView
    BY <1>1, <1>2, <1>14, NoViewOf DEF Q
  <1>22. Moves(c)
    BY <1>1, <1>2, <1>13, <1>21, KeptAlike DEF Moves, Q
  <1>23. file' = file \/ \A d \in Conn \ {c} : fileLock[d] = NO
    BY <1>2, <1>10
  <1> QED
    BY <1>2, <1>5, <1>13, <1>20, <1>22, <1>23, OneStep DEF Q

(* When nothing is left to be read the file is what it was, and the journal can go. *)
LEMMA Restored ==
    ASSUME NEW f \in Files, NEW j \in Seq(Segments), Restores(f, j), OldSize(f, j) = f.size,
           NEW P, P.todo = {}, Restoring(P, f, j)
    PROVE  /\ \A p \in Page : p <= f.size => Old(f, j, p) = f.page[p]
           /\ Restores(f, << >>) /\ Kept(f, j, f, << >>)
  <1>1. \A p : ~ToRead(j, P.todo, p)
    BY DEF ToRead
  <1>2. \A p \in Page : p <= f.size => Old(f, j, p) = f.page[p]
    BY <1>1 DEF Restoring
  <1>3. Restores(f, << >>) /\ Kept(f, j, f, << >>)
    BY <1>2, RestoresRest
  <1> QED
    BY <1>2, <1>3

LEMMA RollingFacts ==
    ASSUME AtomicInv, NEW c \in Conn, pager[c].op = "rollback"
    PROVE  /\ pager[c].eState \in {CACHEMOD, DBMOD} /\ pager[c].held /\ pager[c].eLock >= SHARED
           /\ \A d \in Conn \ {c} : fileLock[d] <= SHARED
           /\ InStep(pager[c], fileLock[c], jrnl) /\ Restoring(pager[c], file, jrnl)
           /\ pager[c].dbSize = file.size /\ OldSize(file, jrnl) = file.size
  <1> DEFINE P == pager[c]
  <1>1. /\ PagerInv /\ P \in Pagers /\ fileLock[c] \in NO..EXCLUSIVE /\ Calls(P, fileLock[c])
        /\ Sizes(P, file, jrnl) /\ LockTypes /\ LockTable /\ Consistent(P, fileLock[c], file, jrnl)
    BY MoreFacts, Facts
  <1>2. P.eState \in {CACHEMOD, DBMOD} /\ P.eLock >= RESERVED
    BY <1>1 DEF Calls
  <1>3. P.eLock >= SHARED /\ fileLock[c] > SHARED
    BY <1>1, <1>2 DEF Calls
  <1>4. \A d \in Conn \ {c} : fileLock[d] <= SHARED
    BY <1>1, <1>3, Above
  <1>5. P.held /\ InStep(P, fileLock[c], jrnl) /\ Restoring(P, file, jrnl)
    BY <1>1, <1>2 DEF Consistent
  <1>6. P.dbSize = file.size /\ OldSize(file, jrnl) = file.size
    BY <1>1, <1>2 DEF Sizes, OldSize
  <1> QED
    BY <1>2, <1>3, <1>4, <1>5, <1>6

LEMMA EndRollbackMoves ==
    ASSUME AtomicInv, PagerInv', NEW c \in Conn, Undisturbed(c), EndRollback(c)
    PROVE  Step(c)
  <1> DEFINE P == pager[c]
             Q == pager'[c]
  <1>1. /\ PagerInv /\ P \in Pagers /\ file \in Files /\ jrnl \in Seq(Segments) /\ Restores(file, jrnl)
    BY MoreFacts
  <1>2. P.op = "rollback" /\ P.todo = {} /\ jrnl' = << >> /\ file' = file /\ Downgrade(c)
    BY DEF EndRollback
  <1>3. Q = Ended(P) /\ pager' = [pager EXCEPT ![c] = Q]
    BY <1>1, Called DEF EndRollback
  <1>4. /\ P.held /\ P.eLock >= SHARED /\ \A d \in Conn \ {c} : fileLock[d] <= SHARED
        /\ Restoring(P, file, jrnl) /\ P.dbSize = file.size /\ OldSize(file, jrnl) = file.size
    BY <1>2, RollingFacts
  <1>5. \A d \in Conn \ {c} : fileLock'[d] = fileLock[d]
    BY <1>1, <1>2, <1>4, Downgraded
  <1>6. /\ \A p \in Page : p <= file.size => Old(file, jrnl, p) = file.page[p]
        /\ Restores(file, << >>) /\ Kept(file, jrnl, file, << >>)
    BY <1>1, <1>2, <1>4, Restored
  <1>7. AtRest(file, << >>) /\ ~Armed(<< >>)
    BY RestNoJournal, NoJournal
  <1>8. Knows(Ended(P), file)
    <2>1. \A p : ~ToRead(jrnl, P.todo, p)
      BY <1>2 DEF ToRead
    <2>2. \A p \in Page : p <= P.dbSize /\ P.cache[p] # NoPage => P.cache[p] = file.page[p]
      BY <1>2, <1>4, <1>6, <2>1 DEF Restoring
    <2>3. ASSUME file.size > 0 PROVE P.dbFileVers = file.page[1]
      <3>1. P.dbFileVers = Version(file, jrnl)
        BY <1>2, <1>4, <2>1, <2>3 DEF Restoring
      <3>2. 1 \in Page /\ 1 <= file.size /\ OldSize(file, jrnl) # 0
        BY <1>1, <1>4, <2>3 DEF Page, Files
      <3> QED
        BY <1>6, <3>1, <3>2 DEF Version
    <2>4. \A p \in Page : p > file.size => file.page[p] = 0
      BY <1>1 DEF Restores
    <2> QED
      BY <1>1, <1>4, <2>2, <2>3, <2>4, EndedKnows
  <1>9. Q \in Pagers /\ Q.eState = READER /\ Q.op = "none" /\ Q.held /\ Clean(Q) /\ Q.dbSize = file.size
    <2>1. /\ Ended(P) \in Pagers /\ Ended(P).eState = READER /\ Ended(P).op = "none"
          /\ Ended(P).dbSize = P.dbSize
      BY <1>1, EndedOK
    <2>2. Ended(P).held = P.held /\ Clean(Ended(P))
      BY <1>1, EndedIs
    <2> QED
      BY <1>3, <1>4, <2>1, <2>2
  <1>10. Consistent(Q, fileLock'[c], file, << >>)
    BY <1>3, <1>7, <1>8, <1>9, ReaderOK
  <1>11. SeenBy(P, file) = NoView
    BY <1>1, <1>2, NoViewOf
  <1>12. SeenBy(Q, file) = Current(file, << >>)
    <2>1. Agrees(Q.cache, Q.dbSize, file)
      BY <1>3, <1>8 DEF Knows
    <2> HIDE DEF Q
    <2> QED
      BY <1>1, <1>7, <1>9, <2>1, FileView
  <1>13. Moves(c)
    <2>1. Current(file, << >>) = Current(file, jrnl)
      BY <1>1, <1>6, KeptAlike
    <2> QED
      BY <1>2, <1>11, <1>12, <2>1 DEF Moves
  <1> QED
    BY <1>2, <1>3, <1>4, <1>5, <1>6, <1>7, <1>10, <1>13, OneStep

LEMMA RollbackFailsMoves ==
    ASSUME AtomicInv, PagerInv', NEW c \in Conn, Undisturbed(c), RollbackFails(c)
    PROVE  Step(c)
  <1> DEFINE P == pager[c]
             Q == pager'[c]
  <1>1. PagerInv /\ P \in Pagers /\ Q \in Pagers
    BY MoreFacts, NextFacts
  <1>2. P.op = "rollback" /\ UNCHANGED <<file, jrnl>>
    BY DEF RollbackFails
  <1>3. P.held /\ P.eLock >= SHARED /\ InStep(P, fileLock[c], jrnl)
    BY <1>2, RollingFacts
  <1>4. /\ Q.eState = ERROR /\ Q.op = "none" /\ Q.held /\ pager' = [pager EXCEPT ![c] = Q]
        /\ \A d \in Conn \ {c} : fileLock'[d] = fileLock[d]
        /\ fileLock'[c] \in {SHARED, fileLock[c]}
    <2>1. CASE P.todo = {}
      <3>1. pager' = [pager EXCEPT ![c] = [Ended(P) EXCEPT !.eState = ERROR]] /\ Downgrade(c)
        BY <2>1 DEF RollbackFails
      <3>2. Q = [Ended(P) EXCEPT !.eState = ERROR] /\ pager' = [pager EXCEPT ![c] = Q]
        BY <1>1, <3>1, Called
      <3>3. fileLock'[c] = SHARED /\ \A d \in Conn \ {c} : fileLock'[d] = fileLock[d]
        BY <1>1, <1>3, <3>1, Downgraded
      <3>4. Ended(P) \in Pagers /\ Ended(P).op = "none"
        BY <1>1, EndedOK
      <3>5. Ended(P).held
        BY <1>1, <1>3, EndedIs
      <3> HIDE DEF Q
      <3>6. Q.eState = ERROR /\ Q.op = "none" /\ Q.held
        BY <3>2, <3>4, <3>5 DEF Pagers
      <3> QED
        BY <3>2, <3>3, <3>6
    <2>2. CASE P.todo # {}
      <3>1. /\ pager' = [pager EXCEPT ![c] = [P EXCEPT !.eState = ERROR, !.op = "none", !.todo = {}]]
            /\ fileLock' = fileLock
        BY <2>2 DEF RollbackFails
      <3>2. Q = [P EXCEPT !.eState = ERROR, !.op = "none", !.todo = {}] /\ pager' = [pager EXCEPT ![c] = Q]
        BY <1>1, <3>1, Called
      <3> HIDE DEF Q
      <3>3. Q.eState = ERROR /\ Q.op = "none" /\ Q.held
        BY <1>1, <1>3, <3>2 DEF Pagers
      <3> QED
        BY <3>1, <3>2, <3>3
    <2> QED
      BY <2>1, <2>2
  <1> HIDE DEF Q
  <1>5. Consistent(Q, fileLock'[c], file, jrnl) /\ SeenBy(Q, file) = NoView
    <2>1. Armed(jrnl) => fileLock'[c] \notin {RESERVED, PENDING}
      BY <1>3, <1>4 DEF InStep
    <2> QED
      BY <1>1, <1>4, <2>1, ErrorOK, NoViewOf DEF Q
  <1> QED
    BY <1>2, <1>4, <1>5, QuietStep DEF Q

---------------------------------------------------------------------------
(* Recovery from a hot journal *)

LEMMA BeginHotRollbackMoves ==
    ASSUME AtomicInv, PagerInv', NEW c \in Conn, Undisturbed(c), BeginHotRollback(c)
    PROVE  Step(c)
  <1> DEFINE P == pager[c]
             Q == pager'[c]
             n == jrnl[1].orig
             todo == Playable(0)
             cache == IF todo = {} THEN P.cache ELSE NoCache
  <1>1. /\ PagerInv /\ P \in Pagers /\ file \in Files /\ jrnl \in Seq(Segments) /\ Journal(jrnl)
        /\ Restores(file, jrnl) /\ LockTypes /\ LockTable /\ Consistent(P, fileLock[c], file, jrnl)
        /\ file' \in Files /\ Q \in Pagers
    BY MoreFacts, NextFacts, Facts
  <1>2. /\ P.eState = OPEN /\ P.op = "none" /\ Armed(jrnl) /\ jrnl # << >>
        /\ file' = Truncated(file, n) /\ jrnl' = jrnl
    BY DEF BeginHotRollback, HotJournal, Armed
  <1>3. /\ \A d \in Conn \ {c} : fileLock[d] = NO /\ fileLock'[d] = fileLock[d]
        /\ fileLock'[c] = EXCLUSIVE
    <2>1. \A d \in Conn : fileLock[d] = NO
      BY <1>1, NobodyHolds DEF BeginHotRollback
    <2>2. fileLock' = [fileLock EXCEPT ![c] = EXCLUSIVE] /\ fileLock \in [Conn -> NO..EXCLUSIVE]
      BY <1>1 DEF BeginHotRollback, LockTypes
    <2> QED
      BY <2>1, <2>2
  <1>4. /\ Q = [P EXCEPT !.eLock = EXCLUSIVE, !.op = "hot", !.todo = todo, !.dbSize = n, !.cache = cache]
        /\ pager' = [pager EXCEPT ![c] = Q]
    <2>1. pager' = [pager EXCEPT ![c] = [P EXCEPT !.eLock = EXCLUSIVE, !.op = "hot", !.todo = todo,
                                                  !.dbSize = n, !.cache = cache]]
      BY DEF BeginHotRollback
    <2> HIDE DEF todo, n, cache
    <2> QED
      BY <1>1, <2>1, Called
  <1> HIDE DEF cache, Q
  <1>5. /\ Restores(file', jrnl) /\ Kept(file, jrnl, file', jrnl)
        /\ \A q \in Page : q <= n => file'.page[q] = file.page[q]
    BY <1>1, <1>2, RestoresTruncated
  <1>6. /\ Q.eState = OPEN /\ Q.op = "hot" /\ Q.held = P.held /\ Q.dbFileVers = P.dbFileVers
        /\ Q.todo = todo /\ Q.cache = cache
        /\ Q.inJournal = P.inJournal /\ Q.changeCountDone = P.changeCountDone
    BY <1>1, <1>2, <1>4 DEF Pagers
  <1>7. Fresh(Q, file', jrnl) /\ (~Q.held => Blank(Q.cache)) /\ Clean(Q)
    <2>1. Fresh(P, file, jrnl) /\ (~P.held => Blank(P.cache)) /\ Clean(P)
      BY <1>1, <1>2 DEF Consistent
    <2>2. Fresh(P, file', jrnl)
      BY <1>1, <1>5, <2>1, FreshKept
    <2>3. Clean(Q)
      BY <1>6, <2>1 DEF Clean
    <2>4. CASE cache = P.cache
      BY <1>6, <2>1, <2>2, <2>3, <2>4 DEF Fresh
    <2>5. CASE cache = NoCache
      BY <1>6, <2>3, <2>5 DEF Fresh, Blank, NoCache
    <2> QED
      BY <2>4, <2>5 DEF cache
  <1>8. Restoring(Q, file', jrnl)
    <2>1. ASSUME NEW q \in Page, q <= OldSize(file', jrnl)
          PROVE  file'.page[q] = Old(file', jrnl, q) \/ ToRead(jrnl, todo, q)
      <3>1. CASE Covered(jrnl, q)
        <4>1. PICK r \in Logged(jrnl) : r.page = q
          BY <3>1 DEF Covered
        <4>2. Old(file', jrnl, q) = r.val
          BY <1>1, <4>1, OldLogged DEF Restores
        <4>3. r \in Unsynced(jrnl) \/ \E s \in todo : jrnl[s[1]].recs[s[2]] = r
          BY <1>1, HotRecords DEF Restores
        <4>4. r \in Unsynced(jrnl) => file'.page[q] = r.val
          BY <1>5, <4>1 DEF Restores, Unwritten
        <4> QED
          BY <4>1, <4>2, <4>3, <4>4 DEF ToRead
      <3>2. CASE ~Covered(jrnl, q)
        BY <3>2, OldUncovered
      <3> QED
        BY <3>1, <3>2
    <2>2. todo # {} => cache = NoCache
      BY DEF cache
    <2> QED
      BY <1>6, <2>1, <2>2 DEF Restoring
  <1>9. Consistent(Q, EXCLUSIVE, file', jrnl)
    BY <1>2, <1>6, <1>7, <1>8 DEF Consistent, InStep
  <1>10. SeenBy(Q, file') = NoView
    BY <1>1, <1>6, NoViewOf DEF Q
  <1>11. Moves(c)
    BY <1>1, <1>2, <1>5, <1>10, KeptAlike DEF Moves, Q
  <1> QED
    BY <1>2, <1>3, <1>4, <1>5, <1>9, <1>11, OneStep DEF Q

LEMMA HotFacts ==
    ASSUME AtomicInv, NEW c \in Conn, pager[c].op = "hot"
    PROVE  /\ pager[c].eState = OPEN /\ pager[c].eLock >= SHARED /\ \A d \in Conn \ {c} : fileLock[d] = NO
           /\ Restoring(pager[c], file, jrnl) /\ Clean(pager[c])
           /\ Fresh(pager[c], file, jrnl) /\ (~pager[c].held => Blank(pager[c].cache))
           /\ OldSize(file, jrnl) = file.size
  <1> DEFINE P == pager[c]
  <1>1. /\ PagerInv /\ P \in Pagers /\ Calls(P, fileLock[c])
        /\ Sizes(P, file, jrnl) /\ LockTypes /\ LockTable /\ Consistent(P, fileLock[c], file, jrnl)
    BY MoreFacts, Facts
  <1>2. P.eState = OPEN /\ P.eLock >= SHARED /\ fileLock[c] = EXCLUSIVE
    BY <1>1 DEF Calls
  <1>3. \A d \in Conn \ {c} : fileLock[d] = NO
    BY <1>1, <1>2, Above
  <1>4. OldSize(file, jrnl) = file.size
    BY <1>1 DEF Sizes, OldSize
  <1>5. /\ Restoring(P, file, jrnl) /\ Clean(P) /\ Fresh(P, file, jrnl) /\ (~P.held => Blank(P.cache))
    BY <1>1, <1>2 DEF Consistent
  <1> QED
    BY <1>2, <1>3, <1>4, <1>5

LEMMA EndHotRollbackMoves ==
    ASSUME AtomicInv, PagerInv', NEW c \in Conn, Undisturbed(c), EndHotRollback(c)
    PROVE  Step(c)
  <1> DEFINE P == pager[c]
             Q == pager'[c]
             R == Opened(P)
  <1>1. /\ PagerInv /\ P \in Pagers /\ file \in Files /\ jrnl \in Seq(Segments) /\ Restores(file, jrnl)
    BY MoreFacts
  <1>2. P.op = "hot" /\ P.todo = {} /\ jrnl' = << >> /\ file' = file
    BY DEF EndHotRollback
  <1>3. /\ P.eLock >= SHARED /\ \A d \in Conn \ {c} : fileLock[d] = NO
        /\ Restoring(P, file, jrnl) /\ Clean(P) /\ Fresh(P, file, jrnl) /\ (~P.held => Blank(P.cache))
        /\ OldSize(file, jrnl) = file.size
    BY <1>2, HotFacts
  <1>4. Restores(file, << >>) /\ Kept(file, jrnl, file, << >>)
    BY <1>1, <1>2, <1>3, Restored
  <1>5. AtRest(file, << >>) /\ ~Armed(<< >>) /\ << >> \in Seq(Segments)
    BY RestNoJournal, NoJournal, EmptyJournal
  <1>6. /\ Accepted(R) => Knows(R, file)
        /\ ~Accepted(R) => Fresh(R, file, << >>)
    <2>1. Fresh(P, file, << >>)
      BY <1>1, <1>3, <1>4, FreshKept
    <2>2. \A p \in Page : p > file.size => file.page[p] = 0
      BY <1>1 DEF Restores
    <2> QED
      BY <1>1, <1>3, <1>5, <2>1, <2>2, OpenedKnows
  <1>7. R \in Pagers /\ R.eState = READER /\ R.op = "none" /\ R.held /\ Clean(R) /\ R.dbSize = file.size
    <2>1. /\ Opened(P) \in Pagers /\ Opened(P).eState = READER /\ Opened(P).op = "none"
          /\ Opened(P).dbSize = file.size /\ Opened(P).changeCountDone = P.changeCountDone
      BY <1>1, OpenedOK
    <2>2. Opened(P).held /\ Opened(P).inJournal = P.inJournal
      BY <1>1, OpenedIs
    <2> QED
      BY <1>3, <2>1, <2>2 DEF Clean
  <1>8. SeenBy(P, file) = NoView /\ Current(file, << >>) = Current(file, jrnl)
    BY <1>1, <1>2, <1>4, NoViewOf, KeptAlike
  <1>9. CASE Accepted(R)
    <2>1. Downgrade(c) /\ pager' = [pager EXCEPT ![c] = R]
      BY <1>9 DEF EndHotRollback
    <2>2. \A d \in Conn \ {c} : fileLock'[d] = fileLock[d]
      BY <1>1, <1>3, <2>1, Downgraded
    <2> HIDE DEF R
    <2>3. Q = R /\ pager' = [pager EXCEPT ![c] = Q]
      BY <1>1, <2>1, Called
    <2>4. Consistent(R, fileLock'[c], file, << >>)
      BY <1>5, <1>6, <1>7, <1>9, ReaderOK
    <2>5. SeenBy(R, file) = Current(file, << >>)
      BY <1>1, <1>5, <1>6, <1>7, <1>9, FileView DEF Knows
    <2>6. Moves(c)
      BY <1>2, <1>8, <2>3, <2>5 DEF Moves
    <2> QED
      BY <1>2, <1>3, <1>4, <1>5, <2>2, <2>3, <2>4, <2>6, OneStep
  <1>10. CASE ~Accepted(R)
    <2>1. Release(c) /\ pager' = [pager EXCEPT ![c] = Unlocked(R)]
      BY <1>10 DEF EndHotRollback
    <2>2. fileLock'[c] = NO /\ \A d \in Conn \ {c} : fileLock'[d] = fileLock[d]
      BY <1>1, <1>3, <2>1, Released
    <2> HIDE DEF R
    <2>3. Q = Unlocked(R) /\ pager' = [pager EXCEPT ![c] = Q]
      BY <1>1, <2>1, Called
    <2>4. /\ Q \in Pagers /\ Q.eState = OPEN /\ Q.op = "none" /\ Q.held /\ Q.dbFileVers = R.dbFileVers
          /\ Q.cache = R.cache /\ Clean(Q)
      BY <1>7, <2>3, UnlockedOK, UnlockedIs
    <2>5. Fresh(Q, file, << >>)
      BY <1>6, <1>10, <2>4 DEF Fresh
    <2>6. Consistent(Q, fileLock'[c], file, << >>) /\ SeenBy(Q, file) = NoView
      BY <2>2, <2>4, <2>5, ClosedOK, NoViewOf
    <2>7. Moves(c)
      BY <1>2, <1>8, <2>6 DEF Moves
    <2> QED
      BY <1>2, <1>3, <1>4, <1>5, <2>2, <2>3, <2>6, <2>7, OneStep
  <1> QED
    BY <1>9, <1>10

LEMMA HotRollbackFailsMoves ==
    ASSUME AtomicInv, PagerInv', NEW c \in Conn, Undisturbed(c), HotRollbackFails(c)
    PROVE  Step(c)
  <1> DEFINE P == pager[c]
             Q == pager'[c]
             R == [P EXCEPT !.eState = ERROR]
  <1>1. PagerInv /\ P \in Pagers
    BY MoreFacts
  <1>2. P.op = "hot" /\ UNCHANGED <<file, jrnl>> /\ Release(c)
    BY DEF HotRollbackFails
  <1>3. Q = Unlocked(R) /\ pager' = [pager EXCEPT ![c] = Q]
    <2>1. pager' = [pager EXCEPT ![c] = Unlocked(R)]
      BY DEF HotRollbackFails
    <2> HIDE DEF R
    <2> QED
      BY <1>1, <2>1, Called
  <1>4. P.eLock >= SHARED
    BY <1>2, HotFacts
  <1>5. fileLock'[c] = NO /\ \A d \in Conn \ {c} : fileLock'[d] = fileLock[d]
    BY <1>1, <1>2, <1>4, Released
  <1>6. R \in Pagers /\ R.eState = ERROR
    <2>1. ERROR \in OPEN..ERROR
      OBVIOUS
    <2>2. R \in Pagers
      BY <1>1, <2>1, StateField
    <2> QED
      BY <1>1, <2>2 DEF Pagers
  <1> HIDE DEF R, Q
  <1>7. Q \in Pagers /\ Q.eState = OPEN /\ Q.op = "none" /\ Q.cache = NoCache /\ Clean(Q)
    BY <1>3, <1>6, UnlockedOK, UnlockedIs
  <1>8. Blank(Q.cache)
    BY <1>7 DEF Blank, NoCache
  <1>9. Consistent(Q, fileLock'[c], file, jrnl) /\ SeenBy(Q, file) = NoView
    BY <1>5, <1>7, <1>8, ClosedOK, NoViewOf DEF Fresh
  <1> QED
    BY <1>2, <1>3, <1>5, <1>9, QuietStep DEF Q

---------------------------------------------------------------------------
(* All steps *)

LEMMA CallMoves ==
    ASSUME AtomicInv, PagerInv', NEW c \in Conn, Undisturbed(c),
           Reading(c) \/ Playing(c) \/ Writing(c) \/ Committing(c)
    PROVE  Step(c)
  <1>1. CASE Reading(c)
    <2>1. CASE SharedLock(c) \/ EndRead(c) \/ Close(c)
      BY <2>1, SharedLockMoves, EndReadMoves, CloseMoves
    <2>2. CASE BeginHotRollback(c) \/ EndHotRollback(c) \/ HotRollbackFails(c)
      BY <2>2, BeginHotRollbackMoves, EndHotRollbackMoves, HotRollbackFailsMoves
    <2>3. CASE Recycle(c) \/ \E p \in Page : Fetch(c, p)
      BY <2>3, RecycleMoves, FetchMoves
    <2> QED
      BY <1>1, <2>1, <2>2, <2>3 DEF Reading
  <1>2. CASE Playing(c)
    BY <1>2, PlayRecordMoves DEF Playing
  <1>3. CASE Writing(c)
    <2>1. CASE Begin(c) \/ BeginExclusive(c) \/ EndUnchanged(c)
      BY <2>1, BeginMoves, EndUnchangedMoves
    <2>2. CASE \E p \in Page, v \in Input : Write(c, p, v)
      BY <2>2, WriteMoves
    <2>3. CASE \E p \in Page : WriteFails(c, p) \/ Spill(c, p) \/ SpillFails(c, p) \/ SpillBusy(c, p)
      BY <2>3, WriteFailsMoves, SpillMoves, SpillFailsMoves, SpillBusyMoves
    <2>4. CASE Rollback(c) \/ EndRollback(c) \/ RollbackFails(c)
      BY <2>4, RollbackMoves, EndRollbackMoves, RollbackFailsMoves
    <2> QED
      BY <1>3, <2>1, <2>2, <2>3, <2>4 DEF Writing
  <1>4. CASE Committing(c)
    <2>1. CASE Commit(c) \/ CommitBusy(c) \/ SyncFails(c)
      BY <2>1, CommitMoves, CommitBusyMoves, SyncFailsMoves
    <2>2. CASE \E p \in Page : FlushPage(c, p)
      BY <2>2, FlushPageMoves
    <2>3. CASE FlushFails(c) \/ EndFlush(c) \/ CommitPhaseTwo(c) \/ CommitPhaseTwoFails(c)
      BY <2>3, FlushFailsMoves, EndFlushMoves, CommitPhaseTwoMoves, CommitPhaseTwoFailsMoves
    <2> QED
      BY <1>4, <2>1, <2>2, <2>3 DEF Committing
  <1> QED
    BY <1>1, <1>2, <1>3, <1>4

LEMMA NewConsistent ==
    ASSUME NEW f, NEW j
    PROVE  Consistent(NewPager, NO, f, j) /\ SeenBy(NewPager, f) = NoView
  <1>1. Blank(NewPager.cache) /\ Clean(NewPager)
    BY DEF NewPager, NoCache, Blank, Clean
  <1> QED
    BY <1>1, NewPagerOK, ClosedOK, NoViewOf DEF Fresh

LEMMA InitAtomic == Init => AtomicInv
  <1> SUFFICES ASSUME Init PROVE AtomicInv
    OBVIOUS
  <1>1. PagerInv
    BY InitInv
  <1>2. file \in Files
    BY <1>1 DEF PagerInv, PagerTypes, Files
  <1>3. Restores(file, << >>)
    <2>1. /\ \A p \in 2..file.size : file.page[p] \in Data
          /\ \A p \in Page : p > file.size => file.page[p] = 0
      BY FoundAssumption DEF Init, Page
    <2> QED
      BY <1>2, <2>1, RestoresFinished
  <1>4. \A c \in Conn : pager[c] = NewPager /\ fileLock[c] = NO
    BY DEF Init
  <1> QED
    BY <1>1, <1>3, <1>4, NewConsistent DEF AtomicInv, Init

(* After a crash nobody sees anything, and the two files are as they were. *)
LEMMA CrashAtomic ==
    ASSUME AtomicInv, Crash
    PROVE  /\ AtomicInv'
           /\ UNCHANGED <<file, jrnl>> /\ \A c \in Conn : SeenBy(pager'[c], file') = NoView
  <1>1. PagerInv' /\ UNCHANGED <<file, jrnl>> /\ Restores(file, jrnl)
    BY CrashStep DEF AtomicInv, Crash
  <1>2. \A c \in Conn : pager'[c] = NewPager /\ fileLock'[c] = NO
    BY DEF Crash
  <1> QED
    BY <1>1, <1>2, NewConsistent DEF AtomicInv

LEMMA NextAtomic == AtomicInv /\ [Next]_vars => AtomicInv'
  <1> SUFFICES ASSUME AtomicInv, [Next]_vars PROVE AtomicInv'
    OBVIOUS
  <1>1. PagerInv'
    BY NextInv DEF AtomicInv
  <1>2. CASE UNCHANGED vars
    BY <1>1, <1>2 DEF vars, AtomicInv
  <1>3. CASE Crash
    BY <1>3, CrashAtomic
  <1>4. ASSUME NEW c \in Conn, Undisturbed(c), Reading(c) \/ Playing(c) \/ Writing(c) \/ Committing(c)
        PROVE  AtomicInv'
    BY <1>1, <1>4, CallMoves DEF Step
  <1> QED
    BY <1>2, <1>3, <1>4 DEF Next

LEMMA AlwaysAtomic == Spec => []AtomicInv
  <1> QED
    BY InitAtomic, NextAtomic, PTL DEF Spec

(* sqlite3PagerSharedLock keeps the cache when the change counter of the file is the one that the Pager remembers:    *)
(* for any number of connections and pages, a connection that may read finds in its cache what the file holds, or     *)
(* what it has changed itself.                                                                                        *)
THEOREM CacheAlwaysCurrent == Spec => []CacheIsCurrent
  <1>1. ASSUME AtomicInv PROVE CacheIsCurrent
    <2> SUFFICES ASSUME NEW c \in Conn, pager[c].eState \in READER..FINISHED, pager[c].op = "none",
                        NEW p \in Page \ pager[c].dirty, pager[c].cache[p] # NoPage
                 PROVE  (p <= pager[c].dbSize \/ p = 1) /\ pager[c].cache[p] = file.page[p]
      BY DEF CacheIsCurrent
    <2> DEFINE P == pager[c]
    <2>1. Calls(P, fileLock[c]) /\ Consistent(P, fileLock[c], file, jrnl)
      BY <1>1, MoreFacts
    <2>2. P.eState \in {READER, WRITER_LOCKED, CACHEMOD, DBMOD}
      BY <2>1 DEF Calls
    <2>3. CASE P.eState \in {READER, WRITER_LOCKED}
      BY <2>1, <2>3 DEF Consistent, Knows, Agrees
    <2>4. CASE P.eState \in {CACHEMOD, DBMOD}
      BY <2>1, <2>4 DEF Consistent, Pending, Unflushed
    <2> QED
      BY <2>2, <2>3, <2>4
  <1> QED
    BY <1>1, AlwaysAtomic, PTL

---------------------------------------------------------------------------
(* The refinement of AtomicCommit *)

LEMMA CommittedCurrent == AtomicInv => Committed = Current(file, jrnl)
  <1> SUFFICES ASSUME AtomicInv PROVE Committed = Current(file, jrnl)
    OBVIOUS
  <1>1. file \in Files /\ jrnl \in Seq(Segments) /\ Journal(jrnl) /\ Restores(file, jrnl)
    BY DEF AtomicInv, PagerInv, PagerTypes, Files
  <1> QED
    BY <1>1, CommittedIs

LEMMA ViewsSeen ==
  /\ \A c : View(c) = SeenBy(pager[c], file)
  /\ \A c : View(c)' = SeenBy(pager'[c], file')
  <1>1. \A c : View(c) = SeenBy(pager[c], file)
    BY DEF View, SeenBy, Seen
  <1>2. \A c : View(c)' = SeenBy(pager'[c], file')
    BY DEF View, SeenBy, Seen
  <1> QED
    BY <1>1, <1>2

(* Connections that are not called, and have no more than a SHARED lock, see the committed content or nothing. *)
LEMMA OthersSee ==
    ASSUME AtomicInv, NEW c \in Conn, Undisturbed(c), NEW d \in Conn \ {c}
    PROVE  /\ fileLock[d] = NO => SeenBy(pager[d], file) = NoView
           /\ fileLock[d] <= SHARED /\ ~Armed(jrnl) => SeenBy(pager[d], file) \in {NoView, Current(file, jrnl)}
  <1> DEFINE P == pager[d]
  <1>1. P \in Pagers /\ fileLock[d] \in NO..EXCLUSIVE /\ Calls(P, fileLock[d]) /\ P.op = "none"
    BY MoreFacts DEF Undisturbed
  <1>2. fileLock[d] = NO => SeenBy(P, file) = NoView
    BY <1>1, NoLock, NoViewOf
  <1>3. ASSUME fileLock[d] <= SHARED, ~Armed(jrnl) PROVE SeenBy(P, file) \in {NoView, Current(file, jrnl)}
    <2>1. P.eState \in {OPEN, READER, ERROR}
      BY <1>1, <1>3, SharedOnly
    <2>2. CASE P.eState = READER
      BY <1>1, <2>2, ReaderFacts
    <2>3. CASE P.eState \in {OPEN, ERROR}
      BY <1>1, <2>3, NoViewOf
    <2> QED
      BY <2>1, <2>2, <2>3
  <1> QED
    BY <1>2, <1>3

(* A call of a connection is a step of the promise, or none. *)
LEMMA CallRefines ==
    ASSUME AtomicInv, NEW c \in Conn, Undisturbed(c), Step(c),
           Committed = Current(file, jrnl), Committed' = Current(file', jrnl')
    PROVE  [Atomically!Next]_(Atomically!abstractVars)
  <1> DEFINE seen == [d \in Conn |-> View(d)]
  <1>1. \A d \in Conn : seen[d] = SeenBy(pager[d], file) /\ seen'[d] = SeenBy(pager'[d], file')
    BY ViewsSeen
  <1>2. \A d \in Conn \ {c} : seen'[d] = seen[d]
    BY <1>1 DEF Step
  <1>3. seen = [d \in Conn |-> seen[d]] /\ seen' = [d \in Conn |-> seen'[d]]
    OBVIOUS
  <1> HIDE DEF seen
  <1>4. seen' = [seen EXCEPT ![c] = seen'[c]]
    BY <1>2, <1>3
  <1>5. Moves(c)
    BY DEF Step
  <1>6. CASE Committed' = Committed /\ seen'[c] \in {seen[c], NoView}
    <2>1. CASE seen'[c] = seen[c]
      <3>1. seen' = seen
        BY <1>3, <1>4, <2>1
      <3> QED
        BY <1>6, <3>1 DEF seen, Atomically!abstractVars
    <2>2. CASE seen'[c] = NoView
      <3>1. seen' = [seen EXCEPT ![c] = NoView]
        BY <1>4, <2>2
      <3> QED
        BY <1>6, <3>1 DEF seen, Atomically!Next, Atomically!End
    <2> QED
      BY <1>6, <2>1, <2>2
  <1>7. CASE Committed' = Committed /\ seen[c] = NoView /\ seen'[c] = Committed
    <2>1. seen' = [seen EXCEPT ![c] = Committed]
      BY <1>4, <1>7
    <2> QED
      BY <1>7, <2>1 DEF seen, Atomically!Next, Atomically!Begin
  <1>8. CASE /\ Committed' = Committed /\ seen[c] \in Content /\ seen'[c] \in Content
             /\ ~Armed(jrnl) \/ \A d \in Conn \ {c} : fileLock[d] = NO
             /\ \A d \in Conn \ {c} : fileLock[d] <= SHARED
    <2>1. seen[c] # NoView
      BY <1>8, ViewAssumption
    <2>2. \A d \in Conn \ {c} : seen[d] \in {NoView, Committed}
      BY <1>1, <1>8, OthersSee
    <2> QED
      BY <1>4, <1>8, <2>1, <2>2 DEF seen, Atomically!Next, Atomically!Change
  <1>9. CASE /\ Committed' = seen[c] /\ seen'[c] = seen[c] /\ seen[c] \in Content
             /\ \A d \in Conn \ {c} : fileLock[d] = NO
    <2>1. seen[c] # NoView
      BY <1>9, ViewAssumption
    <2>2. \A d \in Conn \ {c} : seen[d] = NoView
      BY <1>1, <1>9, OthersSee
    <2>3. seen' = seen
      BY <1>3, <1>4, <1>9
    <2> QED
      BY <1>9, <2>1, <2>2, <2>3 DEF seen, Atomically!Next, Atomically!Commit
  <1> QED
    BY <1>1, <1>5, <1>6, <1>7, <1>8, <1>9 DEF Moves

LEMMA NextRefines ==
    ASSUME AtomicInv, [Next]_vars, Committed = Current(file, jrnl), Committed' = Current(file', jrnl')
    PROVE  [Atomically!Next]_(Atomically!abstractVars)
  <1>1. PagerInv'
    BY NextInv DEF AtomicInv
  <1>2. CASE UNCHANGED vars
    <2>1. Committed' = Committed
      BY <1>2 DEF vars
    <2>2. \A c : View(c)' = View(c)
      BY <1>2, ViewsSeen DEF vars
    <2> QED
      BY <2>1, <2>2 DEF Atomically!abstractVars
  <1>3. CASE Crash
    <2>1. Committed' = Committed /\ \A c \in Conn : View(c)' = NoView
      BY <1>3, CrashAtomic, ViewsSeen
    <2> QED
      BY <2>1 DEF Atomically!Next, Atomically!Crash
  <1>4. ASSUME NEW c \in Conn, Undisturbed(c), Reading(c) \/ Playing(c) \/ Writing(c) \/ Committing(c)
        PROVE  [Atomically!Next]_(Atomically!abstractVars)
    BY <1>1, <1>4, CallMoves, CallRefines
  <1> QED
    BY <1>2, <1>3, <1>4 DEF Next

(* The locks, the journal, the order in which CommitPhaseOne, pagerStress and pager_playback write, and the detection *)
(* of hot journals together make commits atomic and transactions isolated, also when file operations fail at any      *)
(* point or the process dies there: for any number of connections, pages and values, the pagers implement             *)
(* AtomicCommit.                                                                                                      *)
THEOREM PagersAreAtomic == Spec => Atomic
  <1>1. Init => Atomically!Init
    <2> SUFFICES ASSUME Init PROVE Atomically!Init
      OBVIOUS
    <2>1. AtomicInv
      BY InitAtomic
    <2>2. file \in Files /\ jrnl \in Seq(Segments) /\ Restores(file, jrnl)
      BY <2>1 DEF AtomicInv, PagerInv, PagerTypes, Files
    <2>3. Committed \in Content
      BY <2>1, <2>2, CommittedCurrent, CurrentIsContent
    <2>4. \A c \in Conn : View(c) = NoView
      BY ViewsSeen, NewConsistent DEF Init
    <2> QED
      BY <2>3, <2>4 DEF Atomically!Init
  <1>2. AtomicInv /\ Committed = Current(file, jrnl) /\ Committed' = Current(file', jrnl') /\ [Next]_vars =>
          [Atomically!Next]_(Atomically!abstractVars)
    BY NextRefines
  <1>3. AtomicInv /\ [Next]_vars => Committed' = Current(file', jrnl')
    <2>1. AtomicInv' => (Committed = Current(file, jrnl))'
      BY CommittedCurrent, PTL
    <2> QED
      BY <2>1, NextAtomic
  <1>4. AtomicInv /\ [Next]_vars => [Atomically!Next]_(Atomically!abstractVars)
    BY <1>2, <1>3, CommittedCurrent
  <1> QED
    BY <1>1, <1>4, AlwaysAtomic, PTL DEF Spec, Atomic, Atomically!Spec
===========================================================================
