--------------------------- MODULE DatabaseProofs ---------------------------
(***************************************************************************)
(* Proofs about Database: no connection is lost, whatever close and export *)
(* throw, and a careful program has all its databases attached to their    *)
(* own connections and files, but for those whose close or export threw.   *)
(***************************************************************************)
EXTENDS Database, TLAPS

(* One database is attached. *)
AttachedOne(d) ==
    /\ magic[db[d]] = "open"
    /\ filename[d] # NULL
    /\ \/ dir[filename[d]] = node[db[d]] /\ dir[filename[d]] # NULL
       \/ dir[filename[d]] = NULL /\ filename[d] \in deleted
    /\ \A e \in Databases \ failed : db[e] = db[d] => e = d

LEMMA AttachedAll ==
    Attached <=> (careful => \A d \in Databases \ failed : db[d] # NULL => AttachedOne(d))
  BY DEF Attached, AttachedOne

LEMMA InitInv == Init => Inv
  BY DatabaseAssumption
     DEF Init, Inv, TypeOK, ConnectionsAccounted, Named, PathsExclusive, Attached

(* What close_v2 and a failing open do to the connections. *)
LEMMA ClosedType ==
    ASSUME TypeOK, NEW c \in Conns \cup {NULL}
    PROVE  /\ ClosedV2(c) \in [Conns -> {"free", "open", "sick", "zombie"}]
           /\ ClosedNode(c) \in [Conns -> Nodes \cup {NULL}]
  BY DEF TypeOK, ClosedV2, ClosedNode

LEMMA FailedOpenIs ==
    ASSUME NEW m \in [Conns -> {"free", "open", "sick", "zombie"}], NEW f \in FailedOpen(m)
    PROVE  /\ f \in [Conns -> {"free", "open", "sick", "zombie"}]
           /\ \A e \in Conns : f[e] = m[e] \/ (m[e] = "free" /\ f[e] = "sick")
  <1>1. f = m \/ \E c \in Conns : (m[c] = "free" /\ f = [m EXCEPT ![c] = "sick"])
    BY Zenon DEF FailedOpen
  <1>2. CASE f = m
    BY <1>2
  <1>3. ASSUME NEW c \in Conns, m[c] = "free", f = [m EXCEPT ![c] = "sick"]
        PROVE  /\ f \in [Conns -> {"free", "open", "sick", "zombie"}]
               /\ \A e \in Conns : f[e] = m[e] \/ (m[e] = "free" /\ f[e] = "sick")
    <2>1. f \in [Conns -> {"free", "open", "sick", "zombie"}]
      BY <1>3
    <2>2. \A e \in Conns : f[e] = IF e = c THEN "sick" ELSE m[e]
      BY <1>3
    <2> QED
      BY <1>3, <2>1, <2>2
  <1> QED
    BY <1>1, <1>2, <1>3

(* A database that is attached stays attached when its connection, its     *)
(* name and its entry stay, and no other handle becomes its connection.    *)
LEMMA StaysAttached ==
    ASSUME NEW d \in Databases \ failed, db[d] # NULL, AttachedOne(d),
           db'[d] = db[d], filename'[d] = filename[d],
           magic'[db[d]] = magic[db[d]], node'[db[d]] = node[db[d]],
           \/ dir'[filename[d]] = dir[filename[d]] /\ (filename[d] \in deleted => filename[d] \in deleted')
           \/ dir'[filename[d]] = NULL /\ filename[d] \in deleted',
           \A e \in Databases \ failed' : db'[e] = db[d] => e \notin failed /\ db[e] = db[d]
    PROVE  AttachedOne(d)'
  BY DEF AttachedOne

LEMMA ConstructInv ==
    ASSUME Inv, NEW d \in Databases, NEW p \in Paths, Construct(d, p)
    PROVE  Inv'
  <1> USE DatabaseAssumption
  <1>0. TypeOK /\ ConnectionsAccounted /\ Named /\ PathsExclusive /\ Attached
    BY DEF Inv
  <1>1. PICK c \in Conns, n \in Nodes :
           /\ magic[c] = "free"
           /\ Found(p, n)
           /\ magic' = [magic EXCEPT ![c] = "open"]
           /\ node' = [node EXCEPT ![c] = n]
           /\ dir' = [dir EXCEPT ![p] = n]
           /\ db' = [db EXCEPT ![d] = c]
    BY DEF Construct, HandleOf
  <1>2. /\ filename' = [filename EXCEPT ![d] = p] /\ filename[d] = NULL
        /\ pinned' = pinned /\ failed' = failed /\ deleted' = deleted \ {p}
        /\ careful' = (careful /\ Unclaimed(p))
    BY DEF Construct
  <1>3. TypeOK'
    BY <1>0, <1>1, <1>2 DEF TypeOK
  <1>4. db[d] = NULL /\ d \notin failed
    BY <1>0, <1>2 DEF Named
  <1>5. ConnectionsAccounted'
    <2> SUFFICES ASSUME NEW e \in Conns
                 PROVE  /\ magic'[e] = "open" => \E g \in Databases \ failed' : db'[g] = e
                        /\ magic'[e] = "zombie" => e \in pinned'
                        /\ e \in pinned' => magic'[e] \in {"open", "zombie"}
                        /\ node'[e] # NULL <=> magic'[e] \in {"open", "zombie"}
      BY DEF ConnectionsAccounted
    <2>1. CASE e = c
      BY <1>0, <1>1, <1>2, <1>4, <2>1 DEF TypeOK, ConnectionsAccounted
    <2>2. CASE e # c
      <3>1. magic'[e] = magic[e] /\ node'[e] = node[e]
        BY <1>0, <1>1, <2>2 DEF TypeOK
      <3>2. \A g \in Databases : db[g] = e => db'[g] = e
        BY <1>0, <1>1, <1>4 DEF TypeOK
      <3> QED
        BY <1>0, <1>2, <3>1, <3>2 DEF ConnectionsAccounted
    <2> QED
      BY <2>1, <2>2
  <1>6. Named'
    BY <1>0, <1>1, <1>2, <1>4 DEF Named, TypeOK
  <1>7. ASSUME careful'
        PROVE  PathsExclusive' /\ Attached'
    <2>1. careful /\ \A e \in Databases : filename[e] # p
      BY <1>7, <1>2 DEF Unclaimed
    <2>2. PathsExclusive'
      BY <1>0, <1>2, <2>1 DEF PathsExclusive, TypeOK
    <2>3. \A e \in Databases \ failed : db[e] # NULL => db[e] # c
      BY <1>0, <1>1, <2>1 DEF Attached
    <2>4. ASSUME NEW e \in Databases \ failed', db'[e] # NULL
          PROVE  AttachedOne(e)'
      <3>1. CASE e = d
        <4>1. /\ db'[d] = c /\ filename'[d] = p /\ magic'[c] = "open"
              /\ node'[c] = n /\ dir'[p] = n /\ n # NULL
          BY <1>0, <1>1, <1>2 DEF TypeOK
        <4>2. \A g \in Databases \ failed' : db'[g] = c => g = d
          BY <1>0, <1>1, <1>2, <2>3 DEF TypeOK
        <4> QED
          BY <3>1, <4>1, <4>2 DEF AttachedOne
      <3>2. CASE e # d
        <4>1. /\ e \in Databases \ failed /\ db'[e] = db[e] /\ db[e] # NULL
              /\ filename'[e] = filename[e] /\ db[e] # c /\ filename[e] # p
          BY <1>0, <1>1, <1>2, <2>1, <2>3, <2>4, <3>2 DEF TypeOK
        <4>2. db[e] \in Conns /\ filename[e] \in Paths /\ AttachedOne(e)
          BY <1>0, <2>1, <4>1, AttachedAll DEF TypeOK, Named
        <4>3. magic'[db[e]] = magic[db[e]] /\ node'[db[e]] = node[db[e]]
              /\ dir'[filename[e]] = dir[filename[e]]
          BY <1>0, <1>1, <4>1, <4>2 DEF TypeOK
        <4>4. filename[e] \in deleted => filename[e] \in deleted'
          BY <1>2, <4>1
        <4>5. \A g \in Databases \ failed' : db'[g] = db[e] => g \notin failed /\ db[g] = db[e]
          BY <1>0, <1>1, <1>2, <4>1 DEF TypeOK
        <4> QED
          BY <4>1, <4>2, <4>3, <4>4, <4>5, StaysAttached
      <3> QED
        BY <3>1, <3>2
    <2>5. (careful => \A e \in Databases \ failed : db[e] # NULL => AttachedOne(e))'
      BY <2>4
    <2> QED
      BY <2>2, <2>5, AttachedAll DEF Attached, AttachedOne
  <1>8. PathsExclusive' /\ Attached'
    BY <1>7 DEF PathsExclusive, Attached
  <1> QED
    BY <1>3, <1>5, <1>6, <1>8 DEF Inv

LEMMA ConstructFailsInv ==
    ASSUME Inv, NEW d \in Databases, NEW p \in Paths, ConstructFails(d, p)
    PROVE  Inv'
  <1> USE DatabaseAssumption
  <1>0. TypeOK /\ ConnectionsAccounted /\ Named /\ PathsExclusive /\ Attached
    BY DEF Inv
  <1>1. /\ magic' \in [Conns -> {"free", "open", "sick", "zombie"}]
        /\ \A e \in Conns : magic'[e] = magic[e] \/ (magic[e] = "free" /\ magic'[e] = "sick")
    BY <1>0, FailedOpenIs DEF ConstructFails, TypeOK
  <1>2. UNCHANGED <<filename, db, failed, node, pinned>>
    BY DEF ConstructFails, handles
  <1>3. /\ dir' \in [Paths -> Nodes \cup {NULL}] /\ deleted' \subseteq Paths
        /\ \A q \in Paths : q # p => dir'[q] = dir[q] /\ (q \in deleted => q \in deleted')
    <2>1. CASE UNCHANGED files
      BY <1>0, <2>1 DEF files, TypeOK
    <2>2. CASE (\E n \in Nodes : dir' = [dir EXCEPT ![p] = n]) /\ deleted' = deleted \ {p}
      BY <1>0, <2>2 DEF TypeOK
    <2> QED
      BY <2>1, <2>2 DEF ConstructFails
  <1>4. careful' = (careful /\ Unclaimed(p))
    BY DEF ConstructFails
  <1>5. TypeOK'
    BY <1>0, <1>1, <1>2, <1>3, <1>4 DEF TypeOK
  <1>6. ConnectionsAccounted'
    BY <1>0, <1>1, <1>2 DEF TypeOK, ConnectionsAccounted
  <1>7. Named'
    BY <1>0, <1>2 DEF Named
  <1>8. PathsExclusive'
    BY <1>0, <1>2, <1>4 DEF PathsExclusive
  <1>9. ASSUME careful', NEW e \in Databases \ failed', db'[e] # NULL
        PROVE  AttachedOne(e)'
    <2>1. /\ careful /\ filename[e] # p /\ e \in Databases \ failed /\ db[e] # NULL
      BY <1>2, <1>4, <1>9 DEF Unclaimed
    <2>2. db[e] \in Conns /\ filename[e] \in Paths /\ AttachedOne(e)
      BY <1>0, <2>1, AttachedAll DEF TypeOK, Named
    <2>3. magic'[db[e]] = magic[db[e]]
      BY <1>1, <2>2 DEF AttachedOne
    <2> QED
      BY <1>2, <1>3, <2>1, <2>2, <2>3, StaysAttached
  <1>10. Attached'
    BY <1>9 DEF Attached, AttachedOne
  <1> QED
    BY <1>5, <1>6, <1>7, <1>8, <1>10 DEF Inv

LEMMA DeletedOutsideInv ==
    ASSUME Inv, NEW p \in Paths, DeletedOutside(p)
    PROVE  Inv'
  <1> USE DatabaseAssumption
  <1>0. TypeOK /\ ConnectionsAccounted /\ Named /\ PathsExclusive /\ Attached
    BY DEF Inv
  <1>1. /\ UNCHANGED <<filename, db, failed, magic, node, pinned, careful>>
        /\ dir' = [dir EXCEPT ![p] = NULL] /\ deleted' = deleted \cup {p}
    BY DEF DeletedOutside, handles, conns
  <1>2. TypeOK'
    BY <1>0, <1>1 DEF TypeOK
  <1>3. ConnectionsAccounted' /\ Named' /\ PathsExclusive'
    BY <1>0, <1>1 DEF ConnectionsAccounted, Named, PathsExclusive
  <1>4. ASSUME careful', NEW e \in Databases \ failed', db'[e] # NULL
        PROVE  AttachedOne(e)'
    <2>1. careful /\ e \in Databases \ failed /\ db[e] # NULL
      BY <1>1, <1>4
    <2>2. filename[e] \in Paths /\ AttachedOne(e)
      BY <1>0, <2>1, AttachedAll DEF TypeOK, Named
    <2>3. \/ dir'[filename[e]] = dir[filename[e]] /\ (filename[e] \in deleted => filename[e] \in deleted')
          \/ dir'[filename[e]] = NULL /\ filename[e] \in deleted'
      BY <1>0, <1>1, <2>2 DEF TypeOK
    <2> QED
      BY <1>1, <2>1, <2>2, <2>3, StaysAttached
  <1>5. Attached'
    BY <1>4 DEF Attached, AttachedOne
  <1> QED
    BY <1>2, <1>3, <1>5 DEF Inv

(* The connections of the other databases when that of d is closed. *)
LEMMA OthersKept ==
    ASSUME Inv, careful, NEW d \in Databases, d \notin failed,
           NEW e \in Databases \ failed, e # d, db[e] # NULL
    PROVE  /\ AttachedOne(e) /\ db[e] \in Conns /\ db[e] # db[d]
           /\ filename[e] \in Paths /\ filename[e] # filename[d]
           /\ ClosedV2(db[d])[db[e]] = magic[db[e]]
           /\ ClosedNode(db[d])[db[e]] = node[db[e]]
  <1> USE DatabaseAssumption
  <1>1. AttachedOne(e)
    BY AttachedAll DEF Inv
  <1>2. db[e] \in Conns /\ filename[e] \in Paths /\ filename[e] # filename[d]
    BY DEF Inv, TypeOK, Named, PathsExclusive
  <1>3. db[e] # db[d]
    BY <1>1 DEF AttachedOne
  <1> QED
    BY <1>1, <1>2, <1>3 DEF ClosedV2, ClosedNode

LEMMA CloseInv ==
    ASSUME Inv, NEW d \in Databases, NEW unlink \in BOOLEAN, Close(d, unlink)
    PROVE  Inv'
  <1> USE DatabaseAssumption
  <1> DEFINE c == db[d]
  <1>0. TypeOK /\ ConnectionsAccounted /\ Named /\ PathsExclusive /\ Attached
    BY DEF Inv
  <1>1. PICK thrown \in BOOLEAN :
          /\ dir' = IF unlink /\ ~thrown THEN [dir EXCEPT ![filename[d]] = NULL] ELSE dir
          /\ db' = [db EXCEPT ![d] = IF thrown THEN c ELSE NULL]
          /\ failed' = IF thrown THEN failed \cup {d} ELSE failed \ {d}
    BY DEF Close, Handle, UnlinkThrows
  <1>2. /\ c \in Conns /\ magic[c] \in {"open", "sick"}
        /\ filename[d] \in Paths
        /\ filename' = filename /\ pinned' = pinned /\ deleted' = deleted
        /\ magic' = ClosedV2(c) /\ node' = ClosedNode(c)
        /\ careful' = (careful /\ d \notin failed)
    BY <1>0 DEF Close, Closable, TypeOK, Named
  <1>3. \A e \in Databases : /\ e # d => db'[e] = db[e] /\ (e \in failed' <=> e \in failed)
                             /\ e = d => db'[e] = IF thrown THEN c ELSE NULL
                             /\ e = d => (e \in failed' <=> thrown)
    BY <1>0, <1>1 DEF TypeOK
  <1>4. TypeOK'
    <2>1. db' \in [Databases -> Conns \cup {NULL}]
      BY <1>0, <1>1 DEF TypeOK
    <2>2. dir' \in [Paths -> Nodes \cup {NULL}]
      BY <1>0, <1>1 DEF TypeOK
    <2>3. failed' \subseteq Databases
      BY <1>0, <1>1 DEF TypeOK
    <2> QED
      BY <1>0, <1>2, <2>1, <2>2, <2>3, ClosedType DEF TypeOK
  <1>5. ConnectionsAccounted'
    <2>1. \A e \in Conns : magic'[e] = "open" => e # c /\ magic[e] = "open"
      BY <1>2 DEF ClosedV2
    <2>2. \A e \in Conns : magic'[e] = "open" => \E g \in Databases \ failed' : db'[g] = e
      BY <1>0, <1>3, <2>1 DEF ConnectionsAccounted
    <2> QED
      BY <1>0, <1>2, <2>2 DEF ConnectionsAccounted, ClosedV2, ClosedNode
  <1>6. Named'
    BY <1>0, <1>2, <1>3 DEF Named
  <1>7. PathsExclusive'
    BY <1>0, <1>2 DEF PathsExclusive
  <1>8. ASSUME careful', NEW e \in Databases \ failed', db'[e] # NULL
        PROVE  AttachedOne(e)'
    <2>1. careful /\ d \notin failed
      BY <1>2, <1>8
    <2>2. e # d /\ e \in Databases \ failed /\ db'[e] = db[e] /\ db[e] # NULL
      BY <1>3, <1>8
    <2>3. /\ AttachedOne(e) /\ db[e] \in Conns /\ db[e] # c
          /\ filename[e] \in Paths /\ filename[e] # filename[d]
          /\ ClosedV2(c)[db[e]] = magic[db[e]]
          /\ ClosedNode(c)[db[e]] = node[db[e]]
      BY <2>1, <2>2, OthersKept
    <2>4. dir'[filename[e]] = dir[filename[e]]
      BY <1>0, <1>1, <2>3 DEF TypeOK
    <2>5. \A g \in Databases \ failed' : db'[g] = db[e] => g \notin failed /\ db[g] = db[e]
      BY <1>3, <2>1, <2>2, <2>3
    <2> QED
      BY <1>2, <2>2, <2>3, <2>4, <2>5, StaysAttached
  <1>9. Attached'
    BY <1>8 DEF Attached, AttachedOne
  <1> QED
    BY <1>4, <1>5, <1>6, <1>7, <1>9 DEF Inv

LEMMA ExportInv ==
    ASSUME Inv, NEW d \in Databases, Export(d)
    PROVE  Inv'
  <1> USE DatabaseAssumption
  <1> DEFINE n == dir[filename[d]]
             old == db[d]
  <1>0. TypeOK /\ ConnectionsAccounted /\ Named /\ PathsExclusive /\ Attached
    BY DEF Inv
  <1>1. PICK c \in Conns :
          /\ ClosedV2(old)[c] = "free"
          /\ magic' = [ClosedV2(old) EXCEPT ![c] = "open"]
          /\ node' = [ClosedNode(old) EXCEPT ![c] = n]
          /\ db' = [db EXCEPT ![d] = c]
    BY DEF Export, HandleOf
  <1>2. /\ filename[d] \in Paths /\ n \in Nodes
        /\ old \in Conns \cup {NULL}
        /\ old # NULL => magic[old] \in {"open", "sick"}
        /\ UNCHANGED <<filename, dir, deleted, pinned>>
        /\ failed' = failed \ {d}
        /\ careful' = (careful /\ d \notin failed)
    BY <1>0 DEF Export, Closable, TypeOK, files
  <1>3. /\ ClosedV2(old) \in [Conns -> {"free", "open", "sick", "zombie"}]
        /\ ClosedNode(old) \in [Conns -> Nodes \cup {NULL}]
    BY <1>0, <1>2, ClosedType
  <1>4. \A e \in Conns : /\ magic'[e] = IF e = c THEN "open" ELSE ClosedV2(old)[e]
                         /\ node'[e] = IF e = c THEN n ELSE ClosedNode(old)[e]
    BY <1>1, <1>3
  <1>5. \A e \in Databases : db'[e] = IF e = d THEN c ELSE db[e]
    BY <1>0, <1>1 DEF TypeOK
  <1>6. TypeOK'
    <2>1. magic' \in [Conns -> {"free", "open", "sick", "zombie"}]
      BY <1>1, <1>3
    <2>2. node' \in [Conns -> Nodes \cup {NULL}]
      BY <1>1, <1>2, <1>3
    <2>3. db' \in [Databases -> Conns \cup {NULL}]
      BY <1>0, <1>1 DEF TypeOK
    <2> QED
      BY <1>0, <1>2, <2>1, <2>2, <2>3 DEF TypeOK
  <1>7. ConnectionsAccounted'
    <2> SUFFICES ASSUME NEW e \in Conns
                 PROVE  /\ magic'[e] = "open" => \E g \in Databases \ failed' : db'[g] = e
                        /\ magic'[e] = "zombie" => e \in pinned'
                        /\ e \in pinned' => magic'[e] \in {"open", "zombie"}
                        /\ node'[e] # NULL <=> magic'[e] \in {"open", "zombie"}
      BY DEF ConnectionsAccounted
    <2>1. CASE e = c
      <3>1. \E g \in Databases \ failed' : db'[g] = e
        BY <1>2, <1>5, <2>1
      <3> QED
        BY <1>2, <1>4, <2>1, <3>1
    <2>2. CASE e # c
      <3>1. magic'[e] = ClosedV2(old)[e] /\ node'[e] = ClosedNode(old)[e]
        BY <1>4, <2>2
      <3>2. CASE e = old
        BY <1>0, <1>2, <3>1, <3>2 DEF ClosedV2, ClosedNode, ConnectionsAccounted
      <3>3. CASE e # old
        <4>1. magic'[e] = magic[e] /\ node'[e] = node[e]
          BY <3>1, <3>3 DEF ClosedV2, ClosedNode
        <4>2. magic'[e] = "open" => \E g \in Databases \ failed' : db'[g] = e
          BY <1>0, <1>2, <1>5, <3>3, <4>1 DEF ConnectionsAccounted
        <4> QED
          BY <1>0, <1>2, <4>1, <4>2 DEF ConnectionsAccounted
      <3> QED
        BY <3>2, <3>3
    <2> QED
      BY <2>1, <2>2
  <1>8. Named'
    BY <1>0, <1>2, <1>5 DEF Named
  <1>9. PathsExclusive'
    BY <1>0, <1>2 DEF PathsExclusive
  <1>10. ASSUME careful', NEW e \in Databases \ failed', db'[e] # NULL
         PROVE  AttachedOne(e)'
    <2>1. careful /\ d \notin failed /\ failed' = failed
      BY <1>2, <1>10
    <2>2. \A g \in Databases \ failed : g # d /\ db[g] # NULL => db[g] # c
      <3> SUFFICES ASSUME NEW g \in Databases \ failed, g # d, db[g] # NULL PROVE db[g] # c
        OBVIOUS
      <3>1. ClosedV2(old)[db[g]] = magic[db[g]] /\ AttachedOne(g)
        BY <2>1, OthersKept
      <3> QED
        BY <1>1, <3>1 DEF AttachedOne
    <2>3. CASE e = d
      <3>1. /\ db'[d] = c /\ filename'[d] = filename[d] /\ magic'[c] = "open" /\ node'[c] = n
            /\ dir'[filename[d]] = n /\ n # NULL /\ filename[d] # NULL
        BY <1>2, <1>4, <1>5
      <3>2. \A g \in Databases \ failed' : db'[g] = c => g = d
        BY <1>5, <2>1, <2>2
      <3> QED
        BY <2>3, <3>1, <3>2 DEF AttachedOne
    <2>4. CASE e # d
      <3>1. e \in Databases \ failed /\ db'[e] = db[e] /\ db[e] # NULL /\ db[e] # c
        BY <1>5, <1>10, <2>1, <2>2, <2>4
      <3>2. /\ AttachedOne(e) /\ db[e] \in Conns
            /\ ClosedV2(old)[db[e]] = magic[db[e]]
            /\ ClosedNode(old)[db[e]] = node[db[e]]
        BY <2>1, <2>4, <3>1, OthersKept
      <3>3. \A g \in Databases \ failed' : db'[g] = db[e] => g \notin failed /\ db[g] = db[e]
        BY <1>5, <2>1, <3>1
      <3> QED
        BY <1>2, <1>4, <3>1, <3>2, <3>3, StaysAttached
    <2> QED
      BY <2>3, <2>4
  <1>11. Attached'
    BY <1>10 DEF Attached, AttachedOne
  <1> QED
    BY <1>6, <1>7, <1>8, <1>9, <1>11 DEF Inv

(* Whatever makes export throw, the connection is closed all the same. *)
LEMMA ExportFailsInv ==
    ASSUME Inv, NEW d \in Databases, ExportFails(d)
    PROVE  Inv'
  <1> USE DatabaseAssumption
  <1> DEFINE c == db[d]
  <1>0. TypeOK /\ ConnectionsAccounted /\ Named /\ PathsExclusive /\ Attached
    BY DEF Inv
  <1>1. /\ c \in Conns \cup {NULL} /\ (c # NULL => magic[c] \in {"open", "sick"})
        /\ node' = ClosedNode(c)
        /\ failed' = IF c = NULL THEN failed ELSE failed \cup {d}
        /\ careful' = (careful /\ d \notin failed)
        /\ UNCHANGED <<filename, db, dir, deleted, pinned>>
    BY <1>0 DEF ExportFails, Closable, TypeOK, files
  <1>2. /\ ClosedV2(c) \in [Conns -> {"free", "open", "sick", "zombie"}]
        /\ ClosedNode(c) \in [Conns -> Nodes \cup {NULL}]
    BY <1>0, <1>1, ClosedType
  <1>3. /\ magic' \in [Conns -> {"free", "open", "sick", "zombie"}]
        /\ \A e \in Conns : \/ magic'[e] = ClosedV2(c)[e]
                            \/ ClosedV2(c)[e] = "free" /\ magic'[e] = "sick"
    <2>1. CASE magic' = ClosedV2(c)
      BY <1>2, <2>1
    <2>2. CASE magic' \in FailedOpen(ClosedV2(c))
      BY <1>2, <2>2, FailedOpenIs
    <2> QED
      BY <2>1, <2>2 DEF ExportFails
  <1>4. TypeOK'
    BY <1>0, <1>1, <1>2, <1>3 DEF TypeOK
  <1>5. ConnectionsAccounted'
    <2> SUFFICES ASSUME NEW e \in Conns
                 PROVE  /\ magic'[e] = "open" => \E g \in Databases \ failed' : db'[g] = e
                        /\ magic'[e] = "zombie" => e \in pinned'
                        /\ e \in pinned' => magic'[e] \in {"open", "zombie"}
                        /\ node'[e] # NULL <=> magic'[e] \in {"open", "zombie"}
      BY DEF ConnectionsAccounted
    <2>1. CASE e = c
      BY <1>0, <1>1, <1>3, <2>1 DEF ClosedV2, ClosedNode, ConnectionsAccounted
    <2>2. CASE e # c
      <3>1. ClosedV2(c)[e] = magic[e] /\ node'[e] = node[e]
        BY <1>1, <2>2 DEF ClosedV2, ClosedNode
      <3>2. magic'[e] = "open" => \E g \in Databases \ failed' : db'[g] = e
        BY <1>0, <1>1, <1>3, <2>2, <3>1 DEF ConnectionsAccounted
      <3> QED
        BY <1>0, <1>1, <1>3, <3>1, <3>2 DEF ConnectionsAccounted
    <2> QED
      BY <2>1, <2>2
  <1>6. Named'
    BY <1>0, <1>1 DEF Named
  <1>7. PathsExclusive'
    BY <1>0, <1>1 DEF PathsExclusive
  <1>8. ASSUME careful', NEW e \in Databases \ failed', db'[e] # NULL
        PROVE  AttachedOne(e)'
    <2>1. careful /\ d \notin failed /\ e # d /\ e \in Databases \ failed /\ db[e] # NULL
      BY <1>1, <1>8
    <2>2. /\ AttachedOne(e) /\ db[e] \in Conns
          /\ ClosedV2(c)[db[e]] = magic[db[e]]
          /\ ClosedNode(c)[db[e]] = node[db[e]]
      BY <2>1, OthersKept
    <2>3. magic'[db[e]] = magic[db[e]]
      BY <1>3, <2>2 DEF AttachedOne
    <2>4. \A g \in Databases \ failed' : db'[g] = db[e] => g \notin failed /\ db[g] = db[e]
      BY <1>1
    <2> QED
      BY <1>1, <2>1, <2>2, <2>3, <2>4, StaysAttached
  <1>9. Attached'
    BY <1>8 DEF Attached, AttachedOne
  <1> QED
    BY <1>4, <1>5, <1>6, <1>7, <1>9 DEF Inv

LEMMA DropInv ==
    ASSUME Inv, NEW d \in Databases, Drop(d)
    PROVE  Inv'
  <1> USE DatabaseAssumption
  <1>0. TypeOK /\ ConnectionsAccounted /\ Named /\ PathsExclusive /\ Attached
    BY DEF Inv
  <1>1. /\ UNCHANGED <<dir, deleted, magic, node, pinned, careful>>
        /\ db[d] = NULL \/ d \in failed
        /\ failed' = failed \ {d}
        /\ \A e \in Databases : /\ filename'[e] = IF e = d THEN NULL ELSE filename[e]
                                /\ db'[e] = IF e = d THEN NULL ELSE db[e]
    BY <1>0 DEF Drop, files, conns, TypeOK
  <1>2. TypeOK'
    BY <1>0, <1>1 DEF Drop, TypeOK
  <1>3. ConnectionsAccounted'
    <2>1. \A c \in Conns : magic[c] = "open" => \E g \in Databases \ failed' : db'[g] = c
      BY <1>0, <1>1 DEF ConnectionsAccounted
    <2> QED
      BY <1>0, <1>1, <2>1 DEF ConnectionsAccounted
  <1>4. Named' /\ PathsExclusive'
    BY <1>0, <1>1 DEF Named, PathsExclusive
  <1>5. ASSUME careful', NEW e \in Databases \ failed', db'[e] # NULL
        PROVE  AttachedOne(e)'
    <2>1. careful /\ e # d /\ e \in Databases \ failed /\ db'[e] = db[e] /\ db[e] # NULL
      BY <1>1, <1>5
    <2>2. AttachedOne(e)
      BY <1>0, <2>1, AttachedAll
    <2>3. \A g \in Databases \ failed' : db'[g] = db[e] => g \notin failed /\ db[g] = db[e]
      BY <1>1, <2>1
    <2> QED
      BY <1>1, <2>1, <2>2, <2>3, StaysAttached
  <1>6. Attached'
    BY <1>5 DEF Attached, AttachedOne
  <1> QED
    BY <1>2, <1>3, <1>4, <1>6 DEF Inv

LEMMA StatementInv ==
    ASSUME Inv,
           \/ \E d \in Databases : Pin(d)
           \/ \E c \in Conns : Unpin(c)
    PROVE  Inv'
  <1> USE DatabaseAssumption
  <1>0. TypeOK /\ ConnectionsAccounted /\ Named /\ PathsExclusive /\ Attached
    BY DEF Inv
  <1>1. CASE \E d \in Databases : Pin(d)
    BY <1>0, <1>1 DEF Pin, handles, files, Inv, TypeOK, ConnectionsAccounted, Named,
                      PathsExclusive, Attached
  <1>2. CASE \E c \in Conns : Unpin(c)
    <2>1. PICK c \in Conns : Unpin(c)
      BY <1>2
    <2>2. UNCHANGED <<filename, db, failed, dir, deleted, careful>>
      BY <2>1 DEF Unpin, handles, files
    <2>3. \A e \in Conns :
             /\ magic'[e] = IF e = c /\ magic[c] = "zombie" THEN "free" ELSE magic[e]
             /\ node'[e] = IF e = c /\ magic[c] = "zombie" THEN NULL ELSE node[e]
      BY <1>0, <2>1 DEF Unpin, TypeOK
    <2>4. TypeOK'
      BY <1>0, <2>1, <2>2 DEF Unpin, TypeOK
    <2>5. ConnectionsAccounted'
      BY <1>0, <2>1, <2>2, <2>3 DEF Unpin, ConnectionsAccounted
    <2>6. Named' /\ PathsExclusive'
      BY <1>0, <2>2 DEF Named, PathsExclusive
    <2>7. ASSUME careful', NEW e \in Databases \ failed', db'[e] # NULL
          PROVE  AttachedOne(e)'
      <3>1. careful /\ e \in Databases \ failed /\ db[e] # NULL /\ db[e] \in Conns
        BY <1>0, <2>2, <2>7 DEF TypeOK
      <3>2. AttachedOne(e)
        BY <1>0, <3>1, AttachedAll
      <3>3. magic'[db[e]] = magic[db[e]] /\ node'[db[e]] = node[db[e]]
        BY <2>3, <3>1, <3>2 DEF AttachedOne
      <3> QED
        BY <2>2, <3>1, <3>2, <3>3, StaysAttached
    <2>8. Attached'
      BY <2>7 DEF Attached, AttachedOne
    <2> QED
      BY <2>4, <2>5, <2>6, <2>8 DEF Inv
  <1> QED
    BY <1>1, <1>2

LEMMA NextInv == Inv /\ [Next]_vars => Inv'
  <1> SUFFICES ASSUME Inv, [Next]_vars PROVE Inv'
    OBVIOUS
  <1>1. CASE UNCHANGED vars
    BY <1>1 DEF vars, handles, files, conns, Inv, TypeOK, ConnectionsAccounted, Named,
                PathsExclusive, Attached
  <1>2. CASE Next
    BY <1>2, ConstructInv, ConstructFailsInv, CloseInv, ExportInv, ExportFailsInv,
       DropInv, DeletedOutsideInv, StatementInv DEF Next
  <1> QED
    BY <1>1, <1>2

LEMMA Invariance == Spec => []Inv
  BY InitInv, NextInv, PTL DEF Spec

(* The state of databases, connections and files keeps its types. *)
THEOREM DatabaseTypes == Spec => []TypeOK
  <1>1. Inv => TypeOK
    BY DEF Inv
  <1> QED
    BY <1>1, Invariance, PTL

(* Whatever throws, every connection is the handle of a database, held by  *)
(* a statement, or the remains of an open that failed.                     *)
THEOREM NoConnectionLost == Spec => []ConnectionsAccounted
  <1>1. Inv => ConnectionsAccounted
    BY DEF Inv
  <1> QED
    BY <1>1, Invariance, PTL

(* A program that makes one Database object at a time of each path, and    *)
(* closes and exports none again after that threw, has no other database   *)
(* with a dangling handle, a shared one, or one whose file is not its own. *)
THEOREM CarefulIsAttached == Spec => []Attached
  <1>1. Inv => Attached
    BY DEF Inv
  <1> QED
    BY <1>1, Invariance, PTL
=============================================================================
