--------------------------- MODULE AtomicCommit ---------------------------
(* What a database file promises to the connections that use it: a read     *)
(* transaction sees one content of the database to its end, one connection  *)
(* at a time changes its own copy, and a commit replaces the content in a   *)
(* single step while nobody else is reading.  A crash loses the copies and  *)
(* leaves the content.                                                      *)

CONSTANTS Conn, Content, NoView

VARIABLES
  db,    \* the committed content
  view   \* what each connection sees, NoView outside its transactions

abstractVars == <<db, view>>

Init ==
  /\ db \in Content
  /\ view = [c \in Conn |-> NoView]

Begin(c) ==
  /\ view[c] = NoView
  /\ UNCHANGED db
  /\ view' = [view EXCEPT ![c] = db]

Change(c) ==
  /\ view[c] # NoView
  /\ \A d \in Conn \ {c} : view[d] \in {NoView, db}
  /\ UNCHANGED db
  /\ view'[c] \in Content
  /\ view' = [view EXCEPT ![c] = view'[c]]

Commit(c) ==
  /\ view[c] # NoView
  /\ \A d \in Conn \ {c} : view[d] = NoView
  /\ db' = view[c]
  /\ UNCHANGED view

End(c) ==
  /\ view' = [view EXCEPT ![c] = NoView]
  /\ UNCHANGED db

Crash ==
  /\ view' = [c \in Conn |-> NoView]
  /\ UNCHANGED db

Next ==
  \/ \E c \in Conn : Begin(c) \/ Change(c) \/ Commit(c) \/ End(c)
  \/ Crash

Spec == Init /\ [][Next]_abstractVars
===========================================================================
