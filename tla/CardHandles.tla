---------------------------- MODULE CardHandles ----------------------------
(***************************************************************************)
(* What the card handles promise an application: a handle given out is not *)
(* the handle of another open session, and every call on it reaches the    *)
(* card the session was opened for until the session is closed.            *)
(***************************************************************************)
CONSTANTS
  StaticReaders,   \* readers that are always virtual
  PhysReaders      \* readers that never are

VARIABLES
  open,   \* the open sessions: handle, context, reader, and who has the card
  last    \* the last call: the handle it was made on (none when the call named a
          \* reader instead), the reader it reached, and on which side

vars == <<open, last>>

Init ==
  /\ open = {}
  /\ last = [on |-> {}, reader |-> "", side |-> "original"]

Open(s) ==
  /\ \A u \in open : u.h # s.h
  /\ open' = open \cup {s}

Close == open' \subseteq open

\* A call on a handle: that of an open session, whose card it reaches.
Call(s) ==
  /\ s \in open
  /\ last' = [on |-> {s.h}, reader |-> s.reader, side |-> s.side]

\* A call that names a reader, and no handle.  A static reader is asked for at the
\* proxy, a physical one at the original library; one that only the proxy announces
\* is asked for at either, as it is announced at the time or not.
Ask ==
  /\ last'.on = {}
  /\ last'.reader \in StaticReaders => last'.side = "proxy"
  /\ last'.reader \in PhysReaders => last'.side = "original"

Next ==
  /\ \/ UNCHANGED open
     \/ Close
     \/ \E s \in open' : Open(s)
  /\ \/ UNCHANGED last
     \/ Ask
     \/ \E s \in open : Call(s)

Spec == Init /\ [][Next]_vars
=============================================================================
