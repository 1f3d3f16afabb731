--------------------------- MODULE MCRemoteProxy ---------------------------
(* RemoteProxy for TLC. *)
EXTENDS RemoteProxy

Mode(perCommand, concurrent, maxID) ==
  [perCommand |-> perCommand, concurrent |-> concurrent, maxID |-> maxID]

\* Both socket modes, one call at a time.
MCSerial == {Mode(FALSE, FALSE, 6), Mode(TRUE, FALSE, 6)}

\* Overlapping calls on a persistent connection.
MCOverlapping == {Mode(FALSE, TRUE, 6)}

MCPerCommand == {Mode(TRUE, FALSE, 6)}
=============================================================================
