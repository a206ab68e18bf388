--------------------------- MODULE MCTelegramBridge --------------------------
(* Instances of TelegramBridge for TLC: its settings.                      *)
EXTENDS TelegramBridge, TLC

CONSTANTS t1, t2, c1, c2

\* Every session in one chat.
OneChat == [t \in Task |-> CHOOSE h \in Chat : TRUE]

Everything == {"close", "message", "chat", "start", "delete"}

\* One operation at a time on a task of the console: two visits, an unusable
\* context, a restart.
Serial ==
  [reached |-> {t1}, clients |-> {c1, c2}, operations |-> Everything,
   parking |-> {t1}, keyed |-> {t1}, telegram |-> {},
   overlap |-> FALSE, parkedFirst |-> FALSE, contextFails |-> TRUE,
   visits |-> 2, turns |-> 3, restarts |-> 1,
   kinds |-> {"text"}, page |-> 1, updates |-> 0, cursorFails |-> FALSE]

\* Overlapping operations on a task closed after its parked run has ended.
Outcome ==
  [Serial EXCEPT !.overlap = TRUE, !.parkedFirst = TRUE, !.contextFails = FALSE,
                 !.visits = 1, !.turns = 1, !.restarts = 0]

\* Two sessions in one chat, and polls that return one update.
Shared ==
  [Outcome EXCEPT !.reached = {t1, t2}, !.clients = {c1}, !.operations = {"close", "delete"},
                  !.parking = {}, !.keyed = {}, !.telegram = {t1, t2},
                  !.overlap = FALSE, !.parkedFirst = FALSE, !.updates = 2]

\* One session that parks its run, every kind of message, failing cursor writes and a restart.
Serves ==
  [Shared EXCEPT !.reached = {t1}, !.operations = {"close"}, !.telegram = {t1},
                 !.parking = {t1}, !.restarts = 1, !.kinds = {"text", "done", "photo"}, !.page = 2,
                 !.cursorFails = TRUE]

\* One session that parks its run, closed by nobody but the person in the chat.
Twice ==
  [Serves EXCEPT !.clients = {}, !.restarts = 0, !.kinds = {"done"},
                 !.cursorFails = FALSE]

People == {Serial, Outcome, Shared, Serves}
\* Those in which something is owed to a run or to a session.
Owing == {Outcome, Serves}
DoneTwice == {Twice}
=============================================================================
