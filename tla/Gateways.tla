------------------------------- MODULE Gateways -------------------------------
(***************************************************************************)
(* The OpenConnector connections: the connect_connections table, the       *)
(* several statements in which a save, a delete or a change of default     *)
(* moves the default flag, and the two proxies and the Telegram bridge     *)
(* that choose a connection and a token from it.                           *)
(*                                                                         *)
(* An action is one statement with the local work up to the next.  Tokens  *)
(* are members of a small set, "" the blank one.                           *)
(***************************************************************************)
EXTENDS Naturals, FiniteSets

CONSTANTS
  Conn,      \* ids of connections
  Kept,      \* those whose row may be there when the program starts
  Token,     \* what a save may carry as a token; "" is among them
  Callers,   \* goroutines that serve the connect endpoints
  Asks,      \* what a proxied call may name: connection, surface, slash
  Crowds,    \* may two operations overlap?  the settings to check
  MaxSaves,  \* bound on operations begun
  MaxBreaks  \* bound on operations cut short by a failure or a crash

ASSUME GatewaysOK ==
  /\ IsFiniteSet(Conn)
  /\ Kept \subseteq Conn
  /\ "" \in Token
  /\ Crowds \subseteq BOOLEAN
  /\ MaxSaves \in Nat /\ MaxBreaks \in Nat

VARIABLES
  crowd,     \* do operations overlap?
  conns,     \* connect_connections, by id
  drawn,     \* ids in use, or used before: an id is drawn once
  saving,    \* the operation each caller is in
  saves,     \* operations begun: the clock their updated_at is read from
  breaks,    \* operations cut short
  secrets,   \* history: the last token that was not blank, by id and kind
  turnedOff  \* history: a save has taken the flag from the default

gvars == <<crowd, conns, drawn, saving, saves, breaks, secrets, turnedOff>>

NoConn == [there |-> FALSE, token |-> "", admin |-> "", default |-> FALSE, at |-> 0]
NoSave == [pc |-> "idle", id |-> "none", row |-> NoConn, total |-> 0, next |-> "idle"]
NoSecrets == [token |-> "", admin |-> ""]

There == {i \in Conn : conns[i].there}
Defaults == {i \in There : conns[i].default}
Waiting(c) == saving[c].pc = "idle"
AtRest == \A c \in Callers : Waiting(c)

GInit ==
  /\ crowd \in Crowds
  /\ \E rows \in SUBSET Kept, first \in Kept :
       conns = [i \in Conn |->
                  IF i \in rows THEN [NoConn EXCEPT !.there = TRUE, !.default = (i = first)]
                  ELSE NoConn]
  /\ There # {} => Defaults # {}
  /\ drawn = Kept
  /\ saving = [c \in Callers |-> NoSave]
  /\ saves = 0
  /\ breaks = 0
  /\ secrets = [i \in Conn |-> NoSecrets]
  /\ turnedOff = FALSE

Begins(c, call) ==
  /\ crowd \/ AtRest
  /\ Waiting(c)
  /\ saves < MaxSaves
  /\ saves' = saves + 1
  /\ saving' = [saving EXCEPT ![c] = call]

Steps(c, pc) == saving' = [saving EXCEPT ![c].pc = pc]
Ends(c) == saving' = [saving EXCEPT ![c] = NoSave]

\* The rest of a save: a connection saved as the default demotes the others.
ClearsFirst(row) == IF row.default THEN "clear" ELSE "write"

-----------------------------------------------------------------------------
(* Saving                                                                  *)

Keeping(new, old) == IF new = "" THEN old ELSE new
KeepsOne(body, old) ==
  [body EXCEPT !.token = Keeping(@, old.token), !.admin = @]
\* A blank token keeps the stored one, each of the two by itself.
Merged(body, old) ==
  [body EXCEPT !.token = Keeping(@, old.token), !.admin = Keeping(@, old.admin)]

\* The first connection is the default.
FirstIsDefault(body, total) == [body EXCEPT !.default = @ \/ total = 0]

\* A save without an id: the rows are counted, an id is drawn.
BeginCreate(c, i, body) ==
  LET row == FirstIsDefault([body EXCEPT !.at = saves], Cardinality(There))
  IN /\ i \notin drawn
     /\ drawn' = drawn \cup {i}
     /\ Begins(c, [NoSave EXCEPT !.pc = ClearsFirst(row), !.id = i, !.row = row,
                                 !.next = "write"])
     /\ UNCHANGED <<crowd, conns, breaks, secrets, turnedOff>>

\* A save with an id, of a row that may be gone: the rows are counted.
BeginUpdate(c, i, body) ==
  /\ i \in drawn
  /\ Begins(c, [NoSave EXCEPT !.pc = "read", !.id = i, !.row = [body EXCEPT !.at = saves],
                              !.total = Cardinality(There), !.next = "write"])
  /\ UNCHANGED <<crowd, conns, drawn, breaks, secrets, turnedOff>>

ReadExisting(c) ==
  LET call == saving[c]
      row == IF conns[call.id].there THEN Merged(call.row, conns[call.id])
             ELSE FirstIsDefault(call.row, call.total)
  IN /\ call.pc = "read"
     /\ saving' = [saving EXCEPT ![c].row = row, ![c].pc = ClearsFirst(row)]
     /\ UNCHANGED <<crowd, conns, drawn, saves, breaks, secrets, turnedOff>>

Demoted == [i \in Conn |-> [conns[i] EXCEPT !.default = FALSE]]

Clear(c) ==
  /\ saving[c].pc = "clear"
  /\ conns' = Demoted
  /\ Steps(c, saving[c].next)
  /\ UNCHANGED <<crowd, drawn, saves, breaks, secrets, turnedOff>>

Write(c) ==
  LET call == saving[c]
      i == call.id
  IN /\ call.pc = "write"
     /\ conns' = [conns EXCEPT ![i] = [call.row EXCEPT !.there = TRUE]]
     /\ secrets' = [secrets EXCEPT ![i] =
          [token |-> Keeping(call.row.token, @.token),
           admin |-> Keeping(call.row.admin, @.admin)]]
     /\ turnedOff' = (turnedOff \/ (conns[i].default /\ ~call.row.default))
     /\ Ends(c)
     /\ UNCHANGED <<crowd, drawn, saves, breaks>>

-----------------------------------------------------------------------------
(* Deleting and changing the default                                       *)

BeginDeleteGateway(c, i) ==
  /\ i \in There
  /\ Begins(c, [NoSave EXCEPT !.pc = "delete", !.id = i, !.row = conns[i]])
  /\ UNCHANGED <<crowd, conns, drawn, breaks, secrets, turnedOff>>

\* The flag as it was read decides whether another row is promoted.
DeleteGatewayRow(c) ==
  LET call == saving[c]
      i == call.id
  IN /\ call.pc = "delete"
     /\ conns' = [conns EXCEPT ![i] = NoConn]
     /\ secrets' = [secrets EXCEPT ![i] = NoSecrets]
     /\ IF i \in There /\ call.row.default THEN Steps(c, "list") ELSE Ends(c)
     /\ UNCHANGED <<crowd, drawn, saves, breaks, turnedOff>>

\* Default first, then the newest; equal times in either order here.
Lists(i) ==
  /\ i \in There
  /\ \A j \in There : \/ conns[i].default /\ ~conns[j].default
                      \/ /\ conns[i].default = conns[j].default
                         /\ conns[i].at >= conns[j].at

Promote(c) ==
  /\ saving[c].pc = "list"
  /\ IF There = {} THEN Ends(c)
     ELSE \E i \in Conn :
            /\ Lists(i)
            /\ saving' = [saving EXCEPT ![c] = [NoSave EXCEPT !.pc = "clear", !.id = i,
                                                             !.next = "set"]]
  /\ UNCHANGED <<crowd, conns, drawn, saves, breaks, secrets, turnedOff>>

BeginSetDefault(c, i) ==
  /\ i \in There
  /\ Begins(c, [NoSave EXCEPT !.pc = "clear", !.id = i, !.next = "set"])
  /\ UNCHANGED <<crowd, conns, drawn, breaks, secrets, turnedOff>>

\* No row with the id: not found, and the flag stays cleared.
Set(c) ==
  LET i == saving[c].id
  IN /\ saving[c].pc = "set"
     /\ conns' = IF i \in There
                   THEN [conns EXCEPT ![i].default = TRUE, ![i].at = saves]
                   ELSE conns
     /\ Ends(c)
     /\ UNCHANGED <<crowd, drawn, saves, breaks, secrets, turnedOff>>

\* A statement fails, or the process stops: what was done stays done.
Break(c) ==
  /\ ~Waiting(c)
  /\ breaks < MaxBreaks
  /\ breaks' = breaks + 1
  /\ Ends(c)
  /\ UNCHANGED <<crowd, conns, drawn, saves, secrets, turnedOff>>

-----------------------------------------------------------------------------
(* Choosing a connection and a token                                       *)

\* Error names: nobody is called.
Missing == [to |-> "nobody", token |-> "not found"]
NoToken == [to |-> "nobody", token |-> "no token"]

\* The row of the id, or the default.
Resolved(id) ==
  IF id = "" THEN IF Defaults = {} THEN {Missing.to} ELSE {i \in Defaults : Lists(i)}
  ELSE IF id \in There THEN {id} ELSE {Missing.to}

\* The management surface takes the admin token where one is stored.
TokenForPath(conn, surface) ==
  IF surface = "management" /\ conn.admin # "" THEN conn.admin ELSE conn.token
TokenForOCPath(conn, surface) ==
  IF surface = "management" /\ conn.admin # "" THEN conn.admin ELSE conn.token

Called(ids, tokens) ==
  {IF i = Missing.to THEN Missing
   ELSE IF tokens[i] = "" THEN NoToken
   ELSE [to |-> i, token |-> tokens[i]] : i \in ids}

\* An ask names a connection, padded with blanks or not, and a path, with its
\* first slash or without.  The web trims the one and completes the other.
ProxyHTTP(ask) ==
  Called(Resolved(ask.id), [i \in There |-> TokenForPath(conns[i], ask.surface)])

\* The NATS proxy reads the id and the path as they are: a padded id is
\* nobody's and a path without a slash is on no surface.
ProxyNATS(ask) ==
  Called(Resolved(IF ask.padded /\ ask.id # "" THEN "padded" ELSE ask.id),
         [i \in There |-> TokenForOCPath(conns[i],
                            IF ask.slash THEN ask.surface ELSE "other")])

-----------------------------------------------------------------------------
GNext ==
  \/ \E c \in Callers, i \in Conn, token \in Token, admin \in Token, d \in BOOLEAN :
       LET body == [NoConn EXCEPT !.token = token, !.admin = admin, !.default = d]
       IN BeginCreate(c, i, body) \/ BeginUpdate(c, i, body)
  \/ \E c \in Callers, i \in Conn : BeginDeleteGateway(c, i) \/ BeginSetDefault(c, i)
  \/ \E c \in Callers : \/ ReadExisting(c) \/ Clear(c) \/ Write(c)
                        \/ DeleteGatewayRow(c) \/ Promote(c) \/ Set(c) \/ Break(c)

GSpec == GInit /\ [][GNext]_gvars

-----------------------------------------------------------------------------
GTypeOK ==
  /\ conns \in [Conn -> [there : BOOLEAN, token : Token, admin : Token,
                         default : BOOLEAN, at : 0..MaxSaves]]
  /\ \A i \in Conn : ~conns[i].there => conns[i] = NoConn
  /\ \A c \in Callers :
       /\ saving[c].pc \in {"idle", "read", "clear", "write", "delete", "list", "set"}
       /\ saving[c].id \in Conn \cup {"none"}
       /\ saving[c].next \in {"idle", "write", "set"}
  /\ There \subseteq drawn
  /\ saves \in 0..MaxSaves
  /\ breaks \in 0..MaxBreaks
  /\ secrets \in [Conn -> [token : Token, admin : Token]]

\* Operations that do not overlap leave at most one default, and none only
\* when a save took the flag off the default or an operation was cut short.
DefaultMoves ==
  ~crowd /\ AtRest =>
    /\ Cardinality(Defaults) <= 1
    /\ There # {} /\ ~turnedOff /\ breaks = 0 => Defaults # {}

\* A save never loses a stored token: each connection has, of either kind,
\* the last one anybody gave it, whatever blank saves came in between.
SecretsKept ==
  ~crowd /\ breaks = 0 =>
    \A i \in There : secrets[i] = [token |-> conns[i].token, admin |-> conns[i].admin]

\* A plugin's call by way of NATS reaches the same gateway with the same
\* token as the same call by way of the web, as long as the call names its
\* connection and its path the way the proxies write them.
TwinsAgree ==
  \A ask \in Asks : ~ask.padded /\ ask.slash => ProxyHTTP(ask) = ProxyNATS(ask)
=============================================================================
