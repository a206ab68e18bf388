-------------------------- MODULE SavedRowsProofs ---------------------------
(***************************************************************************)
(* Theorems about two tables whose rows operations read and write back:    *)
(* the connections', for any number of connections, tokens, callers and    *)
(* operations, cut short anywhere; and the workflows', for any number of   *)
(* flows, graphs, labels and editors, with and without races.              *)
(***************************************************************************)
EXTENDS Gateways, Workflows, FiniteSetTheorems, TLAPS

-----------------------------------------------------------------------------
(* Connections                                                             *)

ConnRows == [there : BOOLEAN, token : Token, admin : Token, default : BOOLEAN, at : 0..MaxSaves]
SaveCalls == [pc : {"idle", "read", "clear", "write", "delete", "list", "set"},
              id : Conn \cup {"none"}, row : ConnRows, total : Nat, next : {"idle", "write", "set"}]

GatewayTypes ==
  /\ crowd \in BOOLEAN /\ turnedOff \in BOOLEAN
  /\ conns \in [Conn -> ConnRows]
  /\ \A i \in Conn : ~conns[i].there => conns[i] = NoConn
  /\ There \subseteq drawn
  /\ saving \in [Callers -> SaveCalls]
  /\ \A c \in Callers : ~Waiting(c) => saving[c].id \in Conn /\ saving[c].id \in drawn
  /\ \A c \in Callers : saving[c].pc = "read" => saving[c].next = "write"
  /\ saves \in 0..MaxSaves
  /\ breaks \in 0..MaxBreaks
  /\ secrets \in [Conn -> [token : Token, admin : Token]]

\* Where operations do not overlap, one at most is under way.
OneAtATime == ~crowd => \A c, o \in Callers : Waiting(c) \/ Waiting(o) \/ c = o

\* The operation has cleared the flag everywhere and has yet to set it.
Cleared(call) == call.pc \in {"list", "set"} \/ (call.pc = "write" /\ call.row.default)
\* It has that to do, or is about to.
SetsFlag(call) == Cleared(call) \/ call.pc = "clear"

\* There are never two defaults, and none between the clear and the set.
OneDefault ==
  ~crowd => /\ \A i, j \in Defaults : i = j
            /\ \A c \in Callers : Cleared(saving[c]) => Defaults = {}

\* Where nothing broke and nobody turned it off, the flag is missing only
\* while an operation is going to set it again.
SomeDefault ==
  ~crowd /\ breaks = 0 /\ ~turnedOff =>
    There = {} \/ Defaults # {} \/ \E c \in Callers : SetsFlag(saving[c])

\* What an operation has read is still so.
StillSo(call) ==
  /\ call.pc = "read" => call.total = Cardinality(There)
  /\ call.pc = "delete" => call.id \in There /\ call.row = conns[call.id]
  /\ call.pc = "clear" => \/ call.next = "write" /\ call.row.default
                          \/ call.next = "set" /\ call.id \in There
  /\ call.pc = "set" => call.id \in There
  /\ call.pc = "write" /\ ~call.row.default => There # {}

\* What it is about to write has the secrets it does not change.
Spares(call) ==
  call.pc = "write" \/ (call.pc = "clear" /\ call.next = "write") =>
    /\ call.row.token = "" => conns[call.id].token = ""
    /\ call.row.admin = "" => conns[call.id].admin = ""

OthersIntact == ~crowd => \A c \in Callers : StillSo(saving[c]) /\ Spares(saving[c])

\* Every row has the secrets it was last given.
SecretsStay ==
  ~crowd => \A i \in Conn : /\ secrets[i].token = conns[i].token
                            /\ secrets[i].admin = conns[i].admin

GatewaysInv ==
  GatewayTypes /\ OneAtATime /\ OneDefault /\ SomeDefault /\ OthersIntact /\ SecretsStay

-----------------------------------------------------------------------------
\* The row that is not there, and the operation nobody is in.
LEMMA BlankRow ==
  /\ NoConn \in ConnRows /\ NoConn.there = FALSE /\ NoConn.default = FALSE
  /\ NoConn.token = "" /\ NoConn.admin = "" /\ NoConn.at = 0
<1>1. 0 \in 0..MaxSaves
  <2>1. MaxSaves \in Nat BY GatewaysOK DEF GatewaysOK
  <2> QED BY <2>1
<1>2. "" \in Token BY GatewaysOK DEF GatewaysOK
<1> QED BY <1>1, <1>2 DEF NoConn, ConnRows

LEMMA BlankCall ==
  /\ NoSave \in SaveCalls /\ NoSave.pc = "idle" /\ NoSave.id = "none"
  /\ NoSave.row = NoConn /\ NoSave.next = "idle" /\ NoSave.total = 0
  BY BlankRow DEF NoSave, SaveCalls

\* A row that is not there has no secrets.
LEMMA GoneIsBlank ==
  ASSUME GatewaysInv, NEW i \in Conn, ~conns[i].there
  PROVE  conns[i].token = "" /\ conns[i].admin = "" /\ conns[i].default = FALSE
  BY BlankRow DEF GatewaysInv, GatewayTypes

\* The rows there are at the start have no secrets, and one is the default.
LEMMA GatewaysInitial == GInit => GatewaysInv
<1> SUFFICES ASSUME GInit PROVE GatewaysInv
  OBVIOUS
<1>1. PICK rows \in SUBSET Kept, first \in Kept :
        conns = [i \in Conn |-> IF i \in rows THEN [NoConn EXCEPT !.there = TRUE, !.default = (i = first)]
                                ELSE NoConn]
  BY DEF GInit
<1>2. /\ NoConn \in ConnRows /\ NoConn.there = FALSE /\ NoConn.default = FALSE
      /\ NoConn.token = "" /\ NoConn.admin = ""
  BY BlankRow
<1>3. ASSUME NEW i \in Conn
      PROVE  /\ conns[i] \in ConnRows /\ conns[i].token = "" /\ conns[i].admin = ""
             /\ conns[i].there <=> i \in rows
             /\ conns[i].there => (conns[i].default <=> i = first)
             /\ ~conns[i].there => conns[i] = NoConn
  <2>1. CASE i \in rows
    <3> DEFINE row == [NoConn EXCEPT !.there = TRUE, !.default = (i = first)]
    <3>1. conns[i] = row BY <1>1, <2>1
    <3>2. /\ row \in ConnRows /\ row.token = "" /\ row.admin = ""
          /\ row.there = TRUE /\ row.default = (i = first)
      BY <1>2 DEF ConnRows
    <3> QED BY <2>1, <3>1, <3>2
  <2>2. CASE i \notin rows BY <1>1, <1>2, <2>2
  <2> QED BY <2>1, <2>2
<1>4. /\ crowd \in BOOLEAN /\ turnedOff = FALSE /\ saves = 0 /\ breaks = 0 /\ drawn = Kept
      /\ saving = [c \in Callers |-> NoSave]
      /\ secrets = [i \in Conn |-> NoSecrets]
      /\ There # {} => Defaults # {}
  <2>1. crowd \in BOOLEAN BY GatewaysOK, Zenon DEF GInit, GatewaysOK
  <2> QED BY <2>1 DEF GInit
<1>5. NoSave \in SaveCalls /\ NoSave.pc = "idle"
  BY BlankCall
<1>6. conns \in [Conn -> ConnRows] BY <1>1, <1>3
<1>7. GatewayTypes
  <2>1. saving \in [Callers -> SaveCalls] /\ \A c \in Callers : Waiting(c)
    BY <1>4, <1>5 DEF Waiting
  <2>2. There \subseteq drawn BY <1>3, <1>4 DEF There
  <2>3. secrets \in [Conn -> [token : Token, admin : Token]]
    <3>1. "" \in Token BY GatewaysOK DEF GatewaysOK
    <3> QED BY <1>4, <3>1 DEF NoSecrets
  <2>4. saves \in 0..MaxSaves /\ breaks \in 0..MaxBreaks
    <3>1. MaxSaves \in Nat /\ MaxBreaks \in Nat BY GatewaysOK DEF GatewaysOK
    <3> QED BY <1>4, <3>1
  <2>5. \A c \in Callers : saving[c].pc = "idle" BY <2>1 DEF Waiting
  <2> QED BY <1>3, <1>4, <1>6, <2>1, <2>2, <2>3, <2>4, <2>5 DEF GatewayTypes
<1>8. \A c \in Callers : saving[c] = NoSave BY <1>4
<1>9. OneAtATime /\ OthersIntact
  BY <1>5, <1>8 DEF OneAtATime, OthersIntact, Waiting, StillSo, Spares
<1>10. OneDefault
  BY <1>3, <1>5, <1>8 DEF OneDefault, Defaults, There, Cleared
<1>11. SomeDefault BY <1>4 DEF SomeDefault
<1>12. SecretsStay BY <1>3, <1>4 DEF SecretsStay, NoSecrets
<1> QED BY <1>7, <1>9, <1>10, <1>11, <1>12 DEF GatewaysInv

-----------------------------------------------------------------------------
\* A step that only moves one caller's operation keeps the invariant if the
\* operation, as it is then, fits the table.
LEMMA CallStep ==
  ASSUME GatewaysInv, NEW c \in Callers, NEW call \in SaveCalls,
         UNCHANGED <<crowd, conns, secrets, turnedOff>>,
         saving' = [saving EXCEPT ![c] = call],
         drawn \subseteq drawn', saves' \in 0..MaxSaves, breaks' \in 0..MaxBreaks,
         breaks' = 0 => breaks = 0,
         call.pc = "read" => call.next = "write",
         call.pc # "idle" => call.id \in Conn /\ call.id \in drawn',
         ~crowd => /\ \A o \in Callers : o # c => Waiting(o)
                   /\ Cleared(call) => Defaults = {}
                   /\ breaks' = 0 /\ ~turnedOff =>
                        There = {} \/ Defaults # {} \/ SetsFlag(call)
                   /\ StillSo(call) /\ Spares(call)
  PROVE  GatewaysInv'
<1>1. /\ saving' \in [Callers -> SaveCalls] /\ saving'[c] = call
      /\ \A o \in Callers : o # c => saving'[o] = saving[o]
  BY DEF GatewaysInv, GatewayTypes
<1>2. There' = There /\ Defaults' = Defaults
  BY DEF There, Defaults
<1>3. GatewayTypes'
  BY <1>1, <1>2 DEF GatewaysInv, GatewayTypes, Waiting
<1>4. ~crowd => \A o \in Callers : o # c => saving'[o].pc = "idle"
  BY <1>1 DEF Waiting
<1>5. OneAtATime' BY <1>4 DEF OneAtATime, Waiting
<1>6. OneDefault' BY <1>1, <1>2, <1>4 DEF GatewaysInv, OneDefault, Cleared
<1>7. SomeDefault' BY <1>1, <1>2 DEF SomeDefault
<1>8. OthersIntact'
  <2> SUFFICES ASSUME ~crowd, NEW o \in Callers
               PROVE  StillSo(saving[o])' /\ Spares(saving[o])'
    BY DEF OthersIntact
  <2>1. CASE o = c
    <3>1. StillSo(saving[o])' <=> StillSo(call) BY <1>1, <1>2, <2>1 DEF StillSo
    <3>2. Spares(saving[o])' <=> Spares(call) BY <1>1, <2>1 DEF Spares
    <3> QED BY <3>1, <3>2
  <2>2. CASE o # c BY <1>4, <2>2 DEF StillSo, Spares
  <2> QED BY <2>1, <2>2
<1>9. SecretsStay' BY DEF GatewaysInv, SecretsStay
<1> QED BY <1>3, <1>5, <1>6, <1>7, <1>8, <1>9 DEF GatewaysInv

\* A caller in an operation that must not overlap is the only one.
LEMMA OnlyCaller ==
  ASSUME GatewaysInv, NEW c \in Callers, ~Waiting(c), ~crowd
  PROVE  \A o \in Callers : o # c => Waiting(o)
  BY DEF GatewaysInv, OneAtATime

\* The table is finite, so that it is empty when it counts none.
LEMMA CountsRows == Cardinality(There) \in Nat /\ (Cardinality(There) = 0 <=> There = {})
<1>1. IsFiniteSet(There)
  BY GatewaysOK, FS_Subset DEF GatewaysOK, There
<1> QED BY <1>1, FS_EmptySet, FS_CardinalityType

\* The clock has room for the operation that begins.
LEMMA OneMoreSave == ASSUME NEW n \in 0..MaxSaves, n < MaxSaves PROVE n + 1 \in 0..MaxSaves
<1>1. MaxSaves \in Nat BY GatewaysOK DEF GatewaysOK
<1> QED BY <1>1

\* A save, a delete or a change of default begins on a table at rest, or
\* overlaps.
LEMMA GatewayBegins ==
  ASSUME GatewaysInv, NEW c \in Callers, NEW i \in Conn,
         \/ \E token \in Token, admin \in Token, d \in BOOLEAN :
              LET body == [NoConn EXCEPT !.token = token, !.admin = admin, !.default = d]
              IN BeginCreate(c, i, body) \/ BeginUpdate(c, i, body)
         \/ BeginDeleteGateway(c, i)
         \/ BeginSetDefault(c, i)
  PROVE  GatewaysInv'
<1>1. /\ UNCHANGED <<crowd, conns, breaks, secrets, turnedOff>>
      /\ crowd \/ AtRest
      /\ saves \in 0..MaxSaves /\ saves' \in 0..MaxSaves
  <2>2. saves \in 0..MaxSaves BY DEF GatewaysInv, GatewayTypes
  <2>3. \E call : Begins(c, call)
    BY DEF BeginCreate, BeginUpdate, BeginDeleteGateway, BeginSetDefault
  <2>4. saves < MaxSaves /\ saves' = saves + 1 BY <2>3 DEF Begins
  <2>5. UNCHANGED <<crowd, conns, breaks, secrets, turnedOff>>
    BY DEF BeginCreate, BeginUpdate, BeginDeleteGateway, BeginSetDefault
  <2>6. saves' \in 0..MaxSaves BY <2>2, <2>4, OneMoreSave, Zenon
  <2>7. crowd \/ AtRest BY <2>3 DEF Begins
  <2> QED BY <2>2, <2>5, <2>6, <2>7
<1>2. /\ ~crowd => \A o \in Callers : Waiting(o)
      /\ ~crowd /\ breaks' = 0 /\ ~turnedOff => There = {} \/ Defaults # {}
  BY <1>1 DEF AtRest, Waiting, GatewaysInv, SomeDefault, SetsFlag, Cleared
<1>3. breaks' \in 0..MaxBreaks BY <1>1 DEF GatewaysInv, GatewayTypes
<1>4. ASSUME NEW token \in Token, NEW admin \in Token, NEW d \in BOOLEAN,
             \/ BeginCreate(c, i, [NoConn EXCEPT !.token = token, !.admin = admin, !.default = d])
             \/ BeginUpdate(c, i, [NoConn EXCEPT !.token = token, !.admin = admin, !.default = d])
      PROVE  GatewaysInv'
  <2> DEFINE body == [NoConn EXCEPT !.token = token, !.admin = admin, !.default = d]
             dated == [body EXCEPT !.at = saves]
  <2>1. dated \in ConnRows /\ dated.token = token /\ dated.admin = admin /\ dated.default = d
    <3> body \in ConnRows /\ body.token = token /\ body.admin = admin /\ body.default = d
      BY BlankRow DEF ConnRows
    <3> QED BY <1>1 DEF ConnRows
  <2> HIDE DEF dated
  <2>2. CASE BeginCreate(c, i, body)
    <3> DEFINE row == FirstIsDefault(dated, Cardinality(There))
               call == [NoSave EXCEPT !.pc = ClearsFirst(row), !.id = i, !.row = row, !.next = "write"]
    <3>1. /\ i \notin drawn /\ drawn' = drawn \cup {i}
          /\ saving' = [saving EXCEPT ![c] = call]
      BY <2>2 DEF BeginCreate, Begins, dated
    <3>2. row \in ConnRows /\ (row.default \/ Cardinality(There) # 0)
      BY <2>1 DEF FirstIsDefault, ConnRows
    <3> HIDE DEF row
    <3>3. /\ call \in SaveCalls /\ call.id = i /\ call.row = row /\ call.next = "write"
          /\ call.pc = IF row.default THEN "clear" ELSE "write"
      BY <3>2, BlankCall DEF SaveCalls, ClearsFirst
    <3> HIDE DEF call
    <3>4. conns[i] = NoConn BY <3>1 DEF There, GatewaysInv, GatewayTypes
    <3>5. StillSo(call) BY <3>2, <3>3, CountsRows DEF StillSo
    <3>6. Spares(call) BY <3>3, <3>4, BlankRow DEF Spares
    <3>7. ~Cleared(call) /\ drawn \subseteq drawn' /\ call.id \in drawn'
      BY <3>1, <3>3 DEF Cleared
    <3> QED BY <1>1, <1>2, <1>3, <3>1, <3>3, <3>5, <3>6, <3>7, CallStep
  <2>3. CASE BeginUpdate(c, i, body)
    <3> DEFINE call == [NoSave EXCEPT !.pc = "read", !.id = i, !.row = dated,
                                      !.total = Cardinality(There), !.next = "write"]
    <3>1. i \in drawn /\ drawn' = drawn /\ saving' = [saving EXCEPT ![c] = call]
      BY <2>3 DEF BeginUpdate, Begins, dated
    <3>2. call \in SaveCalls /\ call.pc = "read" /\ call.id = i /\ call.total = Cardinality(There)
      BY <2>1, CountsRows, BlankCall DEF SaveCalls
    <3>4. call.pc # "idle" /\ call.next = "write"
      BY BlankCall DEF SaveCalls
    <3> HIDE DEF call
    <3>3. StillSo(call) /\ Spares(call) /\ ~Cleared(call)
      BY <3>2 DEF StillSo, Spares, Cleared
    <3> QED BY <1>1, <1>2, <1>3, <3>1, <3>2, <3>3, <3>4, CallStep
  <2> QED BY <1>4, <2>2, <2>3
<1>5. CASE BeginDeleteGateway(c, i)
  <2> DEFINE call == [NoSave EXCEPT !.pc = "delete", !.id = i, !.row = conns[i]]
  <2>1. i \in There /\ drawn' = drawn /\ saving' = [saving EXCEPT ![c] = call]
    BY <1>5 DEF BeginDeleteGateway, Begins
  <2>2. call \in SaveCalls /\ call.pc = "delete" /\ call.id = i /\ call.row = conns[i]
    BY BlankCall DEF SaveCalls, GatewaysInv, GatewayTypes
  <2> HIDE DEF call
  <2>3. StillSo(call) /\ Spares(call) /\ ~Cleared(call) /\ i \in drawn
    BY <2>1, <2>2 DEF StillSo, Spares, Cleared, GatewaysInv, GatewayTypes
  <2> QED BY <1>1, <1>2, <1>3, <2>1, <2>2, <2>3, CallStep
<1>6. CASE BeginSetDefault(c, i)
  <2> DEFINE call == [NoSave EXCEPT !.pc = "clear", !.id = i, !.next = "set"]
  <2>1. i \in There /\ drawn' = drawn /\ saving' = [saving EXCEPT ![c] = call]
    BY <1>6 DEF BeginSetDefault, Begins
  <2>2. call \in SaveCalls /\ call.pc = "clear" /\ call.id = i /\ call.next = "set"
    BY BlankCall DEF SaveCalls
  <2> HIDE DEF call
  <2>3. StillSo(call) /\ Spares(call) /\ ~Cleared(call) /\ i \in drawn
    BY <2>1, <2>2 DEF StillSo, Spares, Cleared, GatewaysInv, GatewayTypes
  <2> QED BY <1>1, <1>2, <1>3, <2>1, <2>2, <2>3, CallStep
<1> QED BY <1>4, <1>5, <1>6

\* The stored row fills in the secrets a save leaves blank; a save of a row
\* that is gone is as good as a new one.
LEMMA GatewayReads ==
  ASSUME GatewaysInv, NEW c \in Callers, ReadExisting(c)
  PROVE  GatewaysInv'
<1> DEFINE old == saving[c]
           row == IF conns[old.id].there THEN Merged(old.row, conns[old.id])
                  ELSE FirstIsDefault(old.row, old.total)
           call == [old EXCEPT !.row = row, !.pc = ClearsFirst(row)]
<1>1. /\ UNCHANGED <<crowd, conns, drawn, saves, breaks, secrets, turnedOff>>
      /\ old.pc = "read" /\ saving' = [saving EXCEPT ![c] = call]
  BY DEF ReadExisting, GatewaysInv, GatewayTypes
<1>2. /\ old \in SaveCalls /\ old.id \in Conn /\ old.id \in drawn /\ conns[old.id] \in ConnRows
      /\ ~crowd => old.total = Cardinality(There)
      /\ ~conns[old.id].there => conns[old.id] = NoConn
  BY <1>1 DEF GatewaysInv, GatewayTypes, Waiting, OthersIntact, StillSo
<1>3. /\ row \in ConnRows
      /\ row.token = "" => conns[old.id].token = ""
      /\ row.admin = "" => conns[old.id].admin = ""
      /\ row.default \/ conns[old.id].there \/ old.total # 0
  <2>1. CASE conns[old.id].there
    BY <1>2, <2>1 DEF Merged, Keeping, SaveCalls, ConnRows
  <2>2. CASE ~conns[old.id].there
    <3>1. conns[old.id].token = "" /\ conns[old.id].admin = ""
      BY <1>2, <2>2, BlankRow
    <3> QED BY <1>2, <2>2, <3>1 DEF FirstIsDefault, SaveCalls, ConnRows
  <2> QED BY <2>1, <2>2
<1> HIDE DEF row
<1>4. /\ call \in SaveCalls /\ call.id = old.id /\ call.row = row /\ call.next = old.next
      /\ call.pc = IF row.default THEN "clear" ELSE "write"
  BY <1>2, <1>3 DEF SaveCalls, ClearsFirst
<1> HIDE DEF call
<1>5. Spares(call) BY <1>3, <1>4 DEF Spares
<1>6. old.next = "write" BY <1>1 DEF GatewaysInv, GatewayTypes
<1>7. ~crowd => StillSo(call)
  BY <1>2, <1>3, <1>4, <1>6, CountsRows DEF StillSo, There
<1>8. ~Cleared(call) BY <1>4 DEF Cleared
<1>9. ~crowd => /\ \A o \in Callers : o # c => Waiting(o)
                /\ breaks' = 0 /\ ~turnedOff => There = {} \/ Defaults # {}
  <2>1. ~Waiting(c) BY <1>1 DEF Waiting
  <2>2. ~SetsFlag(old) BY <1>1 DEF SetsFlag, Cleared
  <2>3. ~crowd => \A o \in Callers : ~SetsFlag(saving[o])
    BY <2>1, <2>2, OnlyCaller DEF Waiting, SetsFlag, Cleared
  <2> QED BY <1>1, <2>1, <2>3, OnlyCaller DEF GatewaysInv, SomeDefault
<1>10. saves' \in 0..MaxSaves /\ breaks' \in 0..MaxBreaks
  BY <1>1 DEF GatewaysInv, GatewayTypes
<1> QED BY <1>1, <1>2, <1>4, <1>5, <1>7, <1>8, <1>9, <1>10, CallStep


\* A blank token never replaces one that is kept.
LEMMA KeepingKeeps ==
  ASSUME NEW new \in Token, NEW old \in Token
  PROVE  /\ Keeping(new, old) \in Token
         /\ new # "" => Keeping(new, old) = new
         /\ new = "" => Keeping(new, old) = old
  BY DEF Keeping

\* The statement that demotes every row.
LEMMA GatewayClears ==
  ASSUME GatewaysInv, NEW c \in Callers, Clear(c)
  PROVE  GatewaysInv'
<1> DEFINE old == saving[c]
           call == [old EXCEPT !.pc = old.next]
<1>1. /\ UNCHANGED <<crowd, drawn, saves, breaks, secrets, turnedOff>>
      /\ old.pc = "clear" /\ saving' = [saving EXCEPT ![c] = call]
      /\ conns' = [i \in Conn |-> [conns[i] EXCEPT !.default = FALSE]]
  BY DEF Clear, Steps, Demoted, GatewaysInv, GatewayTypes
<1>2. old \in SaveCalls /\ old.id \in Conn /\ old.id \in drawn /\ ~Waiting(c)
  BY <1>1 DEF GatewaysInv, GatewayTypes, Waiting
<1>3. /\ call \in SaveCalls /\ call.pc = old.next /\ call.id = old.id /\ call.row = old.row
      /\ call.next = old.next
  BY <1>2 DEF SaveCalls
<1> HIDE DEF call
<1>4. ASSUME NEW i \in Conn
      PROVE  /\ conns'[i] \in ConnRows /\ conns'[i].default = FALSE
             /\ conns'[i].there = conns[i].there
             /\ conns'[i].token = conns[i].token /\ conns'[i].admin = conns[i].admin
             /\ ~conns'[i].there => conns'[i] = NoConn
  <2>1. conns[i] \in ConnRows BY DEF GatewaysInv, GatewayTypes
  <2>2. conns'[i] = [conns[i] EXCEPT !.default = FALSE] BY <1>1
  <2>3. /\ conns'[i] \in ConnRows /\ conns'[i].default = FALSE
        /\ conns'[i].there = conns[i].there
        /\ conns'[i].token = conns[i].token /\ conns'[i].admin = conns[i].admin
    BY <2>1, <2>2 DEF ConnRows
  <2>4. ~conns[i].there => conns'[i] = NoConn
    <3> SUFFICES ASSUME ~conns[i].there PROVE conns'[i] = NoConn
      OBVIOUS
    <3>1. conns[i] = NoConn BY DEF GatewaysInv, GatewayTypes
    <3>2. conns'[i] = [NoConn EXCEPT !.default = FALSE] BY <2>2, <3>1
    <3> QED BY <3>2 DEF NoConn
  <2> QED BY <2>3, <2>4
<1>5. /\ saving' \in [Callers -> SaveCalls] /\ saving'[c] = call
      /\ \A o \in Callers : o # c => saving'[o] = saving[o]
  BY <1>1, <1>3 DEF GatewaysInv, GatewayTypes
<1>6. There' = There /\ Defaults' = {}
  BY <1>4 DEF There, Defaults
<1>7. ~crowd => \A o \in Callers : o # c => saving'[o].pc = "idle"
  BY <1>2, <1>5, OnlyCaller DEF Waiting
<1>8. GatewayTypes'
  <2>1. conns' \in [Conn -> ConnRows] BY <1>1, <1>4
  <2>2. There' \subseteq drawn' BY <1>1, <1>6 DEF GatewaysInv, GatewayTypes
  <2>3. \A o \in Callers : saving'[o].pc # "idle" => saving'[o].id \in Conn /\ saving'[o].id \in drawn'
    BY <1>1, <1>2, <1>3, <1>5 DEF GatewaysInv, GatewayTypes, Waiting
  <2>4. \A o \in Callers : saving'[o].pc = "read" => saving'[o].next = "write"
    <3>1. call.pc # "read" BY <1>2, <1>3 DEF SaveCalls
    <3> QED BY <1>5, <3>1 DEF GatewaysInv, GatewayTypes
  <2> QED BY <1>1, <1>4, <1>5, <2>1, <2>2, <2>3, <2>4 DEF GatewaysInv, GatewayTypes, Waiting
<1>9. OneAtATime' BY <1>1, <1>7 DEF OneAtATime, Waiting
<1>10. OneDefault' BY <1>6 DEF OneDefault
<1>11. ~crowd => StillSo(call) /\ Spares(call) /\ Cleared(call) /\ call.pc \in {"write", "set"}
  BY <1>1, <1>2, <1>3 DEF GatewaysInv, OthersIntact, StillSo, Spares, Cleared
<1>12. SomeDefault' BY <1>1, <1>5, <1>11 DEF SomeDefault, SetsFlag
<1>13. OthersIntact'
  <2> SUFFICES ASSUME ~crowd, NEW o \in Callers
               PROVE  StillSo(saving[o])' /\ Spares(saving[o])'
    BY <1>1 DEF OthersIntact
  <2>1. CASE o = c
    <3>1. call.pc \in {"write", "set"} BY <1>11
    <3>2. StillSo(saving[o])' BY <1>5, <1>6, <1>11, <2>1, <3>1 DEF StillSo
    <3>3. Spares(saving[o])' BY <1>2, <1>3, <1>4, <1>5, <1>11, <2>1 DEF Spares
    <3> QED BY <3>2, <3>3
  <2>2. CASE o # c BY <1>7, <2>2 DEF StillSo, Spares
  <2> QED BY <2>1, <2>2
<1>14. SecretsStay' BY <1>1, <1>4 DEF GatewaysInv, SecretsStay
<1> QED BY <1>8, <1>9, <1>10, <1>12, <1>13, <1>14 DEF GatewaysInv

\* The statement that stores the row of a save, and the end of it.
LEMMA GatewayWrites ==
  ASSUME GatewaysInv, NEW c \in Callers, Write(c)
  PROVE  GatewaysInv'
<1> DEFINE old == saving[c]
           i == saving[c].id
           row == [old.row EXCEPT !.there = TRUE]
<1>1. /\ UNCHANGED <<crowd, drawn, saves, breaks>>
      /\ old.pc = "write" /\ saving' = [saving EXCEPT ![c] = NoSave]
      /\ conns' = [conns EXCEPT ![i] = row]
      /\ secrets' = [secrets EXCEPT ![i] = [token |-> Keeping(old.row.token, secrets[i].token),
                                           admin |-> Keeping(old.row.admin, secrets[i].admin)]]
      /\ turnedOff' = (turnedOff \/ (conns[i].default /\ ~old.row.default))
  BY DEF Write, Ends, GatewaysInv, GatewayTypes
<1>2. /\ old \in SaveCalls /\ i \in Conn /\ i \in drawn /\ ~Waiting(c) /\ conns[i] \in ConnRows
      /\ old.row.token \in Token /\ old.row.admin \in Token
      /\ secrets[i].token \in Token /\ secrets[i].admin \in Token
  BY <1>1 DEF GatewaysInv, GatewayTypes, Waiting, SaveCalls, ConnRows
<1>3. /\ row \in ConnRows /\ row.there = TRUE /\ row.default = old.row.default
      /\ row.token = old.row.token /\ row.admin = old.row.admin
  BY <1>2 DEF SaveCalls, ConnRows
<1> HIDE DEF row
<1>4. /\ conns' \in [Conn -> ConnRows] /\ conns'[i] = row
      /\ \A j \in Conn : j # i => conns'[j] = conns[j]
  BY <1>1, <1>2, <1>3 DEF GatewaysInv, GatewayTypes
<1>5. /\ saving' \in [Callers -> SaveCalls] /\ saving'[c] = NoSave
      /\ \A o \in Callers : o # c => saving'[o] = saving[o]
  BY <1>1, BlankCall DEF GatewaysInv, GatewayTypes
<1>6. /\ There' = There \cup {i}
      /\ Defaults' = (Defaults \ {i}) \cup (IF old.row.default THEN {i} ELSE {})
  BY <1>2, <1>3, <1>4 DEF There, Defaults
<1>7. ~crowd => \A o \in Callers : saving'[o].pc = "idle"
  BY <1>2, <1>5, BlankCall, OnlyCaller DEF Waiting
<1>8. /\ secrets' \in [Conn -> [token : Token, admin : Token]]
      /\ secrets'[i].token = Keeping(old.row.token, secrets[i].token)
      /\ secrets'[i].admin = Keeping(old.row.admin, secrets[i].admin)
      /\ \A j \in Conn : j # i => secrets'[j] = secrets[j]
  BY <1>1, <1>2, KeepingKeeps DEF GatewaysInv, GatewayTypes
<1>9. GatewayTypes'
  <2>1. turnedOff' \in BOOLEAN BY <1>1
  <2>2. \A j \in Conn : ~conns'[j].there => conns'[j] = NoConn
    BY <1>3, <1>4 DEF GatewaysInv, GatewayTypes
  <2>3. There' \subseteq drawn' BY <1>1, <1>2, <1>6 DEF GatewaysInv, GatewayTypes
  <2>4. \A o \in Callers : saving'[o].pc # "idle" => saving'[o].id \in Conn /\ saving'[o].id \in drawn'
    BY <1>1, <1>5, BlankCall DEF GatewaysInv, GatewayTypes, Waiting
  <2>5. \A o \in Callers : saving'[o].pc = "read" => saving'[o].next = "write"
    BY <1>5, BlankCall DEF GatewaysInv, GatewayTypes
  <2> QED BY <1>1, <1>4, <1>5, <1>8, <2>1, <2>2, <2>3, <2>4, <2>5 DEF GatewaysInv, GatewayTypes, Waiting
<1>10. OneAtATime' BY <1>1, <1>7 DEF OneAtATime, Waiting
<1>11. OneDefault'
  <2>1. ~crowd /\ old.row.default => Defaults = {}
    BY <1>1 DEF GatewaysInv, OneDefault, Cleared
  <2>2. ~crowd => \A j, k \in Defaults' : j = k
    BY <1>6, <2>1 DEF GatewaysInv, OneDefault
  <2> QED BY <1>1, <1>7, <2>2 DEF OneDefault, Cleared
<1>12. SomeDefault'
  <2> SUFFICES ASSUME ~crowd, breaks = 0, ~turnedOff', ~old.row.default
               PROVE  Defaults' # {}
    BY <1>1, <1>6 DEF SomeDefault
  <2>1. ~turnedOff /\ i \notin Defaults BY <1>1 DEF Defaults
  <2>2. There # {} BY <1>1 DEF GatewaysInv, OthersIntact, StillSo
  <2>3. \A o \in Callers : ~SetsFlag(saving[o])
    BY <1>1, <1>2, OnlyCaller DEF Waiting, SetsFlag, Cleared
  <2>4. Defaults # {} BY <2>1, <2>2, <2>3 DEF GatewaysInv, SomeDefault
  <2> QED BY <1>6, <2>1, <2>4
<1>13. OthersIntact' BY <1>1, <1>7 DEF OthersIntact, StillSo, Spares
<1>14. SecretsStay'
  <2> SUFFICES ASSUME ~crowd, NEW j \in Conn
               PROVE  secrets'[j].token = conns'[j].token /\ secrets'[j].admin = conns'[j].admin
    BY <1>1 DEF SecretsStay
  <2>1. secrets[j].token = conns[j].token /\ secrets[j].admin = conns[j].admin
    BY DEF GatewaysInv, SecretsStay
  <2>2. CASE j # i BY <1>4, <1>8, <2>1, <2>2
  <2>3. CASE j = i
    <3>1. /\ old.row.token = "" => conns[i].token = ""
          /\ old.row.admin = "" => conns[i].admin = ""
      BY <1>1 DEF GatewaysInv, OthersIntact, Spares
    <3>2. secrets'[j].token = old.row.token
      BY <1>2, <1>8, <2>1, <2>3, <3>1, KeepingKeeps
    <3>3. secrets'[j].admin = old.row.admin
      BY <1>2, <1>8, <2>1, <2>3, <3>1, KeepingKeeps
    <3> QED BY <1>3, <1>4, <2>3, <3>2, <3>3
  <2> QED BY <2>2, <2>3
<1> QED BY <1>9, <1>10, <1>11, <1>12, <1>13, <1>14 DEF GatewaysInv


\* The statement that removes a row, with its secrets.
LEMMA GatewayDeletes ==
  ASSUME GatewaysInv, NEW c \in Callers, DeleteGatewayRow(c)
  PROVE  GatewaysInv'
<1> DEFINE old == saving[c]
           i == saving[c].id
           call == IF i \in There /\ old.row.default THEN [old EXCEPT !.pc = "list"] ELSE NoSave
<1>1. /\ UNCHANGED <<crowd, drawn, saves, breaks, turnedOff>>
      /\ old.pc = "delete" /\ saving' = [saving EXCEPT ![c] = call]
      /\ conns' = [conns EXCEPT ![i] = NoConn]
      /\ secrets' = [secrets EXCEPT ![i] = NoSecrets]
  BY DEF DeleteGatewayRow, Ends, Steps, GatewaysInv, GatewayTypes
<1>2. /\ old \in SaveCalls /\ i \in Conn /\ i \in drawn /\ ~Waiting(c)
      /\ ~crowd => i \in There /\ old.row = conns[i]
  BY <1>1 DEF GatewaysInv, GatewayTypes, Waiting, OthersIntact, StillSo
<1>3. /\ call \in SaveCalls /\ call.pc \in {"list", "idle"}
      /\ call.pc = "list" <=> i \in There /\ old.row.default
      /\ call.pc = "list" => call.id = i
  BY <1>2, BlankCall DEF SaveCalls
<1> HIDE DEF call
<1>4. /\ conns' \in [Conn -> ConnRows] /\ conns'[i] = NoConn
      /\ \A j \in Conn : j # i => conns'[j] = conns[j]
  BY <1>1, <1>2, BlankRow DEF GatewaysInv, GatewayTypes
<1>5. /\ saving' \in [Callers -> SaveCalls] /\ saving'[c] = call
      /\ \A o \in Callers : o # c => saving'[o] = saving[o]
  BY <1>1, <1>3 DEF GatewaysInv, GatewayTypes
<1>6. There' = There \ {i} /\ Defaults' = Defaults \ {i}
  BY <1>2, <1>4, BlankRow DEF There, Defaults
<1>7. ~crowd => \A o \in Callers : o # c => saving'[o].pc = "idle"
  BY <1>2, <1>5, OnlyCaller DEF Waiting
<1>8. secrets' \in [Conn -> [token : Token, admin : Token]]
  <2>1. NoSecrets \in [token : Token, admin : Token]
    BY GatewaysOK DEF GatewaysOK, NoSecrets
  <2> QED BY <1>1, <2>1 DEF GatewaysInv, GatewayTypes
<1>9. GatewayTypes'
  <2>1. \A j \in Conn : ~conns'[j].there => conns'[j] = NoConn
    BY <1>4 DEF GatewaysInv, GatewayTypes
  <2>2. There' \subseteq drawn' BY <1>1, <1>6 DEF GatewaysInv, GatewayTypes
  <2>3. \A o \in Callers : saving'[o].pc # "idle" => saving'[o].id \in Conn /\ saving'[o].id \in drawn'
    BY <1>1, <1>2, <1>3, <1>5 DEF GatewaysInv, GatewayTypes, Waiting
  <2>4. \A o \in Callers : saving'[o].pc = "read" => saving'[o].next = "write"
    BY <1>3, <1>5 DEF GatewaysInv, GatewayTypes
  <2> QED BY <1>1, <1>4, <1>5, <1>8, <2>1, <2>2, <2>3, <2>4 DEF GatewaysInv, GatewayTypes, Waiting
<1>10. OneAtATime' BY <1>1, <1>7 DEF OneAtATime, Waiting
<1>11. ~crowd /\ call.pc = "list" => Defaults = {i}
  BY <1>2, <1>3 DEF GatewaysInv, OneDefault, Defaults
<1>12. OneDefault'
  <2>1. ~crowd /\ Cleared(call) => Defaults' = {} BY <1>3, <1>6, <1>11 DEF Cleared
  <2>2. ~crowd => \A o \in Callers : Cleared(saving'[o]) => Defaults' = {}
    BY <1>5, <1>7, <2>1 DEF Cleared
  <2> QED BY <1>1, <1>6, <2>2 DEF GatewaysInv, OneDefault, Cleared
<1>13. SomeDefault'
  <2> SUFFICES ASSUME ~crowd, breaks = 0, ~turnedOff, There' # {}, Defaults' = {}
               PROVE  SetsFlag(call)
    BY <1>1, <1>5 DEF SomeDefault, SetsFlag, Cleared
  <2>1. \A o \in Callers : ~SetsFlag(saving[o])
    BY <1>1, <1>2, OnlyCaller DEF Waiting, SetsFlag, Cleared
  <2>2. Defaults # {} BY <1>6, <2>1 DEF GatewaysInv, SomeDefault
  <2>3. i \in Defaults BY <1>6, <2>2
  <2>4. old.row.default BY <1>2, <2>3 DEF Defaults
  <2> QED BY <1>2, <1>3, <2>4 DEF SetsFlag, Cleared
<1>14. OthersIntact'
  <2>1. ~crowd => \A o \in Callers : saving'[o].pc \in {"idle", "list"}
    BY <1>3, <1>5, <1>7
  <2> QED BY <1>1, <2>1 DEF OthersIntact, StillSo, Spares
<1>15. SecretsStay'
  <2>1. secrets'[i].token = "" /\ secrets'[i].admin = ""
    BY <1>1, <1>2 DEF GatewaysInv, GatewayTypes, NoSecrets
  <2>2. \A j \in Conn : j # i => secrets'[j] = secrets[j]
    BY <1>1 DEF GatewaysInv, GatewayTypes
  <2> QED BY <1>1, <1>4, <2>1, <2>2, BlankRow DEF GatewaysInv, SecretsStay
<1> QED BY <1>9, <1>10, <1>12, <1>13, <1>14, <1>15 DEF GatewaysInv

\* After a delete of the default another row is to have the flag.
LEMMA GatewayPromotes ==
  ASSUME GatewaysInv, NEW c \in Callers, Promote(c)
  PROVE  GatewaysInv'
<1>1. /\ UNCHANGED <<crowd, conns, drawn, saves, breaks, secrets, turnedOff>>
      /\ saving[c].pc = "list" /\ ~Waiting(c)
  BY DEF Promote, Waiting
<1>2. saves' \in 0..MaxSaves /\ breaks' \in 0..MaxBreaks
  BY <1>1 DEF GatewaysInv, GatewayTypes
<1>3. CASE There = {}
  <2>1. saving' = [saving EXCEPT ![c] = NoSave] BY <1>3 DEF Promote, Ends
  <2>2. StillSo(NoSave) /\ Spares(NoSave) /\ ~Cleared(NoSave)
    BY BlankCall DEF StillSo, Spares, Cleared
  <2> QED BY <1>1, <1>2, <1>3, <2>1, <2>2, BlankCall, OnlyCaller, CallStep
<1>4. CASE There # {}
  <2>1. PICK i \in Conn : /\ Lists(i)
                          /\ saving' = [saving EXCEPT ![c] = [NoSave EXCEPT !.pc = "clear", !.id = i,
                                                                           !.next = "set"]]
    BY <1>4 DEF Promote
  <2> DEFINE call == [NoSave EXCEPT !.pc = "clear", !.id = i, !.next = "set"]
  <2>2. /\ call \in SaveCalls /\ call.pc = "clear" /\ call.id = i /\ call.next = "set"
        /\ saving' = [saving EXCEPT ![c] = call]
    BY <2>1, BlankCall DEF SaveCalls
  <2> HIDE DEF call
  <2>3. i \in There /\ i \in drawn BY <2>1 DEF Lists, GatewaysInv, GatewayTypes
  <2>4. StillSo(call) /\ Spares(call) /\ ~Cleared(call) /\ SetsFlag(call)
    BY <2>2, <2>3 DEF StillSo, Spares, Cleared, SetsFlag
  <2> QED BY <1>1, <1>2, <2>2, <2>3, <2>4, OnlyCaller, CallStep
<1> QED BY <1>3, <1>4

\* The statement that gives a row the flag.
LEMMA GatewaySets ==
  ASSUME GatewaysInv, NEW c \in Callers, Set(c)
  PROVE  GatewaysInv'
<1> DEFINE i == saving[c].id
           row == [conns[i] EXCEPT !.default = TRUE, !.at = saves]
<1>1. /\ UNCHANGED <<crowd, drawn, saves, breaks, secrets, turnedOff>>
      /\ saving[c].pc = "set" /\ saving' = [saving EXCEPT ![c] = NoSave]
      /\ conns' = IF i \in There THEN [conns EXCEPT ![i] = row] ELSE conns
  BY DEF Set, Ends, GatewaysInv, GatewayTypes
<1>2. /\ i \in Conn /\ i \in drawn /\ ~Waiting(c) /\ conns[i] \in ConnRows /\ saves \in 0..MaxSaves
      /\ ~crowd => i \in There
  BY <1>1 DEF GatewaysInv, GatewayTypes, Waiting, OthersIntact, StillSo
<1>3. /\ row \in ConnRows /\ row.there = conns[i].there /\ row.default = TRUE
      /\ row.token = conns[i].token /\ row.admin = conns[i].admin
  BY <1>2 DEF ConnRows
<1> HIDE DEF row
<1>4. ASSUME NEW j \in Conn
      PROVE  /\ conns'[j] \in ConnRows /\ conns'[j].there = conns[j].there
             /\ conns'[j].token = conns[j].token /\ conns'[j].admin = conns[j].admin
             /\ ~conns'[j].there => conns'[j] = NoConn
             /\ conns'[j].default <=> conns[j].default \/ (j = i /\ i \in There)
  <2>1. conns \in [Conn -> ConnRows] /\ (~conns[j].there => conns[j] = NoConn)
    BY DEF GatewaysInv, GatewayTypes
  <2>2. CASE j = i /\ i \in There
    <3>1. conns'[j] = row BY <1>1, <1>2, <2>1, <2>2
    <3>2. conns[j].there BY <2>2 DEF There
    <3> QED BY <1>3, <2>2, <3>1, <3>2
  <2>3. CASE ~(j = i /\ i \in There)
    <3>1. conns'[j] = conns[j] BY <1>1, <1>2, <2>1, <2>3
    <3> QED BY <2>1, <2>3, <3>1
  <2> QED BY <2>2, <2>3
<1>5. /\ saving' \in [Callers -> SaveCalls] /\ saving'[c] = NoSave
      /\ \A o \in Callers : o # c => saving'[o] = saving[o]
  BY <1>1, BlankCall DEF GatewaysInv, GatewayTypes
<1>6. There' = There /\ Defaults' = Defaults \cup ({i} \cap There)
  BY <1>2, <1>4 DEF There, Defaults
<1>7. ~crowd => \A o \in Callers : saving'[o].pc = "idle"
  BY <1>2, <1>5, BlankCall, OnlyCaller DEF Waiting
<1>8. GatewayTypes'
  <2>1. conns' \in [Conn -> ConnRows] BY <1>1, <1>2, <1>3 DEF GatewaysInv, GatewayTypes
  <2>2. There' \subseteq drawn' BY <1>1, <1>6 DEF GatewaysInv, GatewayTypes
  <2>3. \A o \in Callers : saving'[o].pc # "idle" => saving'[o].id \in Conn /\ saving'[o].id \in drawn'
    BY <1>1, <1>5, BlankCall DEF GatewaysInv, GatewayTypes, Waiting
  <2>4. \A o \in Callers : saving'[o].pc = "read" => saving'[o].next = "write"
    BY <1>5, BlankCall DEF GatewaysInv, GatewayTypes
  <2> QED BY <1>1, <1>4, <1>5, <2>1, <2>2, <2>3, <2>4 DEF GatewaysInv, GatewayTypes, Waiting
<1>9. OneAtATime' BY <1>1, <1>7 DEF OneAtATime, Waiting
<1>10. OneDefault'
  <2>1. ~crowd => Defaults' = {i}
    BY <1>1, <1>2, <1>6 DEF GatewaysInv, OneDefault, Cleared
  <2> QED BY <1>1, <1>7, <2>1 DEF OneDefault, Cleared
<1>11. SomeDefault' BY <1>1, <1>2, <1>6 DEF SomeDefault
<1>12. OthersIntact' BY <1>1, <1>7 DEF OthersIntact, StillSo, Spares
<1>13. SecretsStay' BY <1>1, <1>4 DEF GatewaysInv, SecretsStay
<1> QED BY <1>8, <1>9, <1>10, <1>11, <1>12, <1>13 DEF GatewaysInv

\* A statement fails or the program stops: the operation ends where it is.
LEMMA GatewayBreaks ==
  ASSUME GatewaysInv, NEW c \in Callers, Break(c)
  PROVE  GatewaysInv'
<1>1. /\ UNCHANGED <<crowd, conns, drawn, saves, secrets, turnedOff>>
      /\ ~Waiting(c) /\ saving' = [saving EXCEPT ![c] = NoSave]
  BY DEF Break, Ends
<1>2. breaks' \in 0..MaxBreaks /\ breaks' # 0
  <2>1. MaxBreaks \in Nat BY GatewaysOK DEF GatewaysOK
  <2>2. breaks \in 0..MaxBreaks BY DEF GatewaysInv, GatewayTypes
  <2>3. breaks < MaxBreaks /\ breaks' = breaks + 1 BY DEF Break
  <2> QED BY <2>1, <2>2, <2>3
<1>3. StillSo(NoSave) /\ Spares(NoSave) /\ ~Cleared(NoSave)
  BY BlankCall DEF StillSo, Spares, Cleared
<1>4. saves' \in 0..MaxSaves BY <1>1 DEF GatewaysInv, GatewayTypes
<1> QED BY <1>1, <1>2, <1>3, <1>4, BlankCall, OnlyCaller, CallStep

-----------------------------------------------------------------------------
LEMMA GatewaysUnmoved ==
  ASSUME GatewaysInv, UNCHANGED gvars PROVE GatewaysInv'
<1>1. UNCHANGED <<crowd, conns, drawn, saving, saves, breaks, secrets, turnedOff>>
  BY DEF gvars
<1>2. There' = There /\ Defaults' = Defaults BY <1>1 DEF There, Defaults
<1>3. GatewayTypes' BY <1>1, <1>2 DEF GatewaysInv, GatewayTypes, Waiting
<1>4. OneAtATime' BY <1>1 DEF GatewaysInv, OneAtATime, Waiting
<1>5. OneDefault' BY <1>1, <1>2 DEF GatewaysInv, OneDefault, Cleared
<1>6. SomeDefault' BY <1>1, <1>2 DEF GatewaysInv, SomeDefault, SetsFlag, Cleared
<1>7. OthersIntact' BY <1>1, <1>2 DEF GatewaysInv, OthersIntact, StillSo, Spares
<1>8. SecretsStay' BY <1>1 DEF GatewaysInv, SecretsStay
<1> QED BY <1>3, <1>4, <1>5, <1>6, <1>7, <1>8 DEF GatewaysInv

\* Every operation, finished or cut short, keeps the invariant.
LEMMA GatewaysStep == GatewaysInv /\ [GNext]_gvars => GatewaysInv'
<1> SUFFICES ASSUME GatewaysInv, [GNext]_gvars PROVE GatewaysInv'
  OBVIOUS
<1>1. ASSUME NEW c \in Callers, NEW i \in Conn, NEW token \in Token, NEW admin \in Token,
             NEW d \in BOOLEAN,
             LET body == [NoConn EXCEPT !.token = token, !.admin = admin, !.default = d]
             IN BeginCreate(c, i, body) \/ BeginUpdate(c, i, body)
      PROVE  GatewaysInv'
  BY <1>1, GatewayBegins, Zenon
<1>2. ASSUME NEW c \in Callers, NEW i \in Conn, BeginDeleteGateway(c, i) \/ BeginSetDefault(c, i)
      PROVE  GatewaysInv'
  BY <1>2, GatewayBegins, Zenon
<1>3. ASSUME NEW c \in Callers,
             \/ ReadExisting(c) \/ Clear(c) \/ Write(c) \/ DeleteGatewayRow(c)
             \/ Promote(c) \/ Set(c) \/ Break(c)
      PROVE  GatewaysInv'
  BY <1>3, GatewayReads, GatewayClears, GatewayWrites, GatewayDeletes, GatewayPromotes,
     GatewaySets, GatewayBreaks, Zenon
<1> QED BY <1>1, <1>2, <1>3, GatewaysUnmoved, Zenon DEF GNext

\* Two rows without the flag between them are one.
LEMMA AtMostOneDefault ==
  ASSUME \A i, j \in Defaults : i = j PROVE Cardinality(Defaults) <= 1
<1>1. CASE Defaults = {} BY <1>1, FS_EmptySet
<1>2. ASSUME NEW i \in Defaults PROVE Cardinality(Defaults) <= 1
  <2>1. Defaults = {i} BY <1>2
  <2>2. Cardinality({i}) = 1 BY FS_Singleton
  <2> QED BY <2>1, <2>2
<1> QED BY <1>1, <1>2

\* The invariant says what is checked of the table.
LEMMA GatewaysShown == GatewaysInv => GTypeOK /\ DefaultMoves /\ SecretsKept /\ TwinsAgree
<1> SUFFICES ASSUME GatewaysInv PROVE GTypeOK /\ DefaultMoves /\ SecretsKept /\ TwinsAgree
  OBVIOUS
<1>1. GTypeOK
  <2>1. \A c \in Callers : saving[c] \in SaveCalls BY DEF GatewaysInv, GatewayTypes
  <2> QED BY <2>1 DEF GatewaysInv, GatewayTypes, GTypeOK, ConnRows, SaveCalls
<1>2. DefaultMoves
  <2> SUFFICES ASSUME ~crowd, AtRest
               PROVE  /\ Cardinality(Defaults) <= 1
                      /\ There # {} /\ ~turnedOff /\ breaks = 0 => Defaults # {}
    BY DEF DefaultMoves
  <2>1. \A c \in Callers : ~SetsFlag(saving[c]) BY DEF AtRest, Waiting, SetsFlag, Cleared
  <2>2. \A i, j \in Defaults : i = j BY DEF GatewaysInv, OneDefault
  <2>3. Cardinality(Defaults) <= 1 BY <2>2, AtMostOneDefault
  <2> QED BY <2>1, <2>3 DEF GatewaysInv, SomeDefault
<1>3. SecretsKept
  <2> SUFFICES ASSUME ~crowd, NEW i \in There
               PROVE  secrets[i] = [token |-> conns[i].token, admin |-> conns[i].admin]
    BY DEF SecretsKept
  <2>1. i \in Conn BY DEF There
  <2>2. secrets[i] \in [token : Token, admin : Token]
    BY <2>1 DEF GatewaysInv, GatewayTypes
  <2>3. secrets[i].token = conns[i].token /\ secrets[i].admin = conns[i].admin
    BY <2>1 DEF GatewaysInv, SecretsStay
  <2> QED BY <2>2, <2>3
<1>4. TwinsAgree
  <2> SUFFICES ASSUME NEW ask \in Asks, ~ask.padded, ask.slash
               PROVE  ProxyHTTP(ask) = ProxyNATS(ask)
    BY DEF TwinsAgree
  <2>1. [i \in There |-> TokenForPath(conns[i], ask.surface)]
        = [i \in There |-> TokenForOCPath(conns[i], IF ask.slash THEN ask.surface ELSE "other")]
    BY DEF TokenForPath, TokenForOCPath
  <2> QED BY <2>1 DEF ProxyHTTP, ProxyNATS
<1> QED BY <1>1, <1>2, <1>3, <1>4

\* Operations that do not overlap leave one default where there are rows,
\* unless one was cut short or somebody turned the flag off.
THEOREM DefaultIsKept == GSpec => []DefaultMoves
<1>1. GInit => GatewaysInv BY GatewaysInitial
<1>2. GatewaysInv /\ [GNext]_gvars => GatewaysInv' BY GatewaysStep
<1>3. GatewaysInv => DefaultMoves BY GatewaysShown
<1> QED BY <1>1, <1>2, <1>3, PTL DEF GSpec

\* No save loses a token, however many blank ones come after it.
THEOREM TokensAreKept == GSpec => []SecretsKept
<1>1. GInit => GatewaysInv BY GatewaysInitial
<1>2. GatewaysInv /\ [GNext]_gvars => GatewaysInv' BY GatewaysStep
<1>3. GatewaysInv => SecretsKept BY GatewaysShown
<1> QED BY <1>1, <1>2, <1>3, PTL DEF GSpec

-----------------------------------------------------------------------------
(* Workflows                                                               *)

Graphs == Graph \cup {BlankGraph}
FlowRows == [there : BOOLEAN, graph : Graphs, tags : SUBSET Label, entry : Entries,
             derived : BOOLEAN, plugins : {g.plugins : g \in Graphs} \cup {{}}]
\* What an operation saves can be read.
SaveBodies == [graph : {g \in Graphs : g.drawing # "garbled"}, tags : SUBSET Label,
               entry : Entries, says : SUBSET Field]
Operations == [pc : {"idle", "read", "write"}, id : Flow \cup {"none"}, body : SaveBodies,
               ask : SaveBodies, adds : BOOLEAN]

TableTypes ==
  /\ race \in BOOLEAN
  /\ flows \in [Flow -> FlowRows]
  /\ opened \in BOOLEAN
  /\ stops \in Nat
  /\ editing \in [Editors -> Operations]
  /\ \A e \in Editors : editing[e].pc # "idle" => editing[e].id \in Flow
  /\ wanted \in [Flow -> [graph : Graphs, tags : SUBSET Label, entry : Entries]]
  /\ \A f \in Flow : ~flows[f].there => flows[f] = NoFlow

\* The opening pass runs by itself, and what it is about to write for a row
\* is still what the row's graph says.
Opening ==
  /\ ~opened => EditorsIdle
  /\ opened => pending = {}
  /\ pending \subseteq {[id |-> f, plugins |-> Backfilled(f)] : f \in Underived}
  /\ pending # {} => \A f \in Underived : \E p \in pending : p.id = f

\* Where operations do not overlap, one at most is under way.
Alone == ~race => \A e, o \in Editors : EditorIdle(e) \/ EditorIdle(o) \/ e = o

\* What the row will be once the operation under way is done.
Saved(e) ==
  IF editing[e].pc = "read" THEN NilKeeps(editing[e].body, flows[editing[e].id])
  ELSE editing[e].body

\* What it was asked to be.
Asked(e) == Granted(editing[e], wanted[editing[e].id])

\* Such an operation saves what it was asked for over what is wanted.
Faithful ==
  ~race =>
    /\ \A f \in Flow : /\ flows[f].graph = wanted[f].graph
                       /\ flows[f].tags = wanted[f].tags
                       /\ flows[f].entry = wanted[f].entry
    /\ \A e \in Editors : ~EditorIdle(e) => /\ Saved(e).graph = Asked(e).graph
                                            /\ Saved(e).tags = Asked(e).tags
                                            /\ Saved(e).entry = Asked(e).entry

WorkflowsInv == TableTypes /\ Opening /\ PluginsMatchGraph /\ Alone /\ Faithful

-----------------------------------------------------------------------------
\* The rows from before the column are found with no list.
LEMMA WorkflowsInitial == WInit => WorkflowsInv
<1> SUFFICES ASSUME WInit PROVE WorkflowsInv
  OBVIOUS
<1>0. /\ race \in BOOLEAN /\ opened = FALSE /\ pending = {} /\ stops = 0
      /\ \A e \in Editors : editing[e] = NoEdit
      /\ editing = [e \in Editors |-> NoEdit]
      /\ wanted = [f \in Flow |-> [graph |-> flows[f].graph, tags |-> {}, entry |-> "none"]]
  BY WorkflowsOK DEF WInit
<1>1. PICK old \in SUBSET OldFlows, graphs \in [OldFlows -> Graph] :
        flows = [f \in Flow |-> IF f \in old
                                  THEN [NoFlow EXCEPT !.there = TRUE, !.graph = graphs[f]]
                                  ELSE NoFlow]
  BY DEF WInit
<1>2. ASSUME NEW f \in Flow
      PROVE  /\ flows[f] \in FlowRows
             /\ flows[f].tags = {} /\ flows[f].entry = "none" /\ ~flows[f].derived
             /\ ~flows[f].there => flows[f] = NoFlow
  <2>1. NoFlow \in FlowRows /\ NoFlow.there = FALSE /\ NoFlow.tags = {} /\ NoFlow.entry = "none"
          /\ NoFlow.derived = FALSE
    BY DEF NoFlow, FlowRows, Graphs, Entries
  <2>2. CASE f \in old
    <3> DEFINE row == [NoFlow EXCEPT !.there = TRUE, !.graph = graphs[f]]
    <3>1. flows[f] = row BY <1>1, <2>2
    <3>2. graphs[f] \in Graphs BY <2>2 DEF Graphs
    <3>3. row \in FlowRows /\ row.there = TRUE /\ row.tags = {} /\ row.entry = "none"
            /\ row.derived = FALSE
      BY <3>2 DEF NoFlow, FlowRows, Entries
    <3> QED BY <3>1, <3>3
  <2>3. CASE f \notin old BY <1>1, <2>1, <2>3
  <2> QED BY <2>2, <2>3
<1>3. NoEdit \in Operations /\ NoEdit.pc = "idle"
  BY DEF NoEdit, NoBody, Operations, SaveBodies, Graphs, BlankGraph, Entries, Field
<1>4. TableTypes
  <2>1. flows \in [Flow -> FlowRows] BY <1>1, <1>2
  <2>2. editing \in [Editors -> Operations] BY <1>0, <1>3
  <2>3. wanted \in [Flow -> [graph : Graphs, tags : SUBSET Label, entry : Entries]]
    BY <1>0, <2>1 DEF FlowRows, Entries
  <2> QED BY <1>0, <1>2, <1>3, <2>1, <2>2, <2>3 DEF TableTypes
<1>5. Opening BY <1>0, <1>3 DEF Opening, EditorsIdle, EditorIdle
<1>6. PluginsMatchGraph BY <1>0, <1>2 DEF PluginsMatchGraph, Stored
<1>7. Alone /\ Faithful BY <1>0, <1>2, <1>3 DEF Alone, Faithful, EditorIdle
<1> QED BY <1>4, <1>5, <1>6, <1>7 DEF WorkflowsInv

-----------------------------------------------------------------------------
\* The rows the pass has to write, and their lists, depend on the table alone.
LEMMA OpeningUnchanged ==
  ASSUME Opening, PluginsMatchGraph, UNCHANGED flows, UNCHANGED pending, UNCHANGED opened,
         stops' = stops, ~opened => UNCHANGED editing
  PROVE  Opening' /\ PluginsMatchGraph'
  BY DEF Opening, PluginsMatchGraph, EditorsIdle, EditorIdle, Underived, Stored, Backfilled, Readable

\* The pass reads every row without a list, and writes them one by one; a
\* failure or a stop leaves the others as they are.
LEMMA OpeningStep ==
  ASSUME WorkflowsInv,
         BackfillRead \/ BackfillWrite \/ NothingToBackfill \/ BackfillFails \/ Reopen
  PROVE  WorkflowsInv'
<1> USE DEF WorkflowsInv
<1>1. CASE BackfillRead
  <2>1. /\ UNCHANGED <<race, flows, opened, editing, edits, stops, wanted>>
        /\ ~opened /\ pending' = {[id |-> f, plugins |-> Backfilled(f)] : f \in Underived}
    BY <1>1 DEF BackfillRead
  <2>2. TableTypes' BY <2>1 DEF TableTypes
  <2>3. UNCHANGED <<Underived, Stored, EditorsIdle>> /\ \A f \in Flow : UNCHANGED Backfilled(f)
    BY <2>1 DEF Underived, Stored, Backfilled, Readable, EditorsIdle, EditorIdle
  <2>4. Underived \subseteq Flow BY DEF Underived, Stored
  <2>5. Opening'
    <3>1. pending' = {[id |-> f, plugins |-> Backfilled(f)'] : f \in Underived'}
      BY <2>1, <2>3, <2>4
    <3>2. \A f \in Underived' : [id |-> f, plugins |-> Backfilled(f)'] \in pending'
      BY <3>1
    <3>3. \A f \in Underived' : \E p \in pending' : p.id = f
      BY <3>2
    <3> QED BY <2>1, <2>3, <3>1, <3>3 DEF Opening
  <2>6. PluginsMatchGraph' BY <2>1, <2>3 DEF PluginsMatchGraph, Stored
  <2>7. Alone' /\ Faithful'
    BY <2>1 DEF Alone, Faithful, EditorIdle, Saved, NilKeeps, Asked, Granted
  <2> QED BY <2>2, <2>5, <2>6, <2>7
<1>2. CASE BackfillWrite
  <2>1. PICK p \in pending :
          /\ flows' = [flows EXCEPT ![p.id].plugins = p.plugins, ![p.id].derived = TRUE]
          /\ pending' = pending \ {p}
    BY <1>2 DEF BackfillWrite
  <2>2. UNCHANGED <<race, editing, edits, stops, wanted>> /\ opened' = (pending' = {})
    BY <1>2 DEF BackfillWrite
  <2>3. PICK f \in Underived : p = [id |-> f, plugins |-> Backfilled(f)]
    BY <2>1 DEF Opening
  <2>4. /\ p.id = f /\ p.plugins = Backfilled(f) /\ f \in Flow
        /\ flows[f].there /\ ~flows[f].derived /\ flows[f] \in FlowRows
    BY <2>3 DEF Underived, Stored, TableTypes
  <2> DEFINE row == [flows[f] EXCEPT !.plugins = Backfilled(f), !.derived = TRUE]
  <2>5. flows' = [flows EXCEPT ![f] = row]
    BY <2>1, <2>4 DEF TableTypes
  <2>6. Backfilled(f) \in {g.plugins : g \in Graphs} \cup {{}}
    BY <2>4 DEF Backfilled, CollectFlowPlugins, FlowRows
  <2>7. /\ row \in FlowRows /\ row.there /\ row.derived /\ row.plugins = Backfilled(f)
        /\ row.graph = flows[f].graph /\ row.tags = flows[f].tags /\ row.entry = flows[f].entry
    BY <2>4, <2>6 DEF FlowRows
  <2> HIDE DEF row
  <2>8. /\ flows'[f] = row /\ flows' \in [Flow -> FlowRows]
        /\ \A h \in Flow : h # f => flows'[h] = flows[h]
    BY <2>4, <2>5, <2>7 DEF TableTypes
  <2>9. \A h \in Flow : /\ flows'[h].graph = flows[h].graph
                        /\ flows'[h].there = flows[h].there
                        /\ flows'[h].tags = flows[h].tags /\ flows'[h].entry = flows[h].entry
                        /\ Backfilled(h)' = Backfilled(h)
    <3>1. \A h \in Flow : /\ flows'[h].graph = flows[h].graph
                         /\ flows'[h].tags = flows[h].tags /\ flows'[h].entry = flows[h].entry
      BY <2>7, <2>8
    <3>2. \A h \in Flow : flows'[h].there = flows[h].there
      <4>1. flows'[f].there = flows[f].there
        BY <2>4, <2>7, <2>8 DEF FlowRows
      <4> QED BY <2>8, <4>1
    <3>3. \A h \in Flow : Backfilled(h)' = Backfilled(h)
      BY <3>1 DEF Backfilled, Readable, CollectFlowPlugins
    <3> QED BY <3>1, <3>2, <3>3
  <2>10. TableTypes'
    BY <2>2, <2>4, <2>7, <2>8 DEF TableTypes
  <2>11. /\ Underived' = Underived \ {f}
         /\ Stored' = Stored
    BY <2>4, <2>7, <2>8, <2>9 DEF Underived, Stored
  <2>12. /\ ~opened
         /\ \A q \in pending : q.id = f => q = p
         /\ \A h \in Underived : \E q \in pending : q.id = h
    BY <2>1, <2>3, <2>4 DEF Opening
  <2>13. Opening'
    <3>1. EditorsIdle' BY <2>2, <2>12 DEF Opening, EditorsIdle, EditorIdle
    <3>2. pending' \subseteq {[id |-> h, plugins |-> Backfilled(h)'] : h \in Underived'}
      <4> SUFFICES ASSUME NEW q \in pending, q # p
                   PROVE  \E h \in Underived' : q = [id |-> h, plugins |-> Backfilled(h)']
        BY <2>1
      <4>1. PICK h \in Underived : q = [id |-> h, plugins |-> Backfilled(h)]
        BY DEF Opening
      <4>2. h # f BY <2>3, <4>1
      <4> QED BY <2>9, <2>11, <4>1, <4>2 DEF Underived, Stored
    <3>3. \A h \in Underived' : \E q \in pending' : q.id = h
      BY <2>1, <2>4, <2>11 DEF Opening
    <3> QED BY <2>2, <3>1, <3>2, <3>3 DEF Opening
  <2>14. PluginsMatchGraph'
    <3>1. \A h \in Stored' : flows'[h].derived => flows'[h].plugins = Backfilled(h)'
      BY <2>4, <2>7, <2>8, <2>9, <2>11 DEF PluginsMatchGraph, Stored
    <3>2. opened' => Underived' = {}
      <4> SUFFICES ASSUME opened', NEW h \in Underived PROVE h = f
        BY <2>11
      <4>1. pending \ {p} = {} BY <2>1, <2>2
      <4>2. PICK q \in pending : q.id = h BY <2>12
      <4>3. q = p BY <4>1
      <4> QED BY <2>4, <4>2, <4>3
    <3> QED BY <3>1, <3>2 DEF PluginsMatchGraph
  <2>15. Alone' /\ Faithful'
    <3>1. Alone' BY <2>2 DEF Alone, EditorIdle
    <3>2. \A e \in Editors : EditorIdle(e)'
      BY <2>2, <2>12 DEF Opening, EditorsIdle, EditorIdle
    <3> QED BY <2>2, <2>9, <3>1, <3>2 DEF Faithful
  <2> QED BY <2>10, <2>13, <2>14, <2>15
<1>3. CASE NothingToBackfill \/ BackfillFails \/ Reopen
  <2>1. UNCHANGED <<race, flows, edits, wanted>> /\ stops' \in {stops, stops + 1}
    BY <1>3 DEF NothingToBackfill, BackfillFails, Reopen
  <2>2. \/ editing' = editing /\ opened' = TRUE
        \/ editing' = [e \in Editors |-> NoEdit] /\ opened' = FALSE
    BY <1>3 DEF NothingToBackfill, BackfillFails, Reopen
  <2>3. pending' = {}
    <3>1. CASE NothingToBackfill
      <4>1. Underived = {} /\ pending' = pending BY <3>1 DEF NothingToBackfill
      <4> QED BY <4>1 DEF Opening
    <3>2. CASE BackfillFails \/ Reopen BY <3>2 DEF BackfillFails, Reopen
    <3> QED BY <1>3, <3>1, <3>2
  <2>4. NoEdit \in Operations /\ NoEdit.pc = "idle"
    BY DEF NoEdit, NoBody, Operations, SaveBodies, Graphs, BlankGraph, Entries, Field
  <2>5. editing' \in [Editors -> Operations]
          /\ \A e \in Editors : editing'[e] = editing[e] \/ editing'[e].pc = "idle"
    BY <2>2, <2>4 DEF TableTypes
  <2>6. TableTypes'
    <3>1. opened' \in BOOLEAN BY <2>2
    <3>2. stops' \in Nat BY <2>1 DEF TableTypes
    <3> QED BY <2>1, <2>5, <3>1, <3>2 DEF TableTypes
  <2>7. Opening' BY <2>2, <2>3, <2>4 DEF Opening, EditorsIdle, EditorIdle
  <2>8. UNCHANGED <<Underived, Stored>> /\ \A f \in Flow : UNCHANGED Backfilled(f)
    BY <2>1 DEF Underived, Stored, Backfilled, Readable
  <2>9. PluginsMatchGraph'
    <3>1. opened' /\ stops' = 0 => Underived = {}
      BY <1>3 DEF NothingToBackfill, BackfillFails, Reopen, TableTypes
    <3> QED BY <2>1, <2>8, <3>1 DEF PluginsMatchGraph, Stored
  <2>10. Alone' BY <2>1, <2>5 DEF Alone, EditorIdle
  <2>11. Faithful'
    <3>1. \A e \in Editors : ~EditorIdle(e)' =>
            editing'[e] = editing[e] /\ ~EditorIdle(e) /\ Saved(e)' = Saved(e)
      <4>1. \A e \in Editors : ~EditorIdle(e)' => editing'[e] = editing[e] /\ ~EditorIdle(e)
        BY <2>5 DEF EditorIdle
      <4> QED BY <2>1, <4>1 DEF Saved, NilKeeps
    <3>2. \A e \in Editors : ~EditorIdle(e)' => Asked(e)' = Asked(e)
      BY <2>1, <3>1 DEF Asked, Granted
    <3> QED BY <2>1, <3>1, <3>2 DEF Faithful
  <2> QED BY <2>6, <2>7, <2>9, <2>10, <2>11
<1> QED BY <1>1, <1>2, <1>3

-----------------------------------------------------------------------------
\* What clients send is typed, speaks of the graph, and can be read.
LEMMA BodiesTyped ==
  /\ \A body \in Bodies : body \in SaveBodies /\ "graph" \in body.says
  /\ Overrides \subseteq Bodies
<1>1. ASSUME NEW body \in Bodies PROVE body \in SaveBodies /\ "graph" \in body.says
  <2>1. PICK g \in {h \in Graph : h.drawing # "garbled"}, tags \in SUBSET Label,
             entry \in Entries, says \in SUBSET {"tags", "entry"} :
          body = [graph |-> g, tags |-> IF "tags" \in says THEN tags ELSE {},
                  entry |-> IF "entry" \in says THEN entry ELSE "none",
                  says |-> {"graph"} \cup says]
    BY DEF Bodies
  <2> QED BY <2>1 DEF SaveBodies, Graphs, Entries, Field
<1> QED BY <1>1 DEF Overrides

\* A new operation is the only one where none may overlap; it keeps the
\* invariant if what it saves is what it was asked for.
LEMMA BeginStep ==
  ASSUME WorkflowsInv, NEW e \in Editors, NEW edit \in Operations,
         edit.pc = "read", edit.id \in Flow, BeginEdit(e, edit),
         ~race => LET ends == Granted(edit, wanted[edit.id])
                      saved == NilKeeps(edit.body, flows[edit.id])
                  IN saved.graph = ends.graph /\ saved.tags = ends.tags /\ saved.entry = ends.entry
  PROVE  WorkflowsInv'
<1> USE DEF WorkflowsInv
<1>1. /\ UNCHANGED <<race, flows, opened, pending, stops, wanted>>
      /\ opened /\ (race \/ EditorsIdle)
      /\ editing' = [editing EXCEPT ![e] = edit]
  BY DEF BeginEdit
<1>2. /\ editing' \in [Editors -> Operations] /\ editing'[e] = edit
      /\ \A o \in Editors : o # e => editing'[o] = editing[o]
  BY <1>1 DEF TableTypes
<1>3. TableTypes' BY <1>1, <1>2 DEF TableTypes
<1>4. Opening' /\ PluginsMatchGraph' BY <1>1, OpeningUnchanged
<1>5. Alone' BY <1>1, <1>2 DEF Alone, EditorsIdle, EditorIdle
<1>6. Faithful'
  <2> SUFFICES ASSUME ~race PROVE Faithful'
    BY <1>1 DEF Faithful
  <2>1. \A o \in Editors : ~EditorIdle(o)' => o = e
    BY <1>1, <1>2 DEF EditorsIdle, EditorIdle
  <2>2. Saved(e)' = NilKeeps(edit.body, flows[edit.id])
    BY <1>1, <1>2 DEF Saved, NilKeeps
  <2>3. Asked(e)' = Granted(edit, wanted[edit.id])
    BY <1>1, <1>2 DEF Asked, Granted
  <2> QED BY <1>1, <2>1, <2>2, <2>3 DEF Faithful
<1> QED BY <1>3, <1>4, <1>5, <1>6

\* A save of a canvas, a document or a patch asks for what it carries.
LEMMA SaveStep ==
  ASSUME WorkflowsInv, NEW e \in Editors, NEW f \in Flow, NEW body \in SaveBodies,
         "graph" \in body.says, SaveCanvas(e, f, body)
  PROVE  WorkflowsInv'
<1> DEFINE edit == [NoEdit EXCEPT !.pc = "read", !.id = f, !.body = body, !.ask = body]
<1>1. /\ edit \in Operations /\ edit.pc = "read" /\ edit.id = f /\ edit.body = body
      /\ edit.ask = body /\ edit.adds = FALSE
  BY DEF NoEdit, NoBody, Operations
<1>2. BeginEdit(e, edit) BY DEF SaveCanvas
<1> HIDE DEF edit
<1>3. ASSUME ~race
      PROVE  LET ends == Granted(edit, wanted[f])
                 saved == NilKeeps(body, flows[f])
             IN saved.graph = ends.graph /\ saved.tags = ends.tags /\ saved.entry = ends.entry
  <2>1. flows[f].tags = wanted[f].tags /\ flows[f].entry = wanted[f].entry
    BY <1>3 DEF WorkflowsInv, Faithful
  <2>2. DOMAIN body = {"graph", "tags", "entry", "says"} BY DEF SaveBodies
  <2> QED BY <1>1, <2>1, <2>2 DEF Granted, NilKeeps, SaveBodies
<1> QED BY <1>1, <1>2, <1>3, BeginStep

\* A row read back for a change of one field says what the row holds.
LEMMA FieldStep ==
  ASSUME WorkflowsInv, NEW e \in Editors, NEW f \in Flow,
         \/ \E labels \in SUBSET Label, merge \in BOOLEAN : SetTags(e, f, labels, merge)
         \/ \E entry \in Entries : SetPreferences(e, f, entry) \/ SetFlowPreferences(e, f, entry)
  PROVE  WorkflowsInv'
<1> DEFINE row == ReadRow(f)
<1>0. f \in Stored /\ Readable(f)
  BY DEF SetTags, SetPreferences, SetFlowPreferences
<1>1. /\ row \in SaveBodies
      /\ row.graph = flows[f].graph /\ row.tags = flows[f].tags /\ row.entry = flows[f].entry
      /\ "tags" \in row.says <=> flows[f].tags # {}
      /\ "entry" \in row.says <=> flows[f].entry # "none"
  <2>1. flows[f] \in FlowRows /\ flows[f].graph.drawing # "garbled"
    BY <1>0 DEF WorkflowsInv, TableTypes, Readable
  <2> QED BY <2>1 DEF ReadRow, SaveBodies, FlowRows, Field
<1> HIDE DEF row
<1>2. ~race => /\ flows[f].graph = wanted[f].graph
               /\ flows[f].tags = wanted[f].tags
               /\ flows[f].entry = wanted[f].entry
  BY DEF WorkflowsInv, Faithful
<1>3. ASSUME NEW labels \in SUBSET Label, NEW merge \in BOOLEAN, SetTags(e, f, labels, merge)
      PROVE  WorkflowsInv'
  <2> DEFINE tags == IF merge THEN row.tags \cup labels ELSE labels
             body == [row EXCEPT !.tags = tags, !.says = @ \cup {"tags"}]
             ask == [NoBody EXCEPT !.tags = labels, !.says = {"tags"}]
             edit == [pc |-> "read", id |-> f, adds |-> merge, body |-> body, ask |-> ask]
  <2>1. BeginEdit(e, edit) BY <1>3 DEF SetTags, row
  <2>2. /\ body \in SaveBodies /\ body.graph = row.graph /\ body.tags = tags
        /\ body.entry = row.entry /\ body.says = row.says \cup {"tags"}
    BY <1>1 DEF SaveBodies, Field
  <2>3. ask \in SaveBodies /\ ask.tags = labels /\ ask.says = {"tags"}
    BY DEF NoBody, SaveBodies, Graphs, BlankGraph, Entries, Field
  <2> HIDE DEF body, ask
  <2>4. /\ edit \in Operations /\ edit.pc = "read" /\ edit.id = f /\ edit.adds = merge
        /\ edit.body = body /\ edit.ask = ask
    BY <2>2, <2>3 DEF Operations
  <2> HIDE DEF edit
  <2>5. ASSUME ~race
        PROVE  LET ends == Granted(edit, wanted[f])
                   saved == NilKeeps(body, flows[f])
               IN saved.graph = ends.graph /\ saved.tags = ends.tags /\ saved.entry = ends.entry
    BY <1>1, <1>2, <2>2, <2>3, <2>4, <2>5 DEF Granted, NilKeeps, SaveBodies
  <2> QED BY <2>1, <2>4, <2>5, BeginStep
<1>4. ASSUME NEW entry \in Entries, SetPreferences(e, f, entry) \/ SetFlowPreferences(e, f, entry)
      PROVE  WorkflowsInv'
  <2> DEFINE body == [row EXCEPT !.entry = entry, !.says = @ \cup {"entry"}]
             ask == [NoBody EXCEPT !.entry = entry, !.says = {"entry"}]
             edit == [pc |-> "read", id |-> f, adds |-> FALSE, body |-> body, ask |-> ask]
  <2>1. BeginEdit(e, edit) BY <1>4 DEF SetPreferences, SetFlowPreferences, row
  <2>2. /\ body \in SaveBodies /\ body.graph = row.graph /\ body.tags = row.tags
        /\ body.entry = entry /\ body.says = row.says \cup {"entry"}
    BY <1>1 DEF SaveBodies, Field
  <2>3. ask \in SaveBodies /\ ask.entry = entry /\ ask.says = {"entry"}
    BY DEF NoBody, SaveBodies, Graphs, BlankGraph, Entries, Field
  <2> HIDE DEF body, ask
  <2>4. /\ edit \in Operations /\ edit.pc = "read" /\ edit.id = f /\ edit.adds = FALSE
        /\ edit.body = body /\ edit.ask = ask
    BY <2>2, <2>3 DEF Operations
  <2> HIDE DEF edit
  <2>5. ASSUME ~race
        PROVE  LET ends == Granted(edit, wanted[f])
                   saved == NilKeeps(body, flows[f])
               IN saved.graph = ends.graph /\ saved.tags = ends.tags /\ saved.entry = ends.entry
    BY <1>1, <1>2, <2>2, <2>3, <2>4, <2>5 DEF Granted, NilKeeps, SaveBodies
  <2> QED BY <2>1, <2>4, <2>5, BeginStep
<1> QED BY <1>3, <1>4

\* A delete takes the row, its list and what was wanted of it together.
LEMMA FlowDeleted ==
  ASSUME WorkflowsInv, NEW f \in Flow, DeleteFlow(f)
  PROVE  WorkflowsInv'
<1> USE DEF WorkflowsInv
<1>1. /\ UNCHANGED <<race, opened, pending, editing, stops>> /\ opened
      /\ race \/ EditorsIdle
      /\ flows' = [flows EXCEPT ![f] = NoFlow]
      /\ wanted' = [wanted EXCEPT ![f] = [graph |-> BlankGraph, tags |-> {}, entry |-> "none"]]
  BY DEF DeleteFlow
<1>2. /\ NoFlow \in FlowRows /\ ~NoFlow.there /\ NoFlow.graph = BlankGraph /\ NoFlow.tags = {}
      /\ NoFlow.entry = "none"
  BY DEF NoFlow, FlowRows, Graphs, Entries
<1>3. /\ flows' \in [Flow -> FlowRows] /\ flows'[f] = NoFlow
      /\ \A h \in Flow : h # f => flows'[h] = flows[h] /\ wanted'[h] = wanted[h]
      /\ wanted' \in [Flow -> [graph : Graphs, tags : SUBSET Label, entry : Entries]]
      /\ wanted'[f] = [graph |-> BlankGraph, tags |-> {}, entry |-> "none"]
  BY <1>1, <1>2 DEF TableTypes, Graphs, Entries
<1>4. TableTypes' BY <1>1, <1>3 DEF TableTypes
<1>5. Stored' = Stored \ {f} /\ Underived' = Underived \ {f}
  BY <1>2, <1>3 DEF Stored, Underived
<1>6. Opening' BY <1>1, <1>5 DEF Opening
<1>7. PluginsMatchGraph'
  <2>1. \A h \in Stored' : Backfilled(h)' = Backfilled(h) /\ flows'[h] = flows[h] /\ h \in Stored
    BY <1>3, <1>5 DEF Backfilled, Readable, Stored, CollectFlowPlugins
  <2> QED BY <1>1, <1>5, <2>1 DEF PluginsMatchGraph
<1>8. Alone' BY <1>1 DEF Alone, EditorIdle
<1>9. Faithful'
  <2>1. ~race => \A e \in Editors : EditorIdle(e)'
    BY <1>1 DEF EditorsIdle, EditorIdle
  <2> QED BY <1>1, <1>2, <1>3, <2>1 DEF Faithful
<1> QED BY <1>4, <1>6, <1>7, <1>8, <1>9

\* The repository's read fills in what the save says nothing about, and its
\* write stores the list of the graph it carries.
LEMMA UpsertStep ==
  ASSUME WorkflowsInv, NEW e \in Editors, UpsertRead(e) \/ UpsertRefused(e) \/ UpsertWrite(e)
  PROVE  WorkflowsInv'
<1> USE DEF WorkflowsInv
<1> DEFINE f == editing[e].id
<1>0. /\ ~EditorIdle(e) /\ f \in Flow /\ editing[e] \in Operations /\ opened
      /\ flows[f] \in FlowRows
  BY DEF UpsertRead, UpsertRefused, UpsertWrite, EditorIdle, TableTypes, Opening, EditorsIdle
<1>1. CASE UpsertRead(e)
  <2> DEFINE body == NilKeeps(editing[e].body, flows[f])
             edit == [editing[e] EXCEPT !.pc = "write", !.body = body]
  <2>1. /\ UNCHANGED <<race, flows, opened, pending, stops, wanted>> /\ editing[e].pc = "read"
        /\ editing' = [editing EXCEPT ![e] = edit]
    BY <1>1 DEF UpsertRead, TableTypes
  <2>2. body \in SaveBodies
    BY <1>0 DEF NilKeeps, Operations, SaveBodies, FlowRows
  <2> HIDE DEF body
  <2>3. /\ edit \in Operations /\ edit.pc = "write" /\ edit.id = f /\ edit.body = body
        /\ edit.ask = editing[e].ask /\ edit.adds = editing[e].adds
    BY <1>0, <2>2 DEF Operations
  <2> HIDE DEF edit
  <2>4. /\ editing' \in [Editors -> Operations] /\ editing'[e] = edit
        /\ \A o \in Editors : o # e => editing'[o] = editing[o]
    BY <2>1, <2>3 DEF TableTypes
  <2>5. TableTypes' BY <1>0, <2>1, <2>3, <2>4 DEF TableTypes
  <2>6. Opening' /\ PluginsMatchGraph' BY <1>0, <2>1, OpeningUnchanged
  <2>7. Alone' BY <1>0, <2>1, <2>4 DEF Alone, EditorIdle
  <2>8. Faithful'
    <3>1. Saved(e)' = Saved(e) /\ Asked(e)' = Asked(e)
      BY <2>1, <2>3, <2>4 DEF Saved, Asked, Granted, body
    <3>2. \A o \in Editors : o # e => Saved(o)' = Saved(o) /\ Asked(o)' = Asked(o)
      BY <2>1, <2>4 DEF Saved, NilKeeps, Asked, Granted
    <3>3. \A o \in Editors : EditorIdle(o)' = EditorIdle(o)
      BY <1>0, <2>3, <2>4 DEF EditorIdle
    <3> QED BY <2>1, <3>1, <3>2, <3>3 DEF Faithful
  <2> QED BY <2>5, <2>6, <2>7, <2>8
<1>2. NoEdit \in Operations /\ NoEdit.pc = "idle"
  BY DEF NoEdit, NoBody, Operations, SaveBodies, Graphs, BlankGraph, Entries, Field
<1>3. CASE UpsertRefused(e)
  <2>1. /\ UNCHANGED <<race, flows, opened, pending, stops, wanted>>
        /\ editing' = [editing EXCEPT ![e] = NoEdit]
    BY <1>3 DEF UpsertRefused
  <2>2. /\ editing' \in [Editors -> Operations] /\ editing'[e] = NoEdit
        /\ \A o \in Editors : o # e => editing'[o] = editing[o]
    BY <1>2, <2>1 DEF TableTypes
  <2>3. TableTypes' BY <1>2, <2>1, <2>2 DEF TableTypes
  <2>4. Opening' /\ PluginsMatchGraph' BY <1>0, <2>1, OpeningUnchanged
  <2>5. Alone' BY <1>2, <2>1, <2>2 DEF Alone, EditorIdle
  <2>6. Faithful'
    <3>1. \A o \in Editors : ~EditorIdle(o)' =>
            ~EditorIdle(o) /\ Saved(o)' = Saved(o) /\ Asked(o)' = Asked(o)
      <4>1. \A o \in Editors : ~EditorIdle(o)' => editing'[o] = editing[o] /\ ~EditorIdle(o)
        BY <1>2, <2>2 DEF EditorIdle
      <4> SUFFICES ASSUME NEW o \in Editors, editing'[o] = editing[o]
                   PROVE  Saved(o)' = Saved(o) /\ Asked(o)' = Asked(o)
        BY <4>1
      <4>2. Saved(o)' = Saved(o) BY <2>1 DEF Saved, NilKeeps
      <4>3. Asked(o)' = Asked(o) BY <2>1 DEF Asked, Granted
      <4> QED BY <4>2, <4>3
    <3> QED BY <2>1, <3>1 DEF Faithful
  <2> QED BY <2>3, <2>4, <2>5, <2>6
<1>4. CASE UpsertWrite(e)
  <2> DEFINE body == editing[e].body
             row == RowOfSave(body, flows[f])
             ends == Granted(editing[e], wanted[f])
  <2>1. /\ UNCHANGED <<race, opened, pending, stops>> /\ editing[e].pc = "write"
        /\ flows' = [flows EXCEPT ![f] = row]
        /\ wanted' = [wanted EXCEPT ![f] = ends]
        /\ editing' = [editing EXCEPT ![e] = NoEdit]
    BY <1>4 DEF UpsertWrite, TableTypes
  <2>2. body \in SaveBodies BY <1>0 DEF Operations
  <2>3. /\ row \in FlowRows /\ row.there /\ row.derived /\ row.graph = body.graph
        /\ row.tags = body.tags /\ row.entry = body.entry /\ row.plugins = body.graph.plugins
    BY <2>2 DEF RowOfSave, CollectFlowPlugins, SaveBodies, FlowRows
  <2>4. ends \in [graph : Graphs, tags : SUBSET Label, entry : Entries]
    BY <1>0 DEF Granted, Operations, SaveBodies, TableTypes
  <2>5. ~race => row.graph = ends.graph /\ row.tags = ends.tags /\ row.entry = ends.entry
    BY <1>0, <2>1, <2>3 DEF Faithful, Saved, Asked
  <2> HIDE DEF row, ends
  <2>6. /\ flows' \in [Flow -> FlowRows] /\ flows'[f] = row
        /\ wanted' \in [Flow -> [graph : Graphs, tags : SUBSET Label, entry : Entries]]
        /\ wanted'[f] = ends
        /\ \A h \in Flow : h # f => flows'[h] = flows[h] /\ wanted'[h] = wanted[h]
    BY <1>0, <2>1, <2>3, <2>4 DEF TableTypes
  <2>7. /\ editing' \in [Editors -> Operations] /\ editing'[e] = NoEdit
        /\ \A o \in Editors : o # e => editing'[o] = editing[o]
    BY <1>2, <2>1 DEF TableTypes
  <2>8. TableTypes' BY <1>2, <2>1, <2>3, <2>6, <2>7 DEF TableTypes
  <2>9. Underived' = Underived \ {f} /\ Stored' = Stored \cup {f}
    BY <1>0, <2>3, <2>6 DEF Underived, Stored
  <2>10. Opening' BY <1>0, <2>1, <2>9 DEF Opening
  <2>11. PluginsMatchGraph'
    <3>1. \A h \in Stored : h # f => Backfilled(h)' = Backfilled(h) /\ flows'[h] = flows[h]
      BY <2>6 DEF Backfilled, Readable, Stored, CollectFlowPlugins
    <3>2. \A h \in Flow : h = f => Backfilled(h)' = row.plugins
      <4>1. flows'[f].graph = body.graph /\ body.graph.drawing # "garbled"
        BY <2>2, <2>3, <2>6 DEF SaveBodies
      <4> QED BY <2>3, <4>1 DEF Backfilled, Readable, CollectFlowPlugins
    <3>3. \A h \in Stored' : flows'[h].derived => flows'[h].plugins = Backfilled(h)'
      BY <1>0, <2>6, <2>9, <3>1, <3>2 DEF PluginsMatchGraph, Stored
    <3> QED BY <2>1, <2>9, <3>3 DEF PluginsMatchGraph
  <2>12. Alone' BY <1>2, <2>1, <2>7 DEF Alone, EditorIdle
  <2>13. Faithful'
    <3>1. ~race => \A o \in Editors : EditorIdle(o)'
      BY <1>0, <1>2, <2>1, <2>7 DEF Alone, EditorIdle
    <3> QED BY <1>0, <2>1, <2>5, <2>6, <3>1 DEF Faithful
  <2> QED BY <2>8, <2>10, <2>11, <2>12, <2>13
<1> QED BY <1>1, <1>3, <1>4

-----------------------------------------------------------------------------
\* What an import settles on is a body like any other.
LEMMA ImportedTyped ==
  ASSUME NEW doc \in SaveBodies, NEW over \in SaveBodies, "graph" \in doc.says
  PROVE  Imported(doc, over) \in SaveBodies /\ "graph" \in Imported(doc, over).says
  BY DEF Imported, SaveBodies, Field

\* Every step of the editors and of the opening pass preserves the invariant.
LEMMA WorkflowsStep == WorkflowsInv /\ [WNext]_wvars => WorkflowsInv'
<1> SUFFICES ASSUME WorkflowsInv, [WNext]_wvars PROVE WorkflowsInv'
  OBVIOUS
<1>1. CASE BackfillRead \/ BackfillWrite \/ NothingToBackfill \/ BackfillFails \/ Reopen
  BY <1>1, OpeningStep
<1>2. ASSUME NEW e \in Editors, NEW f \in Flow, NEW body \in Bodies,
             SaveCanvas(e, f, body) \/ ApplyPatch(e, f, body)
      PROVE  WorkflowsInv'
  BY <1>2, BodiesTyped, SaveStep DEF ApplyPatch
<1>3. ASSUME NEW e \in Editors, NEW f \in Flow, NEW doc \in Bodies, NEW over \in Overrides,
             ImportFlow(e, f, doc, over)
      PROVE  WorkflowsInv'
  BY <1>3, BodiesTyped, ImportedTyped, SaveStep DEF ImportFlow
<1>4. ASSUME NEW e \in Editors, NEW f \in Flow,
             \/ \E labels \in SUBSET Label, merge \in BOOLEAN : SetTags(e, f, labels, merge)
             \/ \E entry \in Entries : SetPreferences(e, f, entry) \/ SetFlowPreferences(e, f, entry)
      PROVE  WorkflowsInv'
  BY <1>4, FieldStep
<1>5. CASE \E f \in Flow : DeleteFlow(f)
  BY <1>5, FlowDeleted
<1>6. CASE \E e \in Editors : UpsertRead(e) \/ UpsertRefused(e) \/ UpsertWrite(e)
  BY <1>6, UpsertStep
<1>7. CASE UNCHANGED wvars
  <2>1. UNCHANGED <<race, flows, opened, pending, editing, stops, wanted>>
    BY <1>7 DEF wvars
  <2>2. TableTypes' BY <2>1 DEF WorkflowsInv, TableTypes
  <2>3. Opening' /\ PluginsMatchGraph' BY <2>1, OpeningUnchanged DEF WorkflowsInv
  <2>4. \A e \in Editors : /\ EditorIdle(e)' = EditorIdle(e)
                           /\ Saved(e)' = Saved(e) /\ Asked(e)' = Asked(e)
    BY <2>1 DEF EditorIdle, Saved, NilKeeps, Asked, Granted
  <2>5. Alone' /\ Faithful' BY <2>1, <2>4 DEF WorkflowsInv, Alone, Faithful
  <2> QED BY <2>2, <2>3, <2>5 DEF WorkflowsInv
<1> QED BY <1>1, <1>2, <1>3, <1>4, <1>5, <1>6, <1>7 DEF WNext

\* What the invariant says of the table.
LEMMA WorkflowsShown == WorkflowsInv => WTypeOK /\ PluginsMatchGraph /\ FieldsStandAlone
<1> SUFFICES ASSUME WorkflowsInv PROVE WTypeOK /\ FieldsStandAlone
  BY DEF WorkflowsInv
<1>1. WTypeOK
  <2>1. {p.id : p \in pending} \subseteq Underived
    BY DEF WorkflowsInv, Opening
  <2> QED BY <2>1 DEF WTypeOK, WorkflowsInv, TableTypes, Opening, FlowRows, Graphs, Operations
<1>2. FieldsStandAlone
  <2> SUFFICES ASSUME ~race, NEW f \in Stored, NEW field \in Field
               PROVE  flows[f][field] = wanted[f][field]
    BY DEF FieldsStandAlone
  <2> QED BY DEF Field, WorkflowsInv, Faithful, Stored
<1> QED BY <1>1, <1>2

\* However many saves overlap, and wherever the opening pass fails or is cut
\* off, no row has a list of plugins that is not its graph's.
THEOREM ListsMatchGraphs == WSpec => []PluginsMatchGraph
<1>1. WorkflowsInv => PluginsMatchGraph BY DEF WorkflowsInv
<1> QED BY WorkflowsInitial, WorkflowsStep, <1>1, PTL DEF WSpec

\* Operations that do not overlap change what they name and nothing else,
\* whichever routes they come by and whatever a stop cuts off.
THEOREM FieldsKeepApart == WSpec => []FieldsStandAlone
<1>1. WorkflowsInv => FieldsStandAlone BY WorkflowsShown
<1> QED BY WorkflowsInitial, WorkflowsStep, <1>1, PTL DEF WSpec

=============================================================================
