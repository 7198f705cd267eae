------------------------ MODULE WireGuardPeersProofs ------------------------
(***************************************************************************)
(* Retired keys, addresses and the agreement of the four copies of the     *)
(* peers, for any number of peers, addresses and keys.                     *)
(***************************************************************************)
EXTENDS WireGuardPeers, WellFoundedInduction, TLAPS

AnyRow == Row \cup {NoRow}
Slot == Entry \cup {NoFile}

Change == [at : Stages, kind : {"none", "create", "regenerate", "revoke", "delete"}, peer : Peer,
           row : AnyRow, old : SUBSET Entry, new : SUBSET Entry, file : Slot]

\* TypeOK without the Boolean variable and the readers.
Data ==
    /\ rows \in [Peer -> AnyRow] /\ files \in [Peer -> Slot]
    /\ server \subseteq Entry /\ kernel \subseteq Entry
    /\ issued \in 1..MaxKeys
    /\ op \in Change
    /\ retired \subseteq Key /\ doubt \subseteq Peer

\* Which changes reach which stage, and what a change does to its row.
IOp ==
    /\ op.at = "none" <=> op = NoOp
    /\ op.kind = "none" <=> op.at = "none"
    /\ op.at \in {"server", "sync", "undo_server", "undo_sync"} => op.kind # "delete"
    /\ op.at = "client" => HasClient
    /\ op.at = "unlink" => op.kind = "delete"
    /\ op.at = "undo_client" => op.kind # "revoke"
    /\ op.at # "none" => profile
    /\ op.kind = "create" => /\ op.peer \notin Known(rows) /\ op.row \in Row
                             /\ op.row.status = "active"
                             /\ \A q \in Known(rows) : rows[q].host # op.row.host
    /\ op.kind = "regenerate" => /\ op.peer \in Known(rows) /\ op.row \in Row
                                 /\ op.row.status = "active"
                                 /\ op.row.host = rows[op.peer].host
                                 /\ op.row.key # rows[op.peer].key
    /\ op.kind = "revoke" => /\ op.peer \in Known(rows)
                             /\ op.row = [rows[op.peer] EXCEPT !.status = "revoked"]
    /\ op.kind = "delete" => op.row = NoRow /\ op.peer \notin ActivePeers(rows) /\ op.new = op.old

\* Keys are issued in order, so the key of a change in progress is new everywhere else, and no key
\* is held by two peers.
IKey ==
    /\ \A e \in server \cup kernel \cup op.old \cup op.new : e[1] <= issued
    /\ \A k \in retired : k <= issued
    /\ \A p \in Peer : rows[p].key <= issued /\ files[p][1] <= issued
    /\ op.row.key <= issued /\ op.file[1] <= issued
    /\ \A p \in Peer, q \in Known(rows) : p # q => /\ files[p][1] # rows[q].key
                                                   /\ rows[p].key # rows[q].key
    /\ \A q \in Known(rows) : q # op.peer => op.file[1] # rows[q].key /\ op.row.key # rows[q].key
    /\ HasClient => op.row.key \notin retired
    /\ HasClient => \A q \in Peer : q # op.peer => files[q][1] # op.row.key
    /\ \A p, q \in Known(rows) : p # q => rows[p].host # rows[q].host

\* No copy of the server's peers that a change can still put in force has a retired key, and no
\* active peer's file has one.
IOut ==
    /\ \A e \in server \cup kernel \cup op.old \cup op.new : e[1] \notin retired
    /\ \A p \in ActivePeers(rows) : files[p][1] \notin retired
    /\ op.peer \in ActivePeers(rows) /\ op.at # "none" => op.file[1] \notin retired
    /\ op.kind \in {"regenerate", "revoke"} => \A e \in op.new : e[1] # rows[op.peer].key

\* What the files of a change's peer and the server file hold at each stage.
IStage ==
    /\ op.at \in {"client", "sync", "commit"} => server = op.new
    /\ op.at \in {"server", "unlink", "undo_client", "undo_sync"} => server = op.old
    /\ op.at = "undo_server" => server \in {op.old, op.new}
    /\ op.at \in {"server", "client", "unlink", "undo_sync"} => files[op.peer] = op.file
    /\ op.at \in {"sync", "commit"} /\ HasClient => files[op.peer] = EntryOf(op.row)
    /\ op.at # "none" /\ op.kind = "revoke" => files[op.peer] = op.file
    /\ op.at = "commit" /\ op.kind = "delete" => files[op.peer] = NoFile
    /\ op.at = "commit" /\ op.kind # "delete" => kernel = server
    /\ op.at = "server" /\ op.peer \in ActivePeers(rows) \ doubt => EntryOf(rows[op.peer]) \in kernel

\* The old files of a change are those of the rows, the new ones those of the rows to be committed.
After == [rows EXCEPT ![op.peer] = op.row]
IAgree ==
    /\ op.at # "none" =>
         /\ ServerMatches(rows, op.old) /\ ServerMatches(After, op.new)
         /\ \A q \in Known(rows) : q # op.peer => FileMatches(rows, files, q)
         /\ op.peer \in Known(rows) => op.file = EntryOf(rows[op.peer])
    /\ (op.at = "server" \/ op.kind = "delete") /\ doubt = {} => kernel = op.old
    /\ Agreement

\* Until it is migrated, a legacy appliance stays as it was installed.
ILegacy ==
    ~profile => /\ rows = [p \in Peer |-> NoRow] /\ server = {<<1, 1>>} /\ kernel = {<<1, 1>>}
                /\ files = [p \in Peer |-> IF p = Default THEN <<1, 1>> ELSE NoFile]
                /\ retired = {} /\ doubt = {}

core == <<profile, rows, server, files, kernel, issued, op, retired, doubt>>

IInv == Data /\ IOp /\ IKey /\ IOut /\ IStage /\ IAgree /\ OthersKept /\ ILegacy
----------------------------------------------------------------------------
(* Lemmas about the operators *)

\* _allocate returns a free address whenever there is one.
LEMMA AllocateFree ==
    ASSUME NEW rs, Free(rs) # {} PROVE Allocate(rs) \in Free(rs)
<1>1. Free(rs) \subseteq Nat
  BY PeerAssumption DEF Free, Host
<1>2. PICK x \in Free(rs) : \A y \in Free(rs) : ~ (<<y, x>> \in OpToRel(<, Nat))
  BY <1>1, NatLessThanWellFounded, WFMin, Zenon
<1>3. \A y \in Free(rs) : x <= y
  <2> TAKE y \in Free(rs)
  <2>1. x \in Nat /\ y \in Nat
    BY <1>1, Zenon
  <2>2. <<y, x>> \in Nat \X Nat /\ <<y, x>>[1] = y /\ <<y, x>>[2] = x
    BY <2>1, Zenon
  <2>3. ~ (y < x)
    BY <1>2, <2>2, Zenon DEF OpToRel
  <2> QED
    BY <2>1, <2>3
<1> QED
  BY <1>3, Zenon DEF Allocate

\* Filtering one peer's key out of a server file that matches the rows leaves the other active rows.
LEMMA WithoutOthers ==
    ASSUME Data, ServerMatches(rows, server), NEW p \in Known(rows),
           \A q \in Peer : p # q => rows[q].key # rows[p].key
    PROVE  Without(rows[p].key) = {EntryOf(rows[q]) : q \in ActivePeers(rows) \ {p}}
BY SMTT(30) DEF Without, ServerMatches, EntryOf, ActivePeers, Known
----------------------------------------------------------------------------
(* Every step preserves the inductive invariant *)

USE DEF EntryOf, Known, ActivePeers, FileMatches, HasClient

\* Readers and backups change no part of the state that the invariant is about.
LEMMA CoreSame == IInv /\ UNCHANGED core => IInv'
BY DEF IInv, Data, IOp, IKey, IOut, IStage, IAgree, Agreement, Validates, ServerMatches, OthersKept,
       ILegacy, After, core, Without

LEMMA MigrateStep == IInv /\ Migrate => IInv'
<1> SUFFICES ASSUME IInv, Migrate PROVE IInv'
  BY Zenon
<1> USE PeerAssumption DEF IInv, Migrate
<1>1. PICK e \in server : /\ server = {e} /\ files[Default] = e
                          /\ rows' = [rows EXCEPT ![Default] = [status |-> "active", key |-> e[1],
                                                                 host |-> e[2]]]
  BY Zenon
<1>2. e = <<1, 1>>
  BY <1>1, Zenon DEF ILegacy
<1>3. rows' = [p \in Peer |-> IF p = Default THEN [status |-> "active", key |-> 1, host |-> 1]
                                             ELSE NoRow]
  <2>1. rows = [p \in Peer |-> NoRow] /\ e[1] = 1 /\ e[2] = 1
    BY <1>2, Zenon DEF ILegacy
  <2>2. rows' = [rows EXCEPT ![Default] = [status |-> "active", key |-> 1, host |-> 1]]
    BY <1>1, <2>1, Zenon
  <2> HIDE DEF Migrate, IInv
  <2> QED
    BY <2>1, <2>2, Zenon
<1>4. op = NoOp
  BY Zenon DEF LockFree, IOp
<1>5. Data'
  BY <1>3 DEF Data, AnyRow, Row, Key, Host
<1>6. IOp'
  BY <1>3, <1>4, Zenon DEF IOp, NoOp
<1>7. IKey'
  BY <1>2, <1>3, <1>4 DEF IKey, NoOp, ILegacy, Data, NoFile, NoRow
<1>8. IOut'
  BY <1>2, <1>3, <1>4, Zenon DEF IOut, NoOp, ILegacy
<1>9. IStage'
  BY <1>4, Zenon DEF IStage, NoOp
<1>10. IAgree'
  BY <1>2, <1>3, <1>4 DEF IAgree, NoOp, ILegacy, Agreement, Validates, ServerMatches, NoRow
<1>11. OthersKept'
  BY <1>2, <1>3, <1>4, Zenon DEF OthersKept, NoOp, ILegacy, NoRow
<1> QED
  BY <1>5, <1>6, <1>7, <1>8, <1>9, <1>10, <1>11, Zenon DEF ILegacy

\* The start of a change, given what its operation computed.
LEMMA BeginStep ==
    ASSUME IInv, NEW kind \in {"create", "regenerate", "revoke", "delete"}, NEW p \in Peer,
           NEW row \in AnyRow, NEW new \in SUBSET Entry, Begin(kind, p, row, new),
           issued' \in 1..MaxKeys, issued <= issued',
           kind = "create" => /\ p \notin Known(rows) /\ row \in Row /\ row.status = "active"
                              /\ row.key = issued' /\ issued < issued' /\ files[p] = NoFile
                              /\ \A q \in Known(rows) : rows[q].host # row.host,
           kind = "regenerate" => /\ p \in Known(rows) /\ row \in Row /\ row.status = "active"
                                  /\ row.key = issued' /\ issued < issued'
                                  /\ row.host = rows[p].host,
           kind = "revoke" => p \in Known(rows) /\ row = [rows[p] EXCEPT !.status = "revoked"],
           kind = "delete" => row = NoRow /\ p \notin ActivePeers(rows) /\ new = server,
           kind \in {"regenerate", "revoke"} => \A e \in new : e[1] # rows[p].key,
           \A e \in new : e[1] <= issued' /\ e[1] \notin retired,
           ServerMatches([rows EXCEPT ![p] = row], new)
    PROVE  IInv'
<1> DEFINE o == [at |-> IF kind = "delete" THEN "unlink" ELSE "server", kind |-> kind, peer |-> p,
                 row |-> row, old |-> server, new |-> new, file |-> files[p]]
<1>0. Data /\ IOp /\ IKey /\ IOut /\ IStage /\ IAgree /\ OthersKept /\ ILegacy
  BY Zenon DEF IInv
<1>1. /\ op' = o /\ op = NoOp /\ op.at = "none" /\ profile /\ Validates(rows, server, files)
      /\ UNCHANGED <<profile, rows, server, files, kernel, backup, read, retired, doubt>>
  BY <1>0, Zenon DEF LockFree, IOp, Begin
<1>2. /\ o.at \in {"server", "unlink"} /\ (o.at = "unlink" <=> kind = "delete") /\ o.kind = kind
      /\ o.peer = p /\ o.row = row /\ o.old = server /\ o.new = new /\ o.file = files[p]
  BY Zenon
<1>3. Data'
  BY <1>0, <1>1, Zenon DEF Data, Stages, Change
<1> HIDE DEF o
<1>4. IOp'
  <2>1. op' # NoOp
    BY <1>1, <1>2, Zenon DEF NoOp
  <2>2. kind = "regenerate" => row.key # rows[p].key
    BY <1>0 DEF IKey, Data
  <2> QED
    BY <1>1, <1>2, <2>1, <2>2, Zenon DEF IOp
<1>5. IKey'
  <2>1. \A q \in Known(rows) : rows[q].key \in Key
    BY <1>0 DEF Data, AnyRow, Row, NoRow
  <2>2. \A q \in Peer : rows[q].key <= issued /\ files[q][1] <= issued
    BY <1>0, Zenon DEF IKey
  <2>3. \A q \in Known(rows) : q # p => files[p][1] # rows[q].key /\ row.key # rows[q].key
    <3> SUFFICES ASSUME NEW q \in Known(rows), q # p
                 PROVE  files[p][1] # rows[q].key /\ row.key # rows[q].key
      BY Zenon
    <3>1. files[p][1] # rows[q].key /\ rows[p].key # rows[q].key
      BY <1>0, Zenon DEF IKey
    <3>2. rows[q].key \in 1..issued /\ issued \in Nat
      BY <1>0, <2>1, <2>2, PeerAssumption DEF Key, Data
    <3>3. CASE kind \in {"create", "regenerate"}
      BY <3>1, <3>2, <3>3
    <3>4. CASE kind = "revoke"
      BY <3>1, <3>4, <1>0, Zenon DEF Data, AnyRow, Row, NoRow
    <3>5. CASE kind = "delete"
      BY <3>1, <3>2, <3>5 DEF NoRow
    <3> QED
      BY <3>3, <3>4, <3>5, Zenon
  <2> QED
    BY <1>0, <1>1, <1>2, <2>1, <2>2, <2>3, PeerAssumption
       DEF IKey, Data, AnyRow, Row, NoRow, Key, Entry, Slot, NoFile
<1>6. IOut'
  BY <1>0, <1>1, <1>2, ZenonT(60) DEF IOut
<1>7. IStage'
  BY <1>0, <1>1, <1>2, Zenon DEF IStage, OthersKept
<1>8. IAgree'
  BY <1>0, <1>1, <1>2 DEF IAgree, Agreement, After, Validates, ServerMatches
<1>9. OthersKept'
  BY <1>0, <1>1, <1>2, ZenonT(60) DEF OthersKept
<1> QED
  BY <1>0, <1>1, <1>3, <1>4, <1>5, <1>6, <1>7, <1>8, <1>9, Zenon DEF ILegacy, IInv

LEMMA CreateStep ==
    ASSUME IInv, NEW p \in Peer, Create(p) PROVE IInv'
<1> DEFINE row == [status |-> "active", key |-> issued + 1, host |-> Allocate(rows)]
<1>0. Data /\ IKey /\ IOut
  BY Zenon DEF IInv
<1>1. /\ p \notin Known(rows) /\ files[p] = NoFile /\ Free(rows) # {} /\ issued < MaxKeys
      /\ issued' = issued + 1 /\ Begin("create", p, row, server \cup {EntryOf(row)})
  BY Zenon DEF Create, NewKey
<1>2. issued' \in 1..MaxKeys /\ issued < issued' /\ issued <= issued' /\ issued' \in Key
  BY <1>0, <1>1, PeerAssumption DEF Data, Key
<1>3. Allocate(rows) \in Host /\ \A q \in Known(rows) : rows[q].host # Allocate(rows)
  BY <1>1, AllocateFree, Zenon DEF Free
<1>4. row \in Row /\ EntryOf(row) \in Entry /\ EntryOf(row)[1] = issued'
  BY <1>1, <1>2, <1>3, Zenon DEF Row, Entry
<1>5. \A e \in server \cup {EntryOf(row)} : e[1] <= issued' /\ e[1] \notin retired
  BY <1>0, <1>1, <1>2, <1>4 DEF IKey, IOut, Data, Entry, Key
<1>6. ServerMatches([rows EXCEPT ![p] = row], server \cup {EntryOf(row)})
  <2>1. ServerMatches(rows, server)
    BY <1>1, Zenon DEF Begin, Validates
  <2> QED
    BY SMTT(30), <1>0, <1>1, <1>4, <2>1 DEF ServerMatches, Data
<1>7. server \cup {EntryOf(row)} \in SUBSET Entry /\ row \in AnyRow
  BY <1>0, <1>4, Zenon DEF Data, AnyRow
<1>8. row.status = "active" /\ row.key = issued' /\ row.host = Allocate(rows)
  BY <1>1, Zenon
<1> HIDE DEF row
<1> QED
  BY <1>1, <1>2, <1>3, <1>4, <1>5, <1>6, <1>7, <1>8, BeginStep, Zenon

LEMMA RegenerateStep ==
    ASSUME IInv, NEW p \in Peer, Regenerate(p) PROVE IInv'
<1> DEFINE row == [rows[p] EXCEPT !.status = "active", !.key = issued + 1]
           new == Without(rows[p].key) \cup {EntryOf(row)}
<1>0. Data /\ IKey /\ IOut
  BY Zenon DEF IInv
<1>1. /\ p \in Known(rows) /\ issued < MaxKeys /\ issued' = issued + 1
      /\ Begin("regenerate", p, row, new)
  BY Zenon DEF Regenerate, NewKey
<1>2. issued' \in 1..MaxKeys /\ issued < issued' /\ issued <= issued' /\ issued' \in Key
  BY <1>0, <1>1, PeerAssumption DEF Data, Key
<1>3. rows[p] \in Row
  BY <1>0, <1>1 DEF Data, AnyRow, NoRow
<1>4. /\ row \in Row /\ row \in AnyRow /\ EntryOf(row) \in Entry /\ EntryOf(row)[1] = issued'
      /\ row.status = "active" /\ row.key = issued' /\ row.host = rows[p].host
  BY ZenonT(30), <1>1, <1>2, <1>3 DEF Row, Entry, AnyRow
<1>5. rows[p].key <= issued /\ rows[p].key \in Key
  BY <1>0, <1>3, Zenon DEF IKey, Row
<1>6. \A e \in new : e[1] <= issued' /\ e[1] \notin retired /\ e[1] # rows[p].key
  BY <1>0, <1>1, <1>2, <1>4, <1>5, PeerAssumption DEF IKey, IOut, Data, Entry, Key, Without
<1>7. Without(rows[p].key) = {EntryOf(rows[q]) : q \in ActivePeers(rows) \ {p}}
  <2>1. ServerMatches(rows, server)
    BY <1>1, Zenon DEF Begin, Validates
  <2> QED
    BY <1>0, <1>1, <2>1, WithoutOthers, Zenon DEF IKey
<1>8. new \in SUBSET Entry
  BY <1>0, <1>4, Zenon DEF Data, Without
<1> HIDE DEF row
<1>9. ServerMatches([rows EXCEPT ![p] = row], new)
  BY <1>0, <1>4, <1>7, Zenon DEF ServerMatches, Data
<1> HIDE DEF new
<1> QED
  BY <1>1, <1>2, <1>4, <1>6, <1>8, <1>9, BeginStep, Zenon

LEMMA RevokeStep ==
    ASSUME IInv, NEW p \in Peer, Revoke(p) PROVE IInv'
<1> DEFINE row == [rows[p] EXCEPT !.status = "revoked"]
           new == Without(rows[p].key)
<1>0. Data /\ IKey /\ IOut
  BY Zenon DEF IInv
<1>1. /\ p \in Known(rows) /\ issued' = issued /\ Begin("revoke", p, row, new)
  BY Zenon DEF Revoke
<1>2. issued' \in 1..MaxKeys /\ issued <= issued'
  BY <1>0, <1>1, PeerAssumption DEF Data
<1>3. rows[p] \in Row
  BY <1>0, <1>1 DEF Data, AnyRow, NoRow
<1>4. row \in AnyRow /\ row.status = "revoked"
  BY <1>3, Zenon DEF Row, AnyRow
<1>5. \A e \in new : e[1] <= issued' /\ e[1] \notin retired /\ e[1] # rows[p].key
  BY <1>0, <1>1, Zenon DEF IKey, IOut, Without
<1>6. new = {EntryOf(rows[q]) : q \in ActivePeers(rows) \ {p}}
  <2>1. ServerMatches(rows, server)
    BY <1>1, Zenon DEF Begin, Validates
  <2> QED
    BY <1>0, <1>1, <2>1, WithoutOthers, Zenon DEF IKey
<1>7. new \in SUBSET Entry
  BY <1>0, Zenon DEF Data, Without
<1>8. ServerMatches([rows EXCEPT ![p] = row], new)
  <2> HIDE DEF row, new
  <2> QED
    BY <1>0, <1>4, <1>6, Zenon DEF ServerMatches, Data
<1> HIDE DEF new
<1> QED
  BY <1>1, <1>2, <1>4, <1>5, <1>7, <1>8, BeginStep, Zenon

LEMMA DeleteStep ==
    ASSUME IInv, NEW p \in Peer, Delete(p) PROVE IInv'
<1>0. Data /\ IKey /\ IOut
  BY Zenon DEF IInv
<1>1. /\ p \in Known(rows) /\ p \notin ActivePeers(rows) /\ issued' = issued
      /\ Begin("delete", p, NoRow, server)
  BY Zenon DEF Delete
<1>2. issued' \in 1..MaxKeys /\ issued <= issued' /\ NoRow \in AnyRow /\ server \in SUBSET Entry
  BY <1>0, <1>1, PeerAssumption DEF Data, AnyRow
<1>3. \A e \in server : e[1] <= issued' /\ e[1] \notin retired
  BY <1>0, <1>1, Zenon DEF IKey, IOut
<1>4. ServerMatches([rows EXCEPT ![p] = NoRow], server)
  BY <1>0, <1>1, Zenon DEF ServerMatches, Data, Begin, Validates, NoRow
<1> QED
  BY <1>1, <1>2, <1>3, <1>4, BeginStep, Zenon

\* A stage change leaves the other fields of the change alone.
Moved(stage) ==
    /\ op' \in Change /\ op' # NoOp /\ op'.at = stage /\ op'.kind = op.kind /\ op'.peer = op.peer
    /\ op'.row = op.row /\ op'.old = op.old /\ op'.new = op.new /\ op'.file = op.file

LEMMA GotoFacts ==
    ASSUME Data, NEW stage \in Stages \ {"none"}, Goto(stage) PROVE Moved(stage)
BY Zenon DEF Data, Goto, NoOp, Moved, Change

\* The types of the fields of a change.
LEMMA OpTypes ==
    ASSUME Data PROVE /\ op.at \in Stages /\ op.peer \in Peer /\ op.row \in AnyRow
                      /\ op.kind \in {"none", "create", "regenerate", "revoke", "delete"}
                      /\ op.old \subseteq Entry /\ op.new \subseteq Entry /\ op.file \in Slot
BY SMTT(30) DEF Data, Change

LEMMA WriteServerStep == IInv /\ WriteServer => IInv'
<1> SUFFICES ASSUME IInv, WriteServer PROVE IInv'
  BY Zenon
<1>0. Data /\ IOp /\ IKey /\ IOut /\ IStage /\ IAgree /\ OthersKept /\ ILegacy
  BY Zenon DEF IInv
<1>1. /\ op.at = "server" /\ server' \in {server, op.new}
      /\ UNCHANGED <<profile, rows, files, kernel, issued, retired, doubt>>
  BY Zenon DEF WriteServer, At
<1>2. PICK stage \in {"client", "sync", "undo_server"} :
           /\ Goto(stage) /\ (stage # "undo_server" => server' = op.new)
           /\ (stage = "client" => HasClient) /\ (stage = "sync" => ~HasClient)
  BY Zenon DEF WriteServer
<1>3. Moved(stage)
  BY <1>0, <1>2, GotoFacts, Zenon DEF Stages
<1> USE DEF Moved
<1>4. op.kind \notin {"none", "delete"} /\ profile /\ server = op.old /\ files[op.peer] = op.file
  BY <1>0, <1>1, Zenon DEF IOp, IStage
<1>5. Data'
  BY <1>0, <1>1, <1>3, OpTypes, Zenon DEF Data
<1>6. IOp'
  BY <1>0, <1>1, <1>2, <1>3, <1>4, ZenonT(60) DEF IOp
<1>7. IKey'
  BY <1>0, <1>1, <1>3, ZenonT(60) DEF IKey
<1>8. IOut'
  BY <1>0, <1>1, <1>3, <1>4, Zenon DEF IOut
<1>9. IStage'
  BY SMTT(30), <1>0, <1>1, <1>2, <1>3, <1>4 DEF IStage
<1>10. IAgree'
  BY SMTT(30), <1>0, <1>1, <1>2, <1>3, <1>4 DEF IAgree, Agreement, After, ServerMatches
<1>11. OthersKept'
  <2>1. \A p \in ActivePeers(rows) : p # op.peer => EntryOf(rows[p]) \in op.new
    BY <1>0, <1>1, OpTypes, Zenon DEF IAgree, After, ServerMatches, Data
  <2> QED
    BY <1>0, <1>1, <1>2, <1>3, <1>4, <2>1, Zenon DEF OthersKept
<1> QED
  BY <1>0, <1>1, <1>4, <1>5, <1>6, <1>7, <1>8, <1>9, <1>10, <1>11, Zenon DEF ILegacy, IInv

LEMMA WriteClientStep == IInv /\ WriteClient => IInv'
<1> SUFFICES ASSUME IInv, WriteClient PROVE IInv'
  BY Zenon
<1>0. Data /\ IOp /\ IKey /\ IOut /\ IStage /\ IAgree /\ OthersKept /\ ILegacy
  BY Zenon DEF IInv
<1> DEFINE written == [files EXCEPT ![op.peer] = EntryOf(op.row)]
<1>1. /\ op.at = "client" /\ files' \in {files, written}
      /\ UNCHANGED <<profile, rows, server, kernel, issued, retired, doubt>>
  BY Zenon DEF WriteClient, At
<1>2. PICK stage \in {"sync", "undo_server"} :
           Goto(stage) /\ (stage # "undo_server" => files' = written)
  BY Zenon DEF WriteClient
<1>3. Moved(stage)
  BY <1>0, <1>2, GotoFacts, Zenon DEF Stages
<1> USE DEF Moved
<1>4. /\ HasClient /\ op.kind # "none" /\ op.kind # "delete" /\ profile /\ server = op.new
      /\ files[op.peer] = op.file
      /\ op.row \in Row /\ op.peer \in Peer /\ EntryOf(op.row) \in Entry
      /\ EntryOf(op.row)[1] = op.row.key
  BY <1>0, <1>1, OpTypes, Zenon DEF IOp, IStage, Row, Entry
<1>5. /\ \A q \in Peer : q # op.peer => files'[q] = files[q]
      /\ files'[op.peer] \in {files[op.peer], EntryOf(op.row)}
      /\ stage = "sync" => files'[op.peer] = EntryOf(op.row)
      /\ files' \in [Peer -> Slot]
  BY <1>0, <1>1, <1>2, <1>4, Zenon DEF Data, Slot
<1> HIDE DEF written
<1>6. Data'
  BY <1>0, <1>1, <1>3, <1>5, Zenon DEF Data
<1>7. IOp'
  BY SMTT(30), <1>0, <1>1, <1>2, <1>3, <1>4 DEF IOp
<1>8. IKey'
  BY SMTT(30), <1>0, <1>1, <1>3, <1>4, <1>5 DEF IKey
<1>9. IOut'
  BY SMTT(30), <1>0, <1>1, <1>3, <1>4, <1>5 DEF IOut, IKey
<1>10. IStage'
  BY SMTT(30), <1>0, <1>1, <1>2, <1>3, <1>4, <1>5 DEF IStage
<1>11. IAgree'
  BY SMTT(30), <1>0, <1>1, <1>2, <1>3, <1>4, <1>5 DEF IAgree, Agreement, After, ServerMatches
<1>12. OthersKept'
  BY <1>0, <1>1, <1>2, <1>3, <1>4, <1>5, Zenon DEF OthersKept
<1> QED
  BY <1>0, <1>1, <1>4, <1>6, <1>7, <1>8, <1>9, <1>10, <1>11, <1>12, Zenon DEF ILegacy, IInv

\* An entry that the interface and the file share survives a sync that fails, and nothing appears
\* that neither had.
LEMMA PartlySyncedFacts ==
    ASSUME kernel' \in PartlySynced \/ kernel' = server
    PROVE  kernel \cap server \subseteq kernel' /\ kernel' \subseteq kernel \cup server
BY SMTT(30) DEF PartlySynced

LEMMA SyncStep == IInv /\ Sync => IInv'
<1> SUFFICES ASSUME IInv, Sync PROVE IInv'
  BY Zenon
<1>0. Data /\ IOp /\ IKey /\ IOut /\ IStage /\ IAgree /\ OthersKept /\ ILegacy
  BY Zenon DEF IInv
<1>1. /\ op.at = "sync" /\ UNCHANGED <<profile, rows, server, files, issued, retired, doubt>>
      /\ kernel \cap server \subseteq kernel' /\ kernel' \subseteq kernel \cup server
  BY PartlySyncedFacts, Zenon DEF Sync, At
<1>2. PICK stage \in {"commit", "undo_server"} :
           Goto(stage) /\ (stage = "commit" => kernel' = server)
  BY Zenon DEF Sync
<1>3. Moved(stage)
  BY <1>0, <1>2, GotoFacts, Zenon DEF Stages
<1> USE DEF Moved
<1>4. op.kind # "none" /\ op.kind # "delete" /\ profile /\ server = op.new
  BY <1>0, <1>1, Zenon DEF IOp, IStage
<1>5. Data'
  BY <1>0, <1>1, <1>3, Zenon DEF Data
<1>6. IOp'
  BY SMTT(30), <1>0, <1>1, <1>2, <1>3, <1>4 DEF IOp
<1>7. IKey'
  BY <1>0, <1>1, <1>3, ZenonT(60) DEF IKey
<1>8. IOut'
  BY SMTT(30), <1>0, <1>1, <1>3, <1>4 DEF IOut
<1>9. IStage'
  BY SMTT(30), <1>0, <1>1, <1>2, <1>3, <1>4 DEF IStage
<1>10. IAgree'
  BY <1>0, <1>1, <1>2, <1>3, <1>4 DEF IAgree, Agreement, After, ServerMatches
<1>11. OthersKept'
  BY <1>0, <1>1, <1>3, <1>4, Zenon DEF OthersKept
<1> QED
  BY <1>0, <1>1, <1>4, <1>5, <1>6, <1>7, <1>8, <1>9, <1>10, <1>11, Zenon DEF ILegacy, IInv

LEMMA UnlinkStep == IInv /\ Unlink => IInv'
<1> SUFFICES ASSUME IInv, Unlink PROVE IInv'
  BY Zenon
<1>0. Data /\ IOp /\ IKey /\ IOut /\ IStage /\ IAgree /\ OthersKept /\ ILegacy
  BY Zenon DEF IInv
<1>1. /\ op.at = "unlink"
      /\ UNCHANGED <<profile, rows, server, kernel, issued, retired, doubt>>
  BY Zenon DEF Unlink, At
<1>2. PICK stage \in {"commit", "undo_client"} :
           /\ Goto(stage)
           /\ (stage = "commit" => files' = [files EXCEPT ![op.peer] = NoFile])
           /\ (stage = "undo_client" => files' = files)
  BY Zenon DEF Unlink
<1>3. Moved(stage)
  BY <1>0, <1>2, GotoFacts, Zenon DEF Stages
<1> USE DEF Moved
<1>4. /\ op.kind = "delete" /\ profile /\ server = op.old /\ op.new = op.old /\ op.peer \in Peer
      /\ op.row = NoRow /\ op.peer \notin ActivePeers(rows)
  BY <1>0, <1>1, OpTypes, Zenon DEF IOp, IStage
<1>5. /\ \A q \in Peer : q # op.peer => files'[q] = files[q]
      /\ files'[op.peer] \in {files[op.peer], NoFile}
      /\ stage = "commit" => files'[op.peer] = NoFile
      /\ files' \in [Peer -> Slot]
  BY <1>0, <1>2, <1>4, Zenon DEF Data, Slot
<1>6. Data'
  BY <1>0, <1>1, <1>3, <1>5, Zenon DEF Data
<1>7. IOp'
  BY SMTT(30), <1>0, <1>1, <1>2, <1>3, <1>4 DEF IOp
<1>8. IKey'
  <2>1. \A q \in Known(rows) : rows[q].key # 0
    BY <1>0, PeerAssumption DEF Data, AnyRow, Row, NoRow, Key
  <2>2. NoFile[1] = 0 /\ 0 <= issued
    BY SMTT(30), <1>0, PeerAssumption DEF NoFile, Data
  <2> QED
    BY <1>0, <1>1, <1>3, <1>4, <1>5, <2>1, <2>2 DEF IKey
<1>9. IOut'
  BY SMTT(30), <1>0, <1>1, <1>3, <1>4, <1>5 DEF IOut
<1>10. IStage'
  BY SMTT(30), <1>0, <1>1, <1>2, <1>3, <1>4, <1>5 DEF IStage
<1>11. IAgree'
  BY SMTT(30), <1>0, <1>1, <1>2, <1>3, <1>4, <1>5 DEF IAgree, Agreement, After, ServerMatches
<1>12. OthersKept'
  BY SMTT(30), <1>0, <1>1, <1>2, <1>3, <1>4, <1>5 DEF OthersKept
<1> QED
  BY <1>0, <1>1, <1>4, <1>6, <1>7, <1>8, <1>9, <1>10, <1>11, <1>12, Zenon DEF ILegacy, IInv

\* The end of a change leaves no trace of it in op.
LEMMA Ended ==
    ASSUME Data', op' = NoOp,
           \A e \in server' \cup kernel' : e[1] <= issued' /\ e[1] \notin retired',
           \A k \in retired' : k <= issued',
           \A p \in Peer : rows'[p].key <= issued' /\ files'[p][1] <= issued',
           \A p \in Peer, q \in Known(rows') : p # q => /\ files'[p][1] # rows'[q].key
                                                        /\ rows'[p].key # rows'[q].key,
           \A p, q \in Known(rows') : p # q => rows'[p].host # rows'[q].host,
           \A p \in ActivePeers(rows') : files'[p][1] \notin retired'
    PROVE  IOp' /\ IKey' /\ IOut' /\ IStage'
<1>1. /\ op'.at = "none" /\ op'.kind = "none" /\ op'.peer = Default /\ op'.row = NoRow
      /\ op'.old = {} /\ op'.new = {} /\ op'.file = NoFile
  BY Zenon DEF NoOp
<1>2. IOp'
  BY <1>1, Zenon DEF IOp
<1>3. IKey'
  <2>1. \A q \in Known(rows') : rows'[q].key # 0
    BY PeerAssumption DEF Data, AnyRow, Row, NoRow, Key
  <2>2. NoFile[1] = 0 /\ NoRow.key = 0 /\ 0 <= issued'
    BY PeerAssumption DEF NoFile, NoRow, Data
  <2> QED
    BY SMTT(30), <1>1, <2>1, <2>2 DEF IKey
<1>4. IOut'
  BY <1>1, Zenon DEF IOut
<1>5. IStage'
  BY <1>1, Zenon DEF IStage
<1> QED
  BY SMTT(30), <1>2, <1>3, <1>4, <1>5

\* A change that ends without a commit: the server file is one of its two, the file of its peer
\* holds a key of its own, and the interface has gained nothing but the file's entries.
LEMMA Dropped ==
    ASSUME IInv, op' = NoOp, op.at # "none", server' \in {server, op.old},
           kernel' \subseteq kernel \cup server, files' \in [Peer -> Slot],
           \A q \in Peer : files'[q] = files[q] \/ (q = op.peer /\ files'[q] = op.file),
           UNCHANGED <<profile, rows, issued, retired>>, doubt' \subseteq Peer
    PROVE  Data' /\ IOp' /\ IKey' /\ IOut' /\ IStage' /\ ILegacy'
<1>0. Data /\ IOp /\ IKey /\ IOut /\ ILegacy
  BY Zenon DEF IInv
<1>1. Data'
  <2>1. NoOp \in Change
    BY PeerAssumption, Zenon DEF NoOp, Change, Stages, AnyRow, Slot
  <2> QED
    BY SMTT(30), <1>0, <2>1, OpTypes DEF Data
<1>2. profile
  BY <1>0, Zenon DEF IOp
<1>3. \A e \in server' \cup kernel' : e[1] <= issued /\ e[1] \notin retired
  BY <1>0, ZenonT(60) DEF IKey, IOut
<1>4. \A p \in Peer : rows[p].key <= issued /\ files'[p][1] <= issued
  BY <1>0, Zenon DEF IKey
<1>5. \A p \in Peer, q \in Known(rows) : p # q => /\ files'[p][1] # rows[q].key
                                                  /\ rows[p].key # rows[q].key
  BY <1>0 DEF IKey
<1>6. \A p \in ActivePeers(rows) : files'[p][1] \notin retired
  BY SMTT(30), <1>0 DEF IOut
<1>7. IOp' /\ IKey' /\ IOut' /\ IStage'
  BY <1>0, <1>1, <1>3, <1>4, <1>5, <1>6, Ended, ZenonT(60) DEF IKey
<1> QED
  BY <1>1, <1>2, <1>7, Zenon DEF ILegacy

\* A change that is cut, or whose rollback failed, puts its own peer in doubt and keeps the others.
LEMMA Doubted ==
    ASSUME IInv, op' = NoOp, op.at # "none", server' \in {server, op.old},
           kernel' \subseteq kernel \cup server, kernel \cap server \subseteq kernel',
           files' \in [Peer -> Slot],
           \A q \in Peer : files'[q] = files[q] \/ (q = op.peer /\ files'[q] = op.file),
           UNCHANGED <<profile, rows, issued, retired>>, doubt' = doubt \cup {op.peer}
    PROVE  IInv'
<1>0. Data /\ IAgree /\ OthersKept
  BY Zenon DEF IInv
<1>1. doubt' \subseteq Peer /\ doubt' # {}
  BY <1>0, OpTypes, Zenon DEF Data
<1>2. Data' /\ IOp' /\ IKey' /\ IOut' /\ IStage' /\ ILegacy'
  BY <1>1, Dropped, Zenon
<1>3. op'.at = "none" /\ op'.kind = "none"
  BY SMTT(30) DEF NoOp
<1>4. IAgree'
  BY <1>1, <1>3, Zenon DEF IAgree, Agreement
<1>5. OthersKept'
  <2>1. \A p \in ActivePeers(rows) : EntryOf(rows[p]) \in op.old
    BY <1>0, Zenon DEF IAgree, ServerMatches
  <2> QED
    BY SMTT(30), <1>0, <1>3, <2>1 DEF OthersKept
<1> QED
  BY <1>2, <1>4, <1>5, Zenon DEF IInv

LEMMA CommitStep == IInv /\ Commit => IInv'
<1> SUFFICES ASSUME IInv, Commit PROVE IInv'
  BY Zenon
<1>0. Data /\ IOp /\ IKey /\ IOut /\ IStage /\ IAgree /\ OthersKept /\ ILegacy
  BY Zenon DEF IInv
<1>1. op.at = "commit" /\ UNCHANGED <<profile, server, files, kernel, issued>>
  BY Zenon DEF Commit, At
<1>2. op.kind # "none" /\ profile /\ server = op.new /\ op.peer \in Peer /\ op.row \in AnyRow
  BY <1>0, <1>1, OpTypes, Zenon DEF IOp, IStage
<1>3. CASE /\ Goto(IF op.kind = "delete" THEN "undo_client" ELSE "undo_server")
           /\ UNCHANGED <<rows, retired, doubt>>
  <2>1. PICK stage \in {"undo_client", "undo_server"} :
             Goto(stage) /\ (stage = "undo_client" <=> op.kind = "delete")
    BY <1>3, Zenon
  <2>2. Moved(stage)
    BY SMTT(30), <1>0, <2>1, GotoFacts DEF Stages
  <2> USE <1>0, <1>1, <1>2, <1>3, <2>1, <2>2 DEF Moved
  <2>3. Data'
    BY Zenon DEF Data
  <2>4. IOp'
    BY SMTT(30) DEF IOp
  <2>5. IKey'
    BY ZenonT(60) DEF IKey
  <2>6. IOut'
    BY Zenon DEF IOut
  <2>7. IStage'
    BY SMTT(30) DEF IStage, IOp
  <2>8. IAgree'
    BY SMTT(30) DEF IAgree, Agreement, After, ServerMatches
  <2>9. OthersKept'
    BY Zenon DEF OthersKept
  <2> QED
    BY <2>3, <2>4, <2>5, <2>6, <2>7, <2>8, <2>9, Zenon DEF ILegacy, IInv
<1>4. CASE /\ rows' = After /\ op' = NoOp
           /\ retired' = IF op.kind \in {"regenerate", "revoke"}
                         THEN retired \cup {rows[op.peer].key} ELSE retired
           /\ doubt' = IF op.kind = "delete" THEN doubt ELSE {}
  <2>1. /\ rows' \in [Peer -> AnyRow] /\ rows'[op.peer] = op.row
        /\ \A q \in Peer : q # op.peer => rows'[q] = rows[q]
    BY <1>0, <1>2, <1>4, Zenon DEF Data, After
  <2>2. \A q \in Known(rows) : rows[q] \in Row /\ rows[q].key \in Key
    BY <1>0 DEF Data, AnyRow, Row, NoRow
  <2>3. Data'
    <3>1. NoOp \in Change
      BY PeerAssumption, Zenon DEF NoOp, Change, Stages, AnyRow, Slot
    <3>2. retired' \subseteq Key /\ doubt' \subseteq Peer
      BY SMTT(30), <1>0, <1>4, <2>2 DEF Data, IOp
    <3> QED
      BY SMTT(30), <1>0, <1>1, <1>4, <2>1, <3>1, <3>2 DEF Data
  <2>4. \A e \in server \cup kernel : e[1] <= issued /\ e[1] \notin retired'
    BY SMTT(30), <1>0, <1>1, <1>2, <1>4 DEF IKey, IOut, IStage
  <2>5. \A k \in retired' : k <= issued
    BY SMTT(30), <1>0, <1>2, <1>4 DEF IKey
  <2>6. \A p \in Peer : rows'[p].key <= issued /\ files[p][1] <= issued
    BY SMTT(30), <1>0, <2>1 DEF IKey
  <2>7. op.row.key # 0 => \A q \in Peer : q # op.peer => /\ files[q][1] # op.row.key
                                                         /\ rows[q].key # op.row.key
    <3>1. CASE HasClient
      <4>1. \A q \in Peer \ Known(rows) : rows[q].key = 0
        BY <1>0 DEF Data, AnyRow, Row, NoRow
      <4> QED
        BY <1>0, <3>1, <4>1, Zenon DEF IKey
    <3>2. CASE op.kind = "revoke"
      <4>1. op.peer \in Known(rows) /\ op.row.key = rows[op.peer].key
        BY <1>0, <2>2, <3>2, Zenon DEF IOp, Row
      <4> QED
        BY <1>0, <1>2, <4>1, Zenon DEF IKey
    <3>3. CASE op.kind = "delete"
      BY SMTT(30), <1>0, <3>3 DEF IOp, NoRow
    <3> QED
      BY SMTT(30), <1>0, <1>2, <3>1, <3>2, <3>3, OpTypes
  <2>8. \A p \in Peer, q \in Known(rows') : p # q => /\ files[p][1] # rows'[q].key
                                                     /\ rows'[p].key # rows'[q].key
    <3>1. op.peer \in Known(rows') => op.row.key # 0
      BY <1>2, <2>1, PeerAssumption DEF AnyRow, Row, NoRow, Key
    <3> QED
      BY SMTT(30), <1>0, <2>1, <2>7, <3>1 DEF IKey
  <2>9. \A p, q \in Known(rows') : p # q => rows'[p].host # rows'[q].host
    <3>1. \A q \in Known(rows) : q # op.peer /\ op.peer \in Known(rows') => op.row.host # rows[q].host
      <4>1. CASE op.kind = "create"
        BY <1>0, <4>1, Zenon DEF IOp
      <4>2. CASE op.kind = "regenerate"
        BY SMTT(30), <1>0, <4>2 DEF IOp, IKey
      <4>3. CASE op.kind = "revoke"
        <5>1. op.peer \in Known(rows) /\ op.row.host = rows[op.peer].host
          BY <1>0, <2>2, <4>3, Zenon DEF IOp, Row
        <5> QED
          BY <1>0, <5>1, Zenon DEF IKey
      <4>4. CASE op.kind = "delete"
        BY <1>0, <2>1, <4>4 DEF IOp, NoRow
      <4> QED
        BY <1>0, <1>2, <4>1, <4>2, <4>3, <4>4, OpTypes, Zenon
    <3> QED
      BY SMTT(30), <1>0, <2>1, <3>1 DEF IKey
  <2>10. \A p \in ActivePeers(rows') : files[p][1] \notin retired'
    <3> SUFFICES ASSUME NEW p \in ActivePeers(rows') PROVE files[p][1] \notin retired'
      BY Zenon
    <3>1. CASE p # op.peer
      <4>1. files[p][1] \notin retired
        BY <1>0, <2>1, <3>1, Zenon DEF IOut
      <4>2. op.kind \in {"regenerate", "revoke"} => files[p][1] # rows[op.peer].key
        BY <1>0, <3>1, Zenon DEF IOp, IKey
      <4> QED
        BY <1>4, <4>1, <4>2, Zenon
    <3>2. CASE p = op.peer
      <4>1. HasClient
        BY SMTT(30), <1>0, <1>2, <2>1, <2>2, <3>2, OpTypes DEF IOp, NoRow, Row
      <4>2. files[p] = EntryOf(op.row) /\ op.row.key \notin retired
        BY <1>0, <1>1, <3>2, <4>1, Zenon DEF IStage, IKey
      <4>3. op.kind = "regenerate" => op.row.key # rows[op.peer].key
        BY SMTT(30), <1>0 DEF IOp
      <4> QED
        BY <1>4, <4>1, <4>2, <4>3
    <3> QED
      BY <3>1, <3>2, Zenon
  <2>11. IOp' /\ IKey' /\ IOut' /\ IStage'
    BY SMTT(30), <1>1, <1>4, <2>3, <2>4, <2>5, <2>6, <2>8, <2>9, <2>10, Ended
  <2>12. op'.at = "none" /\ op'.kind = "none"
    BY SMTT(30), <1>4 DEF NoOp
  <2>13. ServerMatches(rows', server)
    BY <1>0, <1>1, <1>2, <1>4, Zenon DEF IAgree, ServerMatches
  <2>14. \A p \in Known(rows') : FileMatches(rows', files, p)
    <3>1. \A p \in Known(rows') : p # op.peer => FileMatches(rows', files, p)
      BY SMTT(30), <1>0, <1>1, <2>1 DEF IAgree
    <3>2. CASE HasClient
      BY SMTT(30), <1>0, <1>1, <2>1, <3>1, <3>2 DEF IStage
    <3>3. CASE op.kind = "revoke"
      <4>1. op.peer \in Known(rows) /\ EntryOf(op.row) = EntryOf(rows[op.peer])
        BY SMTT(30), <1>0, <2>2, <3>3 DEF IOp, Row
      <4>2. files[op.peer] = EntryOf(rows[op.peer])
        BY <1>0, <1>1, <3>3, <4>1, Zenon DEF IStage, IAgree
      <4> QED
        BY <2>1, <3>1, <4>1, <4>2, Zenon
    <3>4. CASE op.kind = "delete"
      BY SMTT(30), <1>0, <2>1, <3>1, <3>4 DEF IOp, NoRow
    <3> QED
      BY SMTT(30), <1>0, <1>2, <3>2, <3>3, <3>4, OpTypes
  <2>15. IAgree'
    <3>1. doubt' = {} => kernel = server
      BY <1>0, <1>1, <1>2, <1>4, Zenon DEF IStage, IAgree, IOp
    <3> QED
      BY SMTT(30), <1>1, <2>12, <2>13, <2>14, <3>1 DEF IAgree, Agreement, Validates, ServerMatches
  <2>16. OthersKept'
    <3>1. \A p \in ActivePeers(rows') : EntryOf(rows'[p]) \in server /\ FileMatches(rows', files, p)
      BY <2>13, <2>14, Zenon DEF ServerMatches
    <3>2. CASE op.kind # "delete"
      BY ZenonT(30), <1>0, <1>1, <3>1, <3>2 DEF IStage, OthersKept
    <3>3. CASE op.kind = "delete"
      BY <1>0, <1>1, <1>4, <2>1, <3>1, <3>3 DEF OthersKept, IOp, NoRow
    <3> QED
      BY <3>2, <3>3, Zenon
  <2> QED
    BY SMTT(30), <1>1, <1>2, <2>3, <2>11, <2>15, <2>16 DEF ILegacy, IInv
<1> QED
  BY <1>3, <1>4, Zenon DEF Commit, After

LEMMA UndoServerStep == IInv /\ UndoServer => IInv'
<1> SUFFICES ASSUME IInv, UndoServer PROVE IInv'
  BY Zenon
<1>0. Data /\ IOp /\ IKey /\ IOut /\ IStage /\ IAgree /\ OthersKept /\ ILegacy
  BY Zenon DEF IInv
<1>1. op.at = "undo_server" /\ UNCHANGED <<profile, rows, files, kernel, issued, retired>>
  BY SMTT(30) DEF UndoServer, At
<1>2. CASE /\ server' = op.old /\ Goto(IF HasClient THEN "undo_client" ELSE "undo_sync")
           /\ UNCHANGED doubt
  <2>1. PICK stage \in {"undo_client", "undo_sync"} :
             Goto(stage) /\ (stage = "undo_client" <=> HasClient)
    BY <1>2, Zenon
  <2>2. Moved(stage)
    BY <1>0, <2>1, GotoFacts, Zenon DEF Stages
  <2>3. op.kind # "none" /\ op.kind # "delete" /\ profile
    BY <1>0, <1>1, Zenon DEF IOp
  <2>4. ~HasClient => op.kind = "revoke"
    BY SMTT(30), <1>0, <2>3, OpTypes
  <2> USE <1>0, <1>1, <1>2, <2>1, <2>2, <2>3, <2>4 DEF Moved
  <2>5. Data'
    BY OpTypes, Zenon DEF Data
  <2>6. IOp'
    BY SMTT(30) DEF IOp
  <2>7. IKey'
    BY SMTT(30) DEF IKey
  <2>8. IOut'
    BY SMTT(30) DEF IOut
  <2>9. IStage'
    BY SMTT(30) DEF IStage
  <2>10. IAgree'
    BY SMTT(30) DEF IAgree, Agreement, After, ServerMatches
  <2>11. OthersKept'
    BY SMTT(30) DEF OthersKept, IAgree, ServerMatches
  <2> QED
    BY <2>5, <2>6, <2>7, <2>8, <2>9, <2>10, <2>11, Zenon DEF ILegacy, IInv
<1>3. CASE server' \in {server, op.old} /\ RollbackFailed
  BY <1>0, <1>1, <1>3, Doubted, Zenon DEF RollbackFailed, Data
<1> QED
  BY <1>2, <1>3, Zenon DEF UndoServer

LEMMA UndoClientStep == IInv /\ UndoClient => IInv'
<1> SUFFICES ASSUME IInv, UndoClient PROVE IInv'
  BY Zenon
<1>0. Data /\ IOp /\ IKey /\ IOut /\ IStage /\ IAgree /\ OthersKept /\ ILegacy
  BY Zenon DEF IInv
<1> DEFINE restored == [files EXCEPT ![op.peer] = op.file]
<1>1. /\ op.at = "undo_client" /\ files' \in {files, restored}
      /\ UNCHANGED <<profile, rows, server, kernel, issued, retired>>
  BY Zenon DEF UndoClient, At
<1>2. /\ op.kind \notin {"none", "revoke"} /\ profile /\ server = op.old /\ op.peer \in Peer
      /\ op.file \in Slot
  BY <1>0, <1>1, OpTypes, Zenon DEF IOp, IStage
<1>3. /\ files' \in [Peer -> Slot]
      /\ \A q \in Peer : files'[q] = files[q] \/ (q = op.peer /\ files'[q] = op.file)
      /\ files' = restored => files'[op.peer] = op.file
  BY <1>0, <1>1, <1>2, Zenon DEF Data
<1> HIDE DEF restored
<1>4. CASE files' = restored /\ UNCHANGED doubt /\ op.kind = "delete" /\ op' = NoOp
  <2>1. Data' /\ IOp' /\ IKey' /\ IOut' /\ IStage' /\ ILegacy'
    BY <1>0, <1>1, <1>3, <1>4, Dropped, Zenon DEF Data
  <2>2. op'.at = "none" /\ op'.kind = "none"
    BY SMTT(30), <1>4 DEF NoOp
  <2>3. \A p \in Known(rows) : FileMatches(rows, files', p)
    BY SMTT(30), <1>0, <1>1, <1>3, <1>4 DEF IAgree
  <2>4. IAgree'
    BY <1>0, <1>1, <1>2, <1>4, <2>2, <2>3, ZenonT(60) DEF IAgree, Agreement, Validates, ServerMatches
  <2>5. OthersKept'
    BY SMTT(30), <1>0, <1>1, <1>3, <1>4, <2>2, <2>3 DEF OthersKept, IOp
  <2> QED
    BY SMTT(30), <2>1, <2>4, <2>5 DEF IInv
<1>5. CASE files' = restored /\ UNCHANGED doubt /\ op.kind # "delete" /\ Goto("undo_sync")
  <2>1. Moved("undo_sync")
    BY SMTT(30), <1>0, <1>5, GotoFacts DEF Stages
  <2> USE <1>0, <1>1, <1>2, <1>3, <1>5, <2>1 DEF Moved
  <2>2. Data'
    BY Zenon DEF Data
  <2>3. IOp'
    BY SMTT(30) DEF IOp
  <2>4. IKey'
    BY SMTT(30) DEF IKey
  <2>5. IOut'
    BY SMTT(30) DEF IOut
  <2>6. IStage'
    BY SMTT(30) DEF IStage
  <2>7. IAgree'
    BY SMTT(30) DEF IAgree, Agreement, After, ServerMatches
  <2>8. OthersKept'
    BY SMTT(30) DEF OthersKept
  <2> QED
    BY <2>2, <2>3, <2>4, <2>5, <2>6, <2>7, <2>8, Zenon DEF ILegacy, IInv
<1>6. CASE RollbackFailed
  BY <1>0, <1>1, <1>2, <1>3, <1>6, Doubted, Zenon DEF RollbackFailed
<1> QED
  BY <1>4, <1>5, <1>6, Zenon DEF UndoClient, restored

LEMMA UndoSyncStep == IInv /\ UndoSync => IInv'
<1> SUFFICES ASSUME IInv, UndoSync PROVE IInv'
  BY Zenon
<1>0. Data /\ IOp /\ IKey /\ IOut /\ IStage /\ IAgree /\ OthersKept /\ ILegacy
  BY Zenon DEF IInv
<1>1. /\ op.at = "undo_sync" /\ UNCHANGED <<profile, rows, server, files, issued, retired>>
      /\ kernel \cap server \subseteq kernel' /\ kernel' \subseteq kernel \cup server
  BY SMTT(30), PartlySyncedFacts DEF UndoSync, At
<1>2. CASE kernel' = server /\ op' = NoOp /\ UNCHANGED doubt
  <2>1. Data' /\ IOp' /\ IKey' /\ IOut' /\ IStage' /\ ILegacy'
    BY SMTT(30), <1>0, <1>1, <1>2, Dropped DEF Data
  <2>2. op'.at = "none" /\ op'.kind = "none"
    BY <1>2, Zenon DEF NoOp
  <2>3. server = op.old /\ files[op.peer] = op.file
    BY SMTT(30), <1>0, <1>1 DEF IStage
  <2>4. Validates(rows, server, files)
    BY SMTT(30), <1>0, <1>1, <2>3 DEF IAgree, Validates, ServerMatches
  <2>5. IAgree'
    BY SMTT(30), <1>1, <1>2, <2>2, <2>4 DEF IAgree, Agreement, Validates, ServerMatches
  <2>6. OthersKept'
    BY SMTT(30), <1>1, <1>2, <2>4 DEF OthersKept, Validates, ServerMatches
  <2> QED
    BY <2>1, <2>5, <2>6, Zenon DEF IInv
<1>3. CASE RollbackFailed
  BY <1>0, <1>1, <1>3, Doubted, Zenon DEF RollbackFailed, Data
<1> QED
  BY <1>2, <1>3, Zenon DEF UndoSync

LEMMA CutStep ==
    ASSUME IInv, Cut, kernel' \in {kernel, server},
           UNCHANGED <<profile, rows, server, files, issued, retired>>
    PROVE  IInv'
<1>0. Data /\ IOp /\ IKey /\ IOut /\ IStage /\ IAgree /\ OthersKept /\ ILegacy
  BY Zenon DEF IInv
<1>1. kernel \cap server \subseteq kernel' /\ kernel' \subseteq kernel \cup server
  BY SMTT(30)
<1>2. op' = NoOp /\ op'.at = "none" /\ op'.kind = "none"
  BY Zenon DEF Cut, NoOp
<1>3. CASE op.at = "none"
  <2>1. op' = op /\ UNCHANGED <<profile, rows, server, files, issued, retired, doubt>>
    BY SMTT(30), <1>0, <1>2, <1>3 DEF IOp, Cut
  <2> USE <1>0, <1>1, <1>2, <1>3, <2>1
  <2>2. Data'
    BY Zenon DEF Data
  <2>3. IOp' /\ IStage'
    BY SMTT(30) DEF IOp, IStage
  <2>4. IKey'
    <3>1. \A e \in server' \cup kernel' \cup op'.old \cup op'.new : e[1] <= issued'
      BY Zenon DEF IKey
    <3> QED
      BY <3>1, ZenonT(60) DEF IKey
  <2>5. IOut'
    BY SMTT(30) DEF IOut
  <2>6. IAgree'
    BY SMTT(30) DEF IAgree, Agreement, Validates, ServerMatches
  <2>7. OthersKept'
    BY Zenon DEF OthersKept
  <2>8. ILegacy'
    BY DEF ILegacy
  <2> QED
    BY <2>2, <2>3, <2>4, <2>5, <2>6, <2>7, <2>8, Zenon DEF IInv
<1>4. CASE op.at \in {"server", "unlink"}
  <2>1. doubt' = doubt /\ server = op.old /\ files[op.peer] = op.file
    BY SMTT(30), <1>0, <1>4 DEF Cut, IStage
  <2>2. Data' /\ IOp' /\ IKey' /\ IOut' /\ IStage' /\ ILegacy'
    BY SMTT(30), <1>0, <1>1, <1>2, <1>4, <2>1, Dropped DEF Data
  <2>3. Validates(rows, server, files)
    BY SMTT(30), <1>0, <1>4, <2>1 DEF IAgree, Validates, ServerMatches
  <2>4. IAgree'
    <3>1. doubt = {} => kernel = server
      BY SMTT(30), <1>0, <1>4, <2>1 DEF IAgree, IOp
    <3> QED
      BY <1>2, <2>1, <2>3, <3>1, Zenon DEF IAgree, Agreement, Validates, ServerMatches
  <2>5. OthersKept'
    <3>1. \A p \in ActivePeers(rows) \ doubt : EntryOf(rows[p]) \in kernel
      BY SMTT(30), <1>0, <1>4 DEF IStage, OthersKept, IOp
    <3> QED
      BY <1>1, <2>1, <2>3, <3>1, Zenon DEF OthersKept, Validates, ServerMatches
  <2> QED
    BY SMTT(30), <2>2, <2>4, <2>5 DEF IInv
<1>5. CASE op.at \notin {"none", "server", "unlink"}
  BY <1>0, <1>1, <1>2, <1>5, Doubted, Zenon DEF Cut, Data
<1> QED
  BY <1>3, <1>4, <1>5, Zenon

LEMMA InvStep == IInv /\ [Next]_vars => IInv'
<1> SUFFICES ASSUME IInv, [Next]_vars PROVE IInv'
  BY Zenon
<1>1. ASSUME NEW p \in Peer, Create(p) \/ Regenerate(p) \/ Revoke(p) \/ Delete(p) PROVE IInv'
  BY <1>1, CreateStep, RegenerateStep, RevokeStep, DeleteStep, Zenon
<1>2. ASSUME NEW p \in Peer, ReadStart(p) \/ ReadCheck(p) PROVE IInv'
  BY <1>2, CoreSame, Zenon DEF ReadStart, ReadCheck, core
<1>3. CASE ReadReturn \/ BackupStart \/ BackupEnd
  BY <1>3, CoreSame, Zenon DEF ReadReturn, BackupStart, BackupEnd, core
<1>4. CASE Crash \/ Reboot
  BY <1>4, CutStep, Zenon DEF Crash, Reboot
<1>5. CASE UNCHANGED vars
  BY <1>5, CoreSame, Zenon DEF vars, core
<1>6. CASE Migrate \/ WriteServer \/ WriteClient \/ Sync \/ Unlink \/ Commit
  BY <1>6, MigrateStep, WriteServerStep, WriteClientStep, SyncStep, UnlinkStep, CommitStep, Zenon
<1>7. CASE UndoServer \/ UndoClient \/ UndoSync
  BY <1>7, UndoServerStep, UndoClientStep, UndoSyncStep, Zenon
<1> QED
  BY <1>1, <1>2, <1>3, <1>4, <1>5, <1>6, <1>7, Zenon DEF Next

LEMMA InvInit == Init => IInv
<1> SUFFICES ASSUME Init PROVE IInv
  BY SMTT(30)
<1> USE PeerAssumption DEF Init
<1>1. /\ op.at = "none" /\ op.kind = "none" /\ op.peer = Default /\ op.row = NoRow
      /\ op.old = {} /\ op.new = {} /\ op.file = NoFile
  BY Zenon DEF NoOp
<1>2. Data
  <2>1. <<1, 1>> \in Entry /\ NoOp \in Change
    BY DEF Entry, Key, Host, NoOp, Change, Stages, AnyRow, Slot
  <2> QED
    BY SMTT(30), <2>1 DEF Data, AnyRow, Slot
<1>3. \A p \in Peer : /\ rows[p].status = "none" /\ rows[p].key = 0
                      /\ files[p][1] \in {0, 1}
  BY Zenon DEF NoRow, NoFile
<1>4. Known(rows) = {} /\ ActivePeers(rows) = {}
  BY <1>3, Zenon
<1>5. IOp
  BY SMTT(30), <1>1 DEF IOp
<1>6. IKey
  <2>1. NoRow.key = 0 /\ NoFile[1] = 0 /\ \A e \in server \cup kernel : e[1] = 1
    BY SMTT(30) DEF NoRow, NoFile
  <2> QED
    BY <1>1, <1>3, <1>4, <2>1 DEF IKey
<1>7. IOut /\ IStage /\ IAgree /\ OthersKept
  BY <1>1, <1>4, Zenon DEF IOut, IStage, IAgree, Agreement, OthersKept
<1>8. ILegacy
  BY Zenon DEF ILegacy
<1> QED
  BY <1>2, <1>5, <1>6, <1>7, <1>8, Zenon DEF IInv

LEMMA InvAlways == Spec => []IInv
BY InvInit, InvStep, PTL DEF Spec

\* The types of the readers and of the Boolean variable, which the invariant leaves out.
Readers ==
    /\ backup \in [at : {"idle", "files"}, rows : [Peer -> AnyRow]]
    /\ read \in [at : {"idle", "check", "done"}, peer : Peer, rows : [Peer -> AnyRow],
                 left : SUBSET Peer, got : Slot]

LEMMA ReadersStep == IInv /\ Readers /\ [Next]_vars => Readers'
<1> SUFFICES ASSUME IInv, Readers, [Next]_vars PROVE Readers'
  BY Zenon
<1>1. rows \in [Peer -> AnyRow] /\ files \in [Peer -> Slot]
  BY SMTT(30) DEF IInv, Data
<1>2. /\ NoRead \in [at : {"idle", "check", "done"}, peer : Peer, rows : [Peer -> AnyRow],
                     left : SUBSET Peer, got : Slot]
      /\ NoBackup \in [at : {"idle", "files"}, rows : [Peer -> AnyRow]]
  BY SMTT(30), PeerAssumption DEF NoRead, NoBackup, AnyRow, Slot
<1>3. ASSUME NEW p \in Peer, ReadStart(p) PROVE Readers'
  BY <1>1, <1>3, Zenon DEF ReadStart, Readers, Slot
<1>4. ASSUME NEW p \in Peer, ReadCheck(p) PROVE Readers'
  BY <1>2, <1>4, Zenon DEF ReadCheck, Readers
<1>5. CASE ReadReturn
  <2>1. read'.got \in Slot /\ UNCHANGED backup
    BY <1>1, <1>5, Zenon DEF ReadReturn, Readers, NoRead, Slot
  <2>2. files[read.peer] \in Slot
    BY <1>1, Zenon DEF Readers
  <2> QED
    BY ZenonT(30), <1>2, <1>5, <2>1, <2>2 DEF ReadReturn, Readers
<1>6. CASE BackupStart \/ BackupEnd
  BY <1>1, <1>2, <1>6 DEF BackupStart, BackupEnd, Readers
<1>7. CASE Crash \/ Reboot
  BY <1>2, <1>7, Zenon DEF Crash, Reboot, Cut, Readers
<1>8. CASE UNCHANGED <<read, backup>>
  BY <1>8, Zenon DEF Readers
<1> QED
  BY ZenonT(30), <1>3, <1>4, <1>5, <1>6, <1>7, <1>8
     DEF Next, vars, Migrate, Create, Regenerate, Revoke, Delete,
     Begin, WriteServer, WriteClient, Sync, Unlink, Commit, UndoServer, UndoClient, UndoSync

LEMMA ReadersAlways == Spec => []Readers
<1>1. Init => Readers
  BY PeerAssumption DEF Init, Readers, NoRead, NoBackup, AnyRow, Slot
<1> QED
  BY <1>1, ReadersStep, InvAlways, PTL DEF Spec

Flags == profile \in BOOLEAN

LEMMA FlagsAlways == Spec => []Flags
<1>1. Init => Flags
  BY ZenonT(30) DEF Init, Flags
<1>2. Flags /\ [Next]_vars => Flags'
  BY Zenon DEF Flags, Next, vars, Migrate, Create, Regenerate, Revoke, Delete, Begin, WriteServer,
     WriteClient, Sync, Unlink, Commit, UndoServer, UndoClient, UndoSync, ReadStart, ReadCheck,
     ReadReturn, BackupStart, BackupEnd, Crash, Reboot
<1> QED
  BY <1>1, <1>2, PTL DEF Spec
----------------------------------------------------------------------------
(* Theorems *)

\* Rows, files and interface hold entries of known keys and addresses at every step of a change,
\* of its restore and of a reader.
THEOREM TypeCorrect == Spec => []TypeOK
<1>1. IInv /\ Readers /\ Flags => TypeOK
  <2> SUFFICES ASSUME IInv, Readers, Flags PROVE TypeOK
    BY Zenon
  <2>1. issued \in 0..MaxKeys
    BY PeerAssumption DEF IInv, Data
  <2> QED
    BY <2>1, Zenon DEF IInv, Data, Readers, Flags, TypeOK, Change, AnyRow, Slot
<1> QED
  BY <1>1, InvAlways, ReadersAlways, FlagsAlways, PTL

\* Whatever sequence of failed writes, syncs, commits, restores and crashes came before, the four
\* copies agree between changes unless a change was cut or reported as rollback failed.
THEOREM CopiesAgree == Spec => []Agreement
<1>1. IInv => Agreement
  BY Zenon DEF IInv, IAgree
<1> QED
  BY <1>1, InvAlways, PTL

\* A revoked, replaced or deleted key never returns to the server file or the interface.
THEOREM RetiredKeysStayOut == Spec => []RetiredStaysOut
<1>1. IInv => RetiredStaysOut
  BY Zenon DEF IInv, IOut, RetiredStaysOut
<1> QED
  BY <1>1, InvAlways, PTL

\* Every change keeps the peers that it is not about.
THEOREM OtherPeersKept == Spec => []OthersKept
<1>1. IInv => OthersKept
  BY SMTT(30) DEF IInv
<1> QED
  BY <1>1, InvAlways, PTL

\* _allocate never gives out an address that a row still reserves.
THEOREM AddressesUnique == Spec => []AddressesDistinct
<1>1. IInv => AddressesDistinct
  BY Zenon DEF IInv, IKey, AddressesDistinct
<1> QED
  BY <1>1, InvAlways, PTL

\* configuration never hands out a retired key.
THEOREM RetiredNotServed == Spec => NoRetiredServed
<1> DEFINE Step == read.at = "check" /\ read'.at = "done" => read'.got[1] \notin retired
<1>1. IInv /\ Readers /\ [Next]_vars => [Step]_vars
  <2> SUFFICES ASSUME IInv, Readers, Next, read.at = "check", read'.at = "done"
               PROVE  read'.got[1] \notin retired
    BY Zenon
  <2>1. ASSUME NEW p \in Peer PROVE ~ReadStart(p) /\ ~ReadCheck(p)
    BY DEF ReadStart, ReadCheck, NoRead, Readers
  <2>2. CASE ReadReturn
    <3>1. read.peer \in ActivePeers(rows) /\ read'.got = files[read.peer]
      BY SMTT(30), <2>2 DEF ReadReturn, NoRead
    <3> QED
      BY <3>1, Zenon DEF IInv, IOut
  <2>3. CASE Crash \/ Reboot
    BY <2>3 DEF Crash, Reboot, Cut, NoRead
  <2>4. CASE ~ReadReturn /\ ~Crash /\ ~Reboot
    BY ZenonT(30), <2>1, <2>4 DEF Next, Migrate, Create, Regenerate, Revoke, Delete, Begin, WriteServer,
       WriteClient, Sync, Unlink, Commit, UndoServer, UndoClient, UndoSync, BackupStart, BackupEnd
  <2> QED
    BY <2>2, <2>3, <2>4, Zenon
<1> QED
  BY <1>1, InvAlways, ReadersAlways, PTL DEF Spec, NoRetiredServed

\* While a backup holds the lock no change runs, so the rows it copied are still the rows.
IBackup == backup.at = "files" => op.at = "none" /\ backup.rows = rows

LEMMA BackupStep == IBackup /\ [Next]_vars => IBackup'
<1> SUFFICES ASSUME IBackup, [Next]_vars PROVE IBackup'
  BY Zenon
<1>1. CASE BackupStart
  BY <1>1, Zenon DEF BackupStart, LockFree, IBackup
<1>2. CASE BackupEnd
  BY <1>2, Zenon DEF BackupEnd, NoBackup, IBackup
<1>3. CASE UNCHANGED <<backup, op, rows>>
  BY <1>3, Zenon DEF IBackup
<1>4. CASE op.at # "none" /\ UNCHANGED backup
  BY <1>4, Zenon DEF IBackup
<1>5. CASE LockFree /\ UNCHANGED backup
  BY <1>5, Zenon DEF IBackup, LockFree
<1>6. CASE Crash
  BY <1>6, Zenon DEF Crash, Cut, IBackup, NoOp
<1>7. CASE Reboot
  BY <1>7, Zenon DEF Reboot, NoBackup, IBackup
<1> QED
  BY ZenonT(30), <1>1, <1>2, <1>3, <1>4, <1>5, <1>6, <1>7
     DEF Next, vars, Migrate, Create, Regenerate, Revoke,
     Delete, Begin, WriteServer, WriteClient, Sync, Unlink, Commit, UndoServer, UndoClient, UndoSync,
     ReadStart, ReadCheck, ReadReturn, At

\* A backup of a state that is not in doubt holds rows and files that belong together.
THEOREM BackupIsCoherent == Spec => BackupCoherent
<1> DEFINE Step == backup.at = "files" /\ backup'.at = "idle" /\ profile /\ doubt = {}
                     => Validates(backup.rows, server, files)
<1>1. Init => IBackup
  BY SMTT(30) DEF Init, NoBackup, IBackup
<1>2. IInv /\ IBackup => Step
  BY Zenon DEF IInv, IAgree, Agreement, IBackup
<1> QED
  BY <1>1, <1>2, BackupStep, InvAlways, PTL DEF Spec, BackupCoherent

\* What a change of one peer never does to the peers: it revives no key, loses no other peer and
\* reserves no address twice, however it ends.
THEOREM ChangesKeepPeers == Spec => []PeersKept
BY RetiredKeysStayOut, OtherPeersKept, AddressesUnique, PTL DEF PeersKept
============================================================================
