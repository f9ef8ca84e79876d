------------------------------- MODULE SqliteTxn -------------------------------
(***************************************************************************)
(* The statements behind the operations of persistence.SQLiteStore.  Each  *)
(* process has one connection to the database file, in WAL mode, and       *)
(* sqlite3 begins a transaction before the first statement that writes.    *)
(* A statement that raises leaves that transaction open, and most          *)
(* operations do not roll it back: what they had written is committed by   *)
(* whichever operation of the connection commits next.                     *)
(*                                                                         *)
(* The restrictions of one agent with their events and ledger, its live    *)
(* authority with the initialization marker and ledger, one step counter   *)
(* and the replay claims are shown.  A row of live authority or a counter  *)
(* is updated first and its MAC after it, in a statement of its own; every *)
(* other MAC that is ever verified is inserted with its row.               *)
(***************************************************************************)
EXTENDS Naturals, Sequences, FiniteSets, SequencesExt

CONSTANTS
    Conn,          \* the connections, one per process
    Rid,           \* restriction ids, each imposed once
    Nonce,
    Ceiling,       \* the keys initialize_agent_authority is called with
    Offers,        \* sequences of keys replace_live_authority is called with
    Units,         \* what a row of live authority is inserted with
    StatementsFail,\* a statement may raise though nothing stands in its way
    Operations,    \* bound: the operations that are called
    MaxCalls       \* bound: no further call beyond it

(* A permission is no statement and no counter.                            *)
Words == {"INSERT restriction", "UPDATE status", "INSERT event", "INSERT ledger",
          "INSERT marker", "INSERT inits", "DELETE rows", "INSERT nonce", "COMMIT",
          "UPDATE remaining", "UPSERT counter", "UPDATE seal",
          "SELECT active", "SELECT latest", "SELECT marker", "SELECT inits",
          "SELECT rows", "SELECT counter", "counter", "none"}
Key == ToSet(Ceiling) \cup UNION {ToSet(o) : o \in Offers}
ASSUME KeyAssumption ==
    /\ Ceiling \in Seq(Key) /\ Offers \subseteq Seq(Key)
    /\ Key \cap Words = {}
    /\ Units \in Nat

VARIABLES
    db,       \* what is committed
    tx,       \* each connection's transaction: its mode, what it sees, and
              \* whether that snapshot is older than db
    call,     \* the call in progress and the statements it has still to run
    calls,    \* how many calls were made
    alarm,    \* the last call of a connection raised RowIntegrityError
    owed,     \* a call raised since the connection's last commit or rollback (ghost)
    mixed,    \* db changed since the call's first statement (ghost)
    partial   \* a call stopped between its first and last write (ghost)

vars == <<db, tx, call, calls, alarm, owed, mixed, partial>>

NoTx == [mode |-> "none", view |-> "db", stale |-> FALSE]
NoCall == [op |-> "none", arg |-> "none", todo |-> <<>>, saw |-> {}]

Init ==
    /\ db = [status |-> [r \in Rid |-> "none"], events |-> {}, ledger |-> <<>>,
             marker |-> FALSE, inits |-> FALSE, rows |-> {},
             left |-> [k \in Key |-> 0],    \* the column remaining
             count |-> 0, nonces |-> {},
             unsealed |-> {}]   \* whose MAC is not the one of what they hold
    /\ tx = [c \in Conn |-> NoTx] /\ call = [c \in Conn |-> NoCall]
    /\ calls = 0 /\ alarm = [c \in Conn |-> FALSE]
    /\ owed = [c \in Conn |-> FALSE] /\ mixed = [c \in Conn |-> FALSE]
    /\ partial = FALSE

(* A deferred transaction takes its snapshot with its first statement. *)
Seen(c) == IF tx[c].mode \in {"reading", "writing"} THEN tx[c].view ELSE db

(* The statement a call runs next. *)
Sql(c) == IF call[c].todo = <<>> THEN "none" ELSE Head(call[c].todo)

(* Seeded fault: what was read before a sibling's commit is written.       *)
MayWriteOvertaken(c) == \A d \in Conn \ {c} : tx[d].mode # "writing"

(* One writer at a time; a snapshot that has been overtaken never writes.  *)
MayWrite(c) ==
    /\ \A d \in Conn \ {c} : tx[d].mode # "writing"
    /\ ~ tx[c].stale

RolledBack(c) == tx' = [tx EXCEPT ![c] = NoTx] /\ owed' = [owed EXCEPT ![c] = FALSE]

(* Committing overtakes every snapshot a sibling holds. *)
Committed(c) ==
    /\ db' = IF tx[c].mode = "writing" THEN tx[c].view ELSE db
    /\ tx' = [d \in Conn |->
                 IF d = c THEN NoTx
                 ELSE [tx[d] EXCEPT !.stale = @ \/ (tx[d].mode = "reading" /\ db' # db)]]
    /\ mixed' = [d \in Conn |-> mixed[d] \/ (/\ db' # db
                                             /\ Sql(d) \in {"SELECT latest", "SELECT inits"})]
    /\ owed' = [owed EXCEPT ![c] = FALSE]
------------------------------------------------------------------------------
(* The statements of each operation. *)
ImposeStatements == <<"INSERT restriction", "INSERT event", "INSERT ledger", "COMMIT">>

(* A transition writes the new MAC of its row, too, which nobody verifies. *)
TransitionStatements == <<"UPDATE status", "INSERT event", "INSERT ledger", "COMMIT">>
ActiveStatements == <<"SELECT active", "SELECT latest">>
InitializeStatements(keys) == <<"INSERT marker", "INSERT inits">> \o keys \o <<"COMMIT">>
ReplaceStatements(keys) ==
    <<"INSERT marker", "INSERT inits", "DELETE rows">> \o keys \o <<"COMMIT">>
InitializedStatements == <<"SELECT marker", "SELECT inits">>
RowsStatements == <<"SELECT rows">>
ConsumeStatements == <<"UPDATE remaining", "UPDATE seal", "COMMIT">>
CountStatements == <<"SELECT counter", "UPSERT counter", "UPDATE seal", "COMMIT">>
ClaimStatements == <<"INSERT nonce", "COMMIT">>

Statements(op, arg) ==
    CASE op = "impose" -> ImposeStatements
      [] op \in {"expire", "clear"} -> TransitionStatements
      [] op = "active" -> ActiveStatements
      [] op = "initialize" -> InitializeStatements(arg)
      [] op = "replace" -> ReplaceStatements(arg)
      [] op = "initialized" -> InitializedStatements
      [] op = "rows" -> RowsStatements
      [] op = "consume" -> ConsumeStatements
      [] op = "count" -> CountStatements
      [] op = "claim" -> ClaimStatements

Calls ==
    ({"impose", "expire", "clear"} \X Rid) \cup ({"claim"} \X Nonce)
        \cup ({"replace"} \X Offers) \cup ({"consume"} \X Key)
        \cup ({"active", "initialized", "rows", "count"} \X {"none"})
        \cup {<<"initialize", Ceiling>>}

(* impose_restriction draws a new restriction_id. *)
Fresh(r) ==
    \A c \in Conn : Seen(c).status[r] = "none" /\ call[c].arg # r

Call(c, op, arg) ==
    /\ call[c] = NoCall /\ calls < MaxCalls /\ op \in Operations
    /\ op = "impose" => Fresh(arg)
    /\ op \in {"expire", "clear"} => \E d \in Conn : Seen(d).status[arg] # "none"
    /\ call' = [call EXCEPT ![c] = [op |-> op, arg |-> arg,
                                    todo |-> Statements(op, arg), saw |-> {}]]
    /\ calls' = calls + 1
    /\ alarm' = [alarm EXCEPT ![c] = FALSE] /\ mixed' = [mixed EXCEPT ![c] = FALSE]
    /\ UNCHANGED <<db, tx, owed, partial>>

Advance(c) == call' = [call EXCEPT ![c].todo = Tail(@)]
Returns(c) == call' = [call EXCEPT ![c] = NoCall]

(* What a writing statement makes of the rows it sees. *)
NewStatus(op) == IF op = "expire" THEN "EXPIRED" ELSE "CLEARED"
Event(op) == IF op = "impose" THEN "IMPOSED" ELSE NewStatus(op)

(* What the MAC is for that a call updates. *)
SealOf(c) == IF call[c].op = "count" THEN "counter" ELSE call[c].arg

(* Seeded fault: the tip is looked up on another connection. *)
EntryElsewhere(c, tip) ==
    [rid |-> call[c].arg, event |-> Event(call[c].op), prev |-> Len(db.ledger)]

Entry(c, tip) == [rid |-> call[c].arg, event |-> Event(call[c].op), prev |-> Len(tip)]

Written(c, d) ==
    CASE Sql(c) = "INSERT restriction" -> [d EXCEPT !.status[call[c].arg] = "ACTIVE"]
      [] Sql(c) = "UPDATE status" -> [d EXCEPT !.status[call[c].arg] = NewStatus(call[c].op)]
      [] Sql(c) = "INSERT event" ->
             [d EXCEPT !.events = @ \cup {<<call[c].arg, Event(call[c].op)>>}]
      [] Sql(c) = "INSERT ledger" -> [d EXCEPT !.ledger = Append(@, Entry(c, @))]
      [] Sql(c) = "INSERT marker" -> [d EXCEPT !.marker = TRUE]
      [] Sql(c) = "INSERT inits" -> [d EXCEPT !.inits = TRUE]
      [] Sql(c) = "DELETE rows" ->
             [d EXCEPT !.rows = {}, !.left = [k \in Key |-> 0], !.unsealed = @ \cap {"counter"}]
      [] Sql(c) = "INSERT nonce" -> [d EXCEPT !.nonces = @ \cup {call[c].arg}]
      [] Sql(c) = "UPDATE remaining" ->
             [d EXCEPT !.left[call[c].arg] = @ - 1, !.unsealed = @ \cup {call[c].arg}]
      [] Sql(c) = "UPSERT counter" ->
             [d EXCEPT !.count = @ + 1, !.unsealed = @ \cup {"counter"}]
      [] Sql(c) = "UPDATE seal" -> [d EXCEPT !.unsealed = @ \ {SealOf(c)}]
      [] Sql(c) \in Key -> [d EXCEPT !.rows = @ \cup {Sql(c)}, !.left[Sql(c)] = Units]

Writes == {"INSERT restriction", "UPDATE status", "INSERT event", "INSERT ledger",
           "INSERT marker", "INSERT inits", "DELETE rows", "INSERT nonce",
           "UPDATE remaining", "UPSERT counter", "UPDATE seal"} \cup Key

(* A UNIQUE constraint refuses the row, or no row is ACTIVE or has a unit. *)
Refused(c) ==
    LET d == Seen(c)
    IN  \/ Sql(c) = "INSERT marker" /\ d.marker
        \/ Sql(c) = "INSERT nonce" /\ call[c].arg \in d.nonces
        \/ Sql(c) \in Key /\ Sql(c) \in d.rows
        \/ Sql(c) = "UPDATE status" /\ d.status[call[c].arg] # "ACTIVE"
        \/ Sql(c) = "UPDATE remaining"
               /\ (call[c].arg \notin d.rows \/ d.left[call[c].arg] = 0)

(* Seeded fault: initializing goes on where the marker is there already. *)
OnlyClaims(c) == Sql(c) = "INSERT nonce"

RollsBack(c) == Sql(c) = "INSERT nonce" \/
                (Sql(c) = "INSERT marker" /\ call[c].op = "initialize")

Writing(c, d) == [mode |-> "writing", view |-> d, stale |-> FALSE]

Write(c) ==
    /\ Sql(c) \in Writes /\ MayWrite(c) /\ ~ Refused(c)
    /\ tx' = [tx EXCEPT ![c] = Writing(c, Written(c, Seen(c)))]
    /\ Advance(c)
    /\ UNCHANGED <<db, calls, alarm, owed, mixed, partial>>

(* Seeded fault: a claim that is refused keeps its transaction. *)
RefusedOpen(c) ==
    /\ MayWrite(c) /\ Refused(c) /\ RollsBack(c)
    /\ tx' = [tx EXCEPT ![c] = Writing(c, Seen(c))]
    /\ Returns(c)
    /\ UNCHANGED <<db, calls, alarm, owed, mixed, partial>>

(* A refused statement has taken the write lock all the same.  A replayed  *)
(* claim and a second initialization roll back and answer False;           *)
RefusedCall(c) ==
    /\ MayWrite(c) /\ Refused(c) /\ RollsBack(c)
    /\ RolledBack(c) /\ Returns(c)
    /\ UNCHANGED <<db, calls, alarm, mixed, partial>>

(* replace_live_authority does without the marker, and an UPDATE without a *)
(* row goes on to the commit;                                              *)
RefusedStep(c) ==
    /\ MayWrite(c) /\ Refused(c) /\ ~ RollsBack(c) /\ Sql(c) \notin Key
    /\ tx' = [tx EXCEPT ![c] = Writing(c, Seen(c))]
    /\ call' = [call EXCEPT ![c].todo =
           IF Sql(c) = "INSERT marker" THEN Tail(Tail(@)) ELSE <<"COMMIT">>]
    /\ UNCHANGED <<db, calls, alarm, owed, mixed, partial>>

(* a second row under one key raises, in an open transaction.              *)
RefusedRow(c) ==
    /\ MayWrite(c) /\ Refused(c) /\ Sql(c) \in Key
    /\ tx' = [tx EXCEPT ![c] = Writing(c, Seen(c))]
    /\ Returns(c)
    /\ owed' = [owed EXCEPT ![c] = TRUE] /\ partial' = TRUE
    /\ UNCHANGED <<db, calls, alarm, mixed>>

Commit(c) ==
    /\ Sql(c) = "COMMIT"
    /\ Committed(c)
    /\ Returns(c)
    /\ UNCHANGED <<calls, alarm, partial>>

(* Reads outside of a transaction see what is committed at that moment; a  *)
(* transaction that was begun takes its snapshot now.                      *)
Snapshot(c) ==
    tx' = [tx EXCEPT ![c] = IF @.mode = "begun"
                            THEN [mode |-> "reading", view |-> db, stale |-> FALSE] ELSE @]

FirstSelect(c) ==
    /\ Sql(c) \in {"SELECT active", "SELECT marker"}
    /\ Snapshot(c)
    /\ LET saw == IF Sql(c) = "SELECT active"
                  THEN {r \in Rid : Seen(c).status[r] = "ACTIVE"}
                  ELSE {m \in {"marker"} : Seen(c).marker}
       IN  call' = [call EXCEPT ![c] = [op |-> @.op, arg |-> @.arg,
                                        todo |-> Tail(@.todo), saw |-> saw]]
    /\ UNCHANGED <<db, calls, alarm, owed, mixed, partial>>

(* The second SELECT compares the ledger with what the first has seen: a   *)
(* restriction whose last entry is IMPOSED is ACTIVE, a marker has an      *)
(* entry and an entry a marker.  Otherwise it raises RowIntegrityError.    *)
IsLatest(i, ledger) ==
    \A j \in DOMAIN ledger : j > i => ledger[j].rid # ledger[i].rid

(* Seeded fault: any IMPOSED entry counts, not only the last one. *)
LedgerDisagreesWithAny(c) ==
    \E e \in ToSet(Seen(c).ledger) : e.event = "IMPOSED" /\ e.rid \notin call[c].saw

LedgerDisagrees(c) ==
    LET ledger == Seen(c).ledger
    IN  \E i \in DOMAIN ledger :
            /\ IsLatest(i, ledger)
            /\ ledger[i].event = "IMPOSED" /\ ledger[i].rid \notin call[c].saw

MarkerDisagrees(c) == Seen(c).inits # (call[c].saw # {})

Disagrees(c) ==
    IF Sql(c) = "SELECT latest" THEN LedgerDisagrees(c) ELSE MarkerDisagrees(c)

SecondSelect(c) ==
    /\ Sql(c) \in {"SELECT latest", "SELECT inits"}
    /\ Snapshot(c)
    /\ alarm' = [alarm EXCEPT ![c] = Disagrees(c)]
    /\ Returns(c)
    /\ UNCHANGED <<db, calls, owed, mixed, partial>>

(* get_live_authority_rows verifies the MAC of every row it reads, and     *)
(* increment_step_counter that of the counter before it goes on.           *)
Sealed(c) ==
    IF Sql(c) = "SELECT counter" THEN "counter" \notin Seen(c).unsealed
    ELSE Seen(c).unsealed \cap Seen(c).rows = {}

SealSelect(c) ==
    /\ Sql(c) \in {"SELECT rows", "SELECT counter"}
    /\ Snapshot(c)
    /\ alarm' = [alarm EXCEPT ![c] = ~ Sealed(c)]
    /\ IF Sql(c) = "SELECT counter" /\ Sealed(c) THEN Advance(c) ELSE Returns(c)
    /\ UNCHANGED <<db, calls, owed, mixed, partial>>

(* Seeded fault: impose_restriction has none either. *)
NeverHandled(op) == op \notin {"active", "initialized", "rows", "none"}

(* A statement raises: the database stayed locked, the snapshot is stale,  *)
(* or the disk is full.  The transaction that was begun for it stays open, *)
(* unless SQLite itself, or the handler of impose_restriction, rolls back. *)
NoHandler(op) == op # "impose"

HasWritten(c) ==
    /\ call[c].todo # Statements(call[c].op, call[c].arg)
    /\ Sql(c) \notin {"UPSERT counter", "COMMIT"}

Raise(c) ==
    /\ Sql(c) \in Writes \cup {"COMMIT"}
    /\ StatementsFail \/ (Sql(c) \in Writes /\ ~ MayWrite(c))
    /\ \/ /\ NoHandler(call[c].op)
          /\ tx' = [tx EXCEPT ![c].mode =
                 IF @ = "none" /\ Sql(c) # "COMMIT" THEN "begun" ELSE @]
          /\ owed' = [owed EXCEPT ![c] = TRUE]
          /\ partial' = (partial \/ (tx[c].mode = "writing" /\ HasWritten(c)))
       \/ /\ ~ NoHandler(call[c].op) \/ StatementsFail
          /\ RolledBack(c)
          /\ UNCHANGED partial
    /\ Returns(c)
    /\ UNCHANGED <<db, calls, alarm, mixed>>

(* The process dies, and its transaction with it. *)
Crash(c) ==
    /\ tx[c] # NoTx \/ call[c] # NoCall
    /\ RolledBack(c) /\ Returns(c)
    /\ UNCHANGED <<db, calls, alarm, mixed, partial>>

Next ==
    \E c \in Conn :
        \/ \E k \in Calls : Call(c, k[1], k[2])
        \/ Write(c) \/ RefusedCall(c) \/ RefusedStep(c) \/ RefusedRow(c)
        \/ Commit(c) \/ FirstSelect(c) \/ SecondSelect(c) \/ SealSelect(c)
        \/ Raise(c) \/ Crash(c)

Spec == Init /\ [][Next]_vars
------------------------------------------------------------------------------
(* The ledger is one chain, each entry on the one before it, though each   *)
(* connection reads the tip for itself and commits leftovers of its own    *)
(* failed calls: _verify_restriction_ledger_chain never refuses to open a  *)
(* file nobody tampered with.                                              *)
LedgerIsChained == \A i \in DOMAIN db.ledger : db.ledger[i].prev = i - 1

(* What is committed stays, though every connection writes what it makes   *)
(* of the snapshot it has: no entry of the ledger, no event, no replay     *)
(* claim and no step that was counted is undone by the commit of another.  *)
CommittedStays ==
    [][/\ db.nonces \subseteq db'.nonces /\ db.events \subseteq db'.events
       /\ IsPrefix(db.ledger, db'.ledger) /\ db.count <= db'.count]_vars

(* A restriction is imposed with its event and its ledger entry or not at  *)
(* all, whatever statement fails and whatever else the connection commits. *)
ImposedIn(d, r) ==
    /\ <<r, "IMPOSED">> \in d.events
    /\ \E i \in DOMAIN d.ledger : d.ledger[i].rid = r /\ d.ledger[i].event = "IMPOSED"

UnknownTo(d, r) ==
    /\ <<r, "IMPOSED">> \notin d.events
    /\ ~ \E i \in DOMAIN d.ledger : d.ledger[i].rid = r /\ d.ledger[i].event = "IMPOSED"

ImposeIsWhole ==
    \A r \in Rid : IF db.status[r] = "none" THEN UnknownTo(db, r) ELSE ImposedIn(db, r)

(* A connection between two calls holds a transaction, and with it a lock  *)
(* or an old snapshot, only when a call has raised since it last ended one.*)
OnlyFailuresStayOpen ==
    \A c \in Conn :
        (call[c] = NoCall /\ tx[c].mode # "none") \/ tx[c].stale => owed[c]

(* RowIntegrityError is raised on an untouched file only when a sibling    *)
(* has committed between the two SELECTs of a cross-check, or the halves   *)
(* of a failed call have been let in.                                      *)
AlarmIsExplained ==
    [][\A c \in Conn : alarm'[c] /\ ~ alarm[c] => mixed[c] \/ partial]_vars

(* An agent's rows are those of one call, never a mix of old and new ones  *)
(* and never a part, unless the halves of a failed call have been let in.  *)
RowsAreWhole ==
    partial \/ db.rows \in {{}, ToSet(Ceiling)}
                   \cup {ToSet(o) : o \in {q \in Offers : IsInjective(q)}}

(* Nobody writes to the file but the operations above: by the text of the  *)
(* alarm and by DURABILITY.md, it is raised for no honest process then.    *)
NoFalseAlarm == \A c \in Conn : ~ alarm[c]
==============================================================================
