------------------------------- MODULE TxnProofs -------------------------------
(***************************************************************************)
(* The statements of SQLiteStore, for any number of connections and calls: *)
(* what a transaction has written and not committed is known from how far  *)
(* its call has got, also when a statement before it failed.               *)
(***************************************************************************)
EXTENDS SqliteTxn, SequenceTheorems, TLAPS

Status == {"none", "ACTIVE", "EXPIRED", "CLEARED"}
Note == [rid : Rid, event : {"IMPOSED", "EXPIRED", "CLEARED"}, prev : Nat]
Mention == Rid \X {"IMPOSED", "EXPIRED", "CLEARED"}
Database == [status : [Rid -> Status], events : SUBSET Mention, ledger : Seq(Note),
             marker : BOOLEAN, inits : BOOLEAN, rows : SUBSET Key, left : [Key -> Int],
             count : Nat, nonces : SUBSET Nonce, unsealed : SUBSET (Key \cup {"counter"})]
Modes == {"none", "begun", "reading", "writing"}
Operation == {"impose", "expire", "clear", "active", "initialize", "replace",
              "initialized", "rows", "consume", "count", "claim", "none"}
WriteOp == {"impose", "expire", "clear", "initialize", "replace", "consume", "count", "claim"}
ShortOp == {"impose", "expire", "clear", "active", "initialized", "rows", "consume", "count",
            "claim"}

HasView(c) == tx[c].mode \in {"reading", "writing"}

TxTypes ==
    /\ db \in Database
    /\ tx \in [Conn -> [mode : Modes, view : Database \cup {"db"}, stale : BOOLEAN]]
    /\ \A c \in Conn : HasView(c) => tx[c].view \in Database
    /\ alarm \in [Conn -> BOOLEAN] /\ owed \in [Conn -> BOOLEAN]
    /\ mixed \in [Conn -> BOOLEAN] /\ partial \in BOOLEAN
    /\ DOMAIN call = Conn
    /\ \A c \in Conn : call[c] = [op |-> call[c].op, arg |-> call[c].arg,
                                  todo |-> call[c].todo, saw |-> call[c].saw]

(* How far a call has got: what it has still to run is a suffix of its     *)
(* statements.                                                             *)
Whole(c) == Statements(call[c].op, call[c].arg)
Rest(s, n) == SubSeq(s, n + 1, Len(s))
Done(c) == Len(Whole(c)) - Len(call[c].todo)
Underway(c) ==
    /\ <<call[c].op, call[c].arg>> \in Calls
    /\ Done(c) \in 0..(Len(Whole(c)) - 1)
    /\ call[c].todo = Rest(Whole(c), Done(c))
CallsOK == \A c \in Conn : call[c] = NoCall \/ Underway(c)

LEMMA RestStep ==
    ASSUME NEW S, NEW s \in Seq(S), NEW n \in 0..(Len(s) - 1)
    PROVE  /\ Rest(s, n) \in Seq(S) /\ Len(Rest(s, n)) = Len(s) - n
           /\ Rest(s, n) # <<>> /\ Head(Rest(s, n)) = s[n + 1]
           /\ Tail(Rest(s, n)) = Rest(s, n + 1)
           /\ Rest(s, 0) = s
  <1>1. n + 1 \in 1..Len(s) /\ Len(s) \in n + 1 .. Len(s) /\ Len(s) \in Nat
    BY LenProperties
  <1>2. Head(Rest(s, n)) = s[n + 1] /\ Tail(Rest(s, n)) = Rest(s, n + 1)
    BY <1>1, HeadTailOfSubSeq DEF Rest
  <1>3. \A i \in n + 1 .. Len(s) : s[i] \in S
    BY <1>1
  <1>4. Rest(s, n) \in Seq(S) /\ Len(Rest(s, n)) = Len(s) - n
    BY <1>1, <1>3, SubSeqProperties DEF Rest
  <1>5. Rest(s, 0) = s
    BY SubSeqFull DEF Rest
  <1> QED  BY <1>1, <1>2, <1>4, <1>5

(* What the statements of a call are.                                      *)
Lead(op) == IF op = "initialize" THEN 2 ELSE 3

LEMMA SomeCall ==
    ASSUME NEW op, NEW arg, <<op, arg>> \in Calls
    PROVE  /\ op \in Operation \ {"none"}
           /\ op \in {"impose", "expire", "clear"} => arg \in Rid
           /\ op = "claim" => arg \in Nonce
           /\ op = "consume" => arg \in Key
           /\ op = "initialize" => arg = Ceiling
           /\ op = "replace" => arg \in Offers
           /\ op \in {"initialize", "replace"} => arg \in Seq(Key)
  BY KeyAssumption DEF Calls, Operation

Sentence == Words \cup Key

LEMMA Sentences ==
    /\ \A a \in Sentence : <<a>> \in Seq(Sentence)
    /\ \A a, b \in Sentence : <<a, b>> \in Seq(Sentence)
    /\ \A a, b, d \in Sentence : <<a, b, d>> \in Seq(Sentence)
    /\ \A a, b, d, e \in Sentence : <<a, b, d, e>> \in Seq(Sentence)
    /\ Words \subseteq Sentence /\ Key \subseteq Sentence
  BY DEF Sentence

LEMMA ShortStatements ==
    ASSUME NEW op, NEW arg, <<op, arg>> \in Calls, op \notin {"initialize", "replace"}
    PROVE  LET s == Statements(op, arg)
           IN  /\ s \in Seq(Sentence)
               /\ op = "impose" => s = ImposeStatements
               /\ op \in {"expire", "clear"} => s = TransitionStatements
               /\ op = "active" => s = ActiveStatements
               /\ op = "initialized" => s = InitializedStatements
               /\ op = "rows" => s = RowsStatements
               /\ op = "consume" => s = ConsumeStatements
               /\ op = "count" => s = CountStatements
               /\ op = "claim" => s = ClaimStatements
  <1>1. op \in ShortOp
    BY SomeCall DEF Operation, ShortOp
  <1>2. CASE op = "impose"
    BY <1>2, Sentences DEF Statements, ImposeStatements, Words
  <1>3. CASE op \in {"expire", "clear"}
    BY <1>3, Sentences DEF Statements, TransitionStatements, Words
  <1>4. CASE op = "active"
    BY <1>4, Sentences DEF Statements, ActiveStatements, Words
  <1>5. CASE op = "initialized"
    BY <1>5, Sentences DEF Statements, InitializedStatements, Words
  <1>6. CASE op = "claim"
    BY <1>6, Sentences DEF Statements, ClaimStatements, Words
  <1>7. CASE op = "rows"
    BY <1>7, Sentences DEF Statements, RowsStatements, Words
  <1>8. CASE op = "consume"
    BY <1>8, Sentences DEF Statements, ConsumeStatements, Words
  <1>9. CASE op = "count"
    BY <1>9, Sentences DEF Statements, CountStatements, Words
  <1> QED  BY <1>1, <1>2, <1>3, <1>4, <1>5, <1>6, <1>7, <1>8, <1>9 DEF ShortOp

LEMMA Framed ==
    ASSUME NEW S, NEW opening \in Seq(S), NEW keys \in Seq(S), NEW final \in S
    PROVE  LET s == (opening \o keys) \o <<final>>
           IN  /\ s \in Seq(S) /\ Len(s) = Len(opening) + Len(keys) + 1
               /\ \A i \in 1..Len(opening) : s[i] = opening[i]
               /\ \A i \in 1..Len(keys) : s[Len(opening) + i] = keys[i]
               /\ s[Len(s)] = final
  <1> DEFINE front == opening \o keys
             closing == <<final>>
  <1>1. Len(opening) \in Nat /\ Len(keys) \in Nat
    BY LenProperties
  <1>2. /\ front \in Seq(S) /\ Len(front) = Len(opening) + Len(keys)
        /\ \A i \in 1..Len(opening) + Len(keys) :
               front[i] = IF i <= Len(opening) THEN opening[i] ELSE keys[i - Len(opening)]
    BY ConcatProperties
  <1>3. closing \in Seq(S) /\ Len(closing) = 1 /\ closing[1] = final
    OBVIOUS
  <1> HIDE DEF front, closing
  <1>4. /\ front \o closing \in Seq(S) /\ Len(front \o closing) = Len(front) + Len(closing)
        /\ \A i \in 1..Len(front) + Len(closing) :
               (front \o closing)[i] = IF i <= Len(front) THEN front[i] ELSE closing[i - Len(front)]
    <2>1. front \in Seq(S) /\ closing \in Seq(S)
      BY <1>2, <1>3
    <2> QED  BY <2>1, ConcatProperties
  <1>5. \A i \in 1..Len(opening) : (front \o closing)[i] = opening[i]
    <2> TAKE i \in 1..Len(opening)
    <2>1. /\ i \in 1..Len(front) + Len(closing) /\ i <= Len(front)
          /\ i \in 1..Len(opening) + Len(keys) /\ i <= Len(opening)
      BY <1>1, <1>2, <1>3
    <2> QED  BY <1>2, <1>4, <2>1
  <1>6. \A i \in 1..Len(keys) : (front \o closing)[Len(opening) + i] = keys[i]
    <2> TAKE i \in 1..Len(keys)
    <2>1. /\ Len(opening) + i \in 1..Len(front) + Len(closing) /\ Len(opening) + i <= Len(front)
          /\ Len(opening) + i \in 1..Len(opening) + Len(keys) /\ ~ (Len(opening) + i <= Len(opening))
          /\ Len(opening) + i - Len(opening) = i
      BY <1>1, <1>2, <1>3
    <2> QED  BY <1>2, <1>4, <2>1
  <1>7. (front \o closing)[Len(front) + 1] = final
    <2>1. Len(front) + 1 \in 1..Len(front) + Len(closing) /\ ~ (Len(front) + 1 <= Len(front))
          /\ Len(front) + 1 - Len(front) = 1
      BY <1>1, <1>2, <1>3
    <2> QED  BY <1>3, <1>4, <2>1
  <1> QED  BY <1>1, <1>2, <1>3, <1>4, <1>5, <1>6, <1>7 DEF front, closing

LEMMA LongStatements ==
    ASSUME NEW op \in {"initialize", "replace"}, NEW arg \in Seq(Key)
    PROVE  LET s == Statements(op, arg)
           IN  /\ s \in Seq(Sentence)
               /\ Len(s) = Lead(op) + Len(arg) + 1
               /\ s[1] = "INSERT marker" /\ s[2] = "INSERT inits"
               /\ op = "replace" => s[3] = "DELETE rows"
               /\ \A i \in 1..Len(arg) : s[Lead(op) + i] = arg[i]
               /\ s[Len(s)] = "COMMIT"
  <1>1. {"INSERT marker", "INSERT inits", "DELETE rows", "COMMIT"} \subseteq Sentence
    BY Sentences DEF Words
  <1>2. arg \in Seq(Sentence)
    BY Sentences, SeqMonotonic
  <1>3. CASE op = "initialize"
    <2> DEFINE opening == <<"INSERT marker", "INSERT inits">>
    <2>1. opening \in Seq(Sentence) /\ Len(opening) = 2 /\ Lead(op) = 2
          /\ opening[1] = "INSERT marker" /\ opening[2] = "INSERT inits"
      BY <1>1, <1>3, Sentences DEF Lead
    <2>2. Statements(op, arg) = (opening \o arg) \o <<"COMMIT">>
      BY <1>3 DEF Statements, InitializeStatements
    <2> HIDE DEF opening
    <2> DEFINE s == (opening \o arg) \o <<"COMMIT">>
    <2>3. /\ s \in Seq(Sentence) /\ Len(s) = Len(opening) + Len(arg) + 1
          /\ \A i \in 1..Len(opening) : s[i] = opening[i]
          /\ \A i \in 1..Len(arg) : s[Len(opening) + i] = arg[i]
          /\ s[Len(s)] = "COMMIT"
      <3>1. opening \in Seq(Sentence) /\ "COMMIT" \in Sentence
        BY <1>1, <2>1
      <3> QED  BY <1>2, <3>1, Framed
    <2>4. Statements(op, arg) = s
      BY <2>2
    <2> HIDE DEF s
    <2>6. Len(opening) = 2
      BY <2>1
    <2>5. 1 \in 1..Len(opening) /\ 2 \in 1..Len(opening)
      BY <2>6
    <2>7. Len(s) = Lead(op) + Len(arg) + 1 /\ \A i \in 1..Len(arg) : s[Lead(op) + i] = arg[i]
      BY <2>1, <2>3
    <2>8. /\ s[1] = "INSERT marker" /\ s[2] = "INSERT inits"
          /\ op = "replace" => s[3] = "DELETE rows"
      BY <1>3, <2>1, <2>3, <2>5
    <2> QED  BY <2>3, <2>4, <2>7, <2>8
  <1>4. CASE op = "replace"
    <2> DEFINE opening == <<"INSERT marker", "INSERT inits", "DELETE rows">>
    <2>1. opening \in Seq(Sentence) /\ Len(opening) = 3 /\ Lead(op) = 3
          /\ opening[1] = "INSERT marker" /\ opening[2] = "INSERT inits" /\ opening[3] = "DELETE rows"
      BY <1>1, <1>4, Sentences DEF Lead
    <2>2. Statements(op, arg) = (opening \o arg) \o <<"COMMIT">>
      BY <1>4 DEF Statements, ReplaceStatements
    <2> HIDE DEF opening
    <2> DEFINE s == (opening \o arg) \o <<"COMMIT">>
    <2>3. /\ s \in Seq(Sentence) /\ Len(s) = Len(opening) + Len(arg) + 1
          /\ \A i \in 1..Len(opening) : s[i] = opening[i]
          /\ \A i \in 1..Len(arg) : s[Len(opening) + i] = arg[i]
          /\ s[Len(s)] = "COMMIT"
      <3>1. opening \in Seq(Sentence) /\ "COMMIT" \in Sentence
        BY <1>1, <2>1
      <3> QED  BY <1>2, <3>1, Framed
    <2>4. Statements(op, arg) = s
      BY <2>2
    <2> HIDE DEF s
    <2>6. Len(opening) = 3
      BY <2>1
    <2>5. 1 \in 1..Len(opening) /\ 2 \in 1..Len(opening) /\ 3 \in 1..Len(opening)
      BY <2>6
    <2>7. Len(s) = Lead(op) + Len(arg) + 1 /\ \A i \in 1..Len(arg) : s[Lead(op) + i] = arg[i]
      BY <2>1, <2>3
    <2>8. /\ s[1] = "INSERT marker" /\ s[2] = "INSERT inits"
          /\ op = "replace" => s[3] = "DELETE rows"
      BY <1>4, <2>1, <2>3, <2>5
    <2> QED  BY <2>3, <2>4, <2>7, <2>8
  <1> QED  BY <1>3, <1>4

(* The statement that comes next tells the operation and how far it is.    *)
LEMMA Position ==
    ASSUME NEW c \in Conn, Underway(c)
    PROVE  /\ Whole(c) \in Seq(Sentence) /\ call[c].todo # <<>>
           /\ Sql(c) = Whole(c)[Done(c) + 1]
           /\ Tail(call[c].todo) = Rest(Whole(c), Done(c) + 1)
           /\ Done(c) = 0 => call[c].todo = Whole(c)
           /\ Done(c) > 0 => call[c].todo # Whole(c)
  <1> DEFINE s == Whole(c)
             n == Done(c)
  <1>1. s \in Seq(Sentence)
    <2>1. <<call[c].op, call[c].arg>> \in Calls
      BY DEF Underway
    <2>2. CASE call[c].op \in {"initialize", "replace"}
      <3>1. call[c].arg \in Seq(Key)
        BY <2>1, <2>2, SomeCall
      <3> QED  BY <2>2, <3>1, LongStatements DEF Whole
    <2>3. CASE call[c].op \notin {"initialize", "replace"}
      BY <2>1, <2>3, ShortStatements DEF Whole
    <2> QED  BY <2>2, <2>3
  <1>2. n \in 0..(Len(s) - 1) /\ call[c].todo = Rest(s, n)
    BY DEF Underway
  <1> HIDE DEF s, n
  <1>3. /\ Rest(s, n) # <<>> /\ Head(Rest(s, n)) = s[n + 1]
        /\ Tail(Rest(s, n)) = Rest(s, n + 1) /\ Rest(s, 0) = s
        /\ Len(Rest(s, n)) = Len(s) - n
    BY <1>1, <1>2, RestStep
  <1>4. Len(s) \in Nat
    BY <1>1, LenProperties
  <1>5. n > 0 => Rest(s, n) # s
    BY <1>2, <1>3, <1>4
  <1> QED  BY <1>1, <1>2, <1>3, <1>5 DEF s, n, Sql

LEMMA Pair ==
    ASSUME NEW s, NEW n \in 0..(Len(s) - 1), Len(s) = 2
    PROVE  (n = 0 /\ s[n + 1] = s[1]) \/ (n = 1 /\ s[n + 1] = s[2])
  <1>1. n = 0 \/ n = 1
    OBVIOUS
  <1> QED  BY <1>1

LEMMA Triple ==
    ASSUME NEW s, NEW n \in 0..(Len(s) - 1), Len(s) = 3
    PROVE  \/ n = 0 /\ s[n + 1] = s[1]
           \/ n = 1 /\ s[n + 1] = s[2]
           \/ n = 2 /\ s[n + 1] = s[3]
  <1>1. n = 0 \/ n = 1 \/ n = 2
    OBVIOUS
  <1> QED  BY <1>1

LEMMA Fourfold ==
    ASSUME NEW s, NEW n \in 0..(Len(s) - 1), Len(s) = 4
    PROVE  \/ n = 0 /\ s[n + 1] = s[1]
           \/ n = 1 /\ s[n + 1] = s[2]
           \/ n = 2 /\ s[n + 1] = s[3]
           \/ n = 3 /\ s[n + 1] = s[4]
  <1>1. n = 0 \/ n = 1 \/ n = 2 \/ n = 3
    OBVIOUS
  <1> QED  BY <1>1

LEMMA Single ==
    ASSUME NEW s, NEW n \in 0..(Len(s) - 1), Len(s) = 1
    PROVE  n = 0 /\ s[n + 1] = s[1]
  <1>1. n = 0
    OBVIOUS
  <1> QED  BY <1>1

LEMMA ShortPosition ==
    ASSUME NEW c \in Conn, Underway(c), call[c].op \notin {"initialize", "replace"}
    PROVE   \/ /\ call[c].op = "impose" /\ Len(Whole(c)) = 4
              /\ \/ Done(c) = 0 /\ Sql(c) = "INSERT restriction"
                 \/ Done(c) = 1 /\ Sql(c) = "INSERT event"
                 \/ Done(c) = 2 /\ Sql(c) = "INSERT ledger"
                 \/ Done(c) = 3 /\ Sql(c) = "COMMIT"
           \/ /\ call[c].op \in {"expire", "clear"} /\ Len(Whole(c)) = 4
              /\ \/ Done(c) = 0 /\ Sql(c) = "UPDATE status"
                 \/ Done(c) = 1 /\ Sql(c) = "INSERT event"
                 \/ Done(c) = 2 /\ Sql(c) = "INSERT ledger"
                 \/ Done(c) = 3 /\ Sql(c) = "COMMIT"
           \/ /\ call[c].op = "consume" /\ Len(Whole(c)) = 3
              /\ \/ Done(c) = 0 /\ Sql(c) = "UPDATE remaining"
                 \/ Done(c) = 1 /\ Sql(c) = "UPDATE seal"
                 \/ Done(c) = 2 /\ Sql(c) = "COMMIT"
           \/ /\ call[c].op = "count" /\ Len(Whole(c)) = 4
              /\ \/ Done(c) = 0 /\ Sql(c) = "SELECT counter"
                 \/ Done(c) = 1 /\ Sql(c) = "UPSERT counter"
                 \/ Done(c) = 2 /\ Sql(c) = "UPDATE seal"
                 \/ Done(c) = 3 /\ Sql(c) = "COMMIT"
           \/ /\ call[c].op = "claim" /\ Len(Whole(c)) = 2
              /\ \/ Done(c) = 0 /\ Sql(c) = "INSERT nonce"
                 \/ Done(c) = 1 /\ Sql(c) = "COMMIT"
           \/ /\ call[c].op = "active" /\ Len(Whole(c)) = 2
              /\ \/ Done(c) = 0 /\ Sql(c) = "SELECT active"
                 \/ Done(c) = 1 /\ Sql(c) = "SELECT latest"
           \/ /\ call[c].op = "initialized" /\ Len(Whole(c)) = 2
              /\ \/ Done(c) = 0 /\ Sql(c) = "SELECT marker"
                 \/ Done(c) = 1 /\ Sql(c) = "SELECT inits"
           \/ /\ call[c].op = "rows" /\ Len(Whole(c)) = 1
              /\ \/ Done(c) = 0 /\ Sql(c) = "SELECT rows"
  <1>1. call[c].op \in ShortOp
    BY SomeCall DEF Underway, Operation, ShortOp
  <1>2. Sql(c) = Whole(c)[Done(c) + 1] /\ Done(c) \in 0..(Len(Whole(c)) - 1)
    BY Position DEF Underway
  <1> DEFINE s == Whole(c)
             n == Done(c)
             o == call[c].op
  <1>3. /\ o = "impose" => s = ImposeStatements
        /\ o \in {"expire", "clear"} => s = TransitionStatements
        /\ o = "consume" => s = ConsumeStatements
        /\ o = "count" => s = CountStatements
        /\ o = "claim" => s = ClaimStatements
        /\ o = "active" => s = ActiveStatements
        /\ o = "initialized" => s = InitializedStatements
        /\ o = "rows" => s = RowsStatements
    BY ShortStatements DEF Underway, Whole
  <1> HIDE DEF s, n, o
  <1>4. Sql(c) = s[n + 1] /\ n \in 0..(Len(s) - 1)
    BY <1>2 DEF s, n
  <1>5. CASE o = "impose"
    <2>1. s = <<"INSERT restriction", "INSERT event", "INSERT ledger", "COMMIT">>
      BY <1>3, <1>5 DEF ImposeStatements
    <2>2. Len(s) = 4 /\ s[1] = "INSERT restriction" /\ s[2] = "INSERT event" /\ s[3] = "INSERT ledger" /\ s[4] = "COMMIT"
      BY <2>1
    <2>3. n \in 0..(Len(s) - 1) /\ Sql(c) = s[n + 1]
      BY <1>4
    <2>4. \/ n = 0 /\ Sql(c) = "INSERT restriction"
          \/ n = 1 /\ Sql(c) = "INSERT event"
          \/ n = 2 /\ Sql(c) = "INSERT ledger"
          \/ n = 3 /\ Sql(c) = "COMMIT"
      BY <2>2, <2>3, Fourfold
    <2> QED  BY <1>5, <2>2, <2>4 DEF s, n, o
  <1>6. CASE o \in {"expire", "clear"}
    <2>1. s = <<"UPDATE status", "INSERT event", "INSERT ledger", "COMMIT">>
      BY <1>3, <1>6 DEF TransitionStatements
    <2>2. Len(s) = 4 /\ s[1] = "UPDATE status" /\ s[2] = "INSERT event" /\ s[3] = "INSERT ledger" /\ s[4] = "COMMIT"
      BY <2>1
    <2>3. n \in 0..(Len(s) - 1) /\ Sql(c) = s[n + 1]
      BY <1>4
    <2>4. \/ n = 0 /\ Sql(c) = "UPDATE status"
          \/ n = 1 /\ Sql(c) = "INSERT event"
          \/ n = 2 /\ Sql(c) = "INSERT ledger"
          \/ n = 3 /\ Sql(c) = "COMMIT"
      BY <2>2, <2>3, Fourfold
    <2> QED  BY <1>6, <2>2, <2>4 DEF s, n, o
  <1>7. CASE o = "consume"
    <2>1. s = <<"UPDATE remaining", "UPDATE seal", "COMMIT">>
      BY <1>3, <1>7 DEF ConsumeStatements
    <2>2. Len(s) = 3 /\ s[1] = "UPDATE remaining" /\ s[2] = "UPDATE seal" /\ s[3] = "COMMIT"
      BY <2>1
    <2>3. n \in 0..(Len(s) - 1) /\ Sql(c) = s[n + 1]
      BY <1>4
    <2>4. \/ n = 0 /\ Sql(c) = "UPDATE remaining"
          \/ n = 1 /\ Sql(c) = "UPDATE seal"
          \/ n = 2 /\ Sql(c) = "COMMIT"
      BY <2>2, <2>3, Triple
    <2> QED  BY <1>7, <2>2, <2>4 DEF s, n, o
  <1>8. CASE o = "count"
    <2>1. s = <<"SELECT counter", "UPSERT counter", "UPDATE seal", "COMMIT">>
      BY <1>3, <1>8 DEF CountStatements
    <2>2. Len(s) = 4 /\ s[1] = "SELECT counter" /\ s[2] = "UPSERT counter" /\ s[3] = "UPDATE seal" /\ s[4] = "COMMIT"
      BY <2>1
    <2>3. n \in 0..(Len(s) - 1) /\ Sql(c) = s[n + 1]
      BY <1>4
    <2>4. \/ n = 0 /\ Sql(c) = "SELECT counter"
          \/ n = 1 /\ Sql(c) = "UPSERT counter"
          \/ n = 2 /\ Sql(c) = "UPDATE seal"
          \/ n = 3 /\ Sql(c) = "COMMIT"
      BY <2>2, <2>3, Fourfold
    <2> QED  BY <1>8, <2>2, <2>4 DEF s, n, o
  <1>9. CASE o = "claim"
    <2>1. s = <<"INSERT nonce", "COMMIT">>
      BY <1>3, <1>9 DEF ClaimStatements
    <2>2. Len(s) = 2 /\ s[1] = "INSERT nonce" /\ s[2] = "COMMIT"
      BY <2>1
    <2>3. n \in 0..(Len(s) - 1) /\ Sql(c) = s[n + 1]
      BY <1>4
    <2>4. \/ n = 0 /\ Sql(c) = "INSERT nonce"
          \/ n = 1 /\ Sql(c) = "COMMIT"
      BY <2>2, <2>3, Pair
    <2> QED  BY <1>9, <2>2, <2>4 DEF s, n, o
  <1>10. CASE o = "active"
    <2>1. s = <<"SELECT active", "SELECT latest">>
      BY <1>3, <1>10 DEF ActiveStatements
    <2>2. Len(s) = 2 /\ s[1] = "SELECT active" /\ s[2] = "SELECT latest"
      BY <2>1
    <2>3. n \in 0..(Len(s) - 1) /\ Sql(c) = s[n + 1]
      BY <1>4
    <2>4. \/ n = 0 /\ Sql(c) = "SELECT active"
          \/ n = 1 /\ Sql(c) = "SELECT latest"
      BY <2>2, <2>3, Pair
    <2> QED  BY <1>10, <2>2, <2>4 DEF s, n, o
  <1>11. CASE o = "initialized"
    <2>1. s = <<"SELECT marker", "SELECT inits">>
      BY <1>3, <1>11 DEF InitializedStatements
    <2>2. Len(s) = 2 /\ s[1] = "SELECT marker" /\ s[2] = "SELECT inits"
      BY <2>1
    <2>3. n \in 0..(Len(s) - 1) /\ Sql(c) = s[n + 1]
      BY <1>4
    <2>4. \/ n = 0 /\ Sql(c) = "SELECT marker"
          \/ n = 1 /\ Sql(c) = "SELECT inits"
      BY <2>2, <2>3, Pair
    <2> QED  BY <1>11, <2>2, <2>4 DEF s, n, o
  <1>12. CASE o = "rows"
    <2>1. s = <<"SELECT rows">>
      BY <1>3, <1>12 DEF RowsStatements
    <2>2. Len(s) = 1 /\ s[1] = "SELECT rows"
      BY <2>1
    <2>3. n \in 0..(Len(s) - 1) /\ Sql(c) = s[n + 1]
      BY <1>4
    <2>4. \/ n = 0 /\ Sql(c) = "SELECT rows"
      BY <2>2, <2>3, Single
    <2> QED  BY <1>12, <2>2, <2>4 DEF s, n, o
  <1> QED  BY <1>1, <1>5, <1>6, <1>7, <1>8, <1>9, <1>10, <1>11, <1>12 DEF o, ShortOp

LEMMA LongPosition ==
    ASSUME NEW c \in Conn, Underway(c), call[c].op \in {"initialize", "replace"}
    PROVE  LET n == Done(c)
               l == Lead(call[c].op)
               q == call[c].arg
           IN  /\ q \in Seq(Key) /\ Len(q) \in Nat /\ Len(Whole(c)) = l + Len(q) + 1
               /\ \/ n = 0 /\ Sql(c) = "INSERT marker"
                  \/ n = 1 /\ Sql(c) = "INSERT inits"
                  \/ n = 2 /\ Sql(c) = "DELETE rows" /\ call[c].op = "replace"
                  \/ n - l + 1 \in 1..Len(q) /\ Sql(c) = q[n - l + 1] /\ Sql(c) \in Key
                  \/ n = l + Len(q) /\ Sql(c) = "COMMIT"
  <1> DEFINE s == Whole(c)
             n == Done(c)
             o == call[c].op
             l == Lead(o)
             q == call[c].arg
  <1>1. q \in Seq(Key)
    BY SomeCall DEF Underway
  <1>2. /\ Len(s) = l + Len(q) + 1
        /\ s[1] = "INSERT marker" /\ s[2] = "INSERT inits"
        /\ (o = "replace" => s[3] = "DELETE rows")
        /\ \A i \in 1..Len(q) : s[l + i] = q[i]
        /\ s[Len(s)] = "COMMIT"
    BY <1>1, LongStatements DEF Whole
  <1>11. Len(s) = l + Len(q) + 1
    BY <1>2
  <1>12. s[1] = "INSERT marker" /\ s[2] = "INSERT inits" /\ (o = "replace" => s[3] = "DELETE rows")
    BY <1>2
  <1>13. s[Len(s)] = "COMMIT"
    BY <1>2
  <1>14. \A i \in 1..Len(q) : s[l + i] = q[i]
    BY <1>2
  <1>3. Sql(c) = s[n + 1] /\ n \in 0..(Len(s) - 1)
    BY Position DEF Underway
  <1>4. (o = "initialize" /\ l = 2) \/ (o = "replace" /\ l = 3)
    BY DEF Lead
  <1>5. Len(q) \in Nat
    BY <1>1, LenProperties
  <1> HIDE DEF s, n, o, l, q
  <1>6. \A i \in 1..Len(q) : q[i] \in Key
    BY <1>1
  <1>7. CASE n < l
    <2>1. n = 0 \/ n = 1 \/ (n = 2 /\ o = "replace")
      BY <1>3, <1>4, <1>7
    <2>2. CASE n = 0
      <3>4. n + 1 = 1
        BY <2>2
      <3>2. s[1] = "INSERT marker"
        BY <1>12, <2>2
      <3>3. Sql(c) = s[n + 1]
        BY <1>3
      <3>1. Sql(c) = "INSERT marker"
        BY <3>2, <3>3, <3>4
      <3> QED  BY <1>1, <1>11, <1>5, <2>2, <3>1 DEF s, n, o, l, q
    <2>3. CASE n = 1
      <3>4. n + 1 = 2
        BY <2>3
      <3>2. s[2] = "INSERT inits"
        BY <1>12, <2>3
      <3>3. Sql(c) = s[n + 1]
        BY <1>3
      <3>1. Sql(c) = "INSERT inits"
        BY <3>2, <3>3, <3>4
      <3> QED  BY <1>1, <1>11, <1>5, <2>3, <3>1 DEF s, n, o, l, q
    <2>4. CASE n = 2 /\ o = "replace"
      <3>4. n + 1 = 3
        BY <2>4
      <3>2. s[3] = "DELETE rows"
        BY <1>12, <2>4
      <3>3. Sql(c) = s[n + 1]
        BY <1>3
      <3>1. Sql(c) = "DELETE rows"
        BY <3>2, <3>3, <3>4
      <3> QED  BY <1>1, <1>11, <1>5, <2>4, <3>1 DEF s, n, o, l, q
    <2> QED  BY <2>1, <2>2, <2>3, <2>4
  <1>8. CASE n >= l /\ n < l + Len(q)
    <2>1. n - l + 1 \in 1..Len(q) /\ n + 1 = l + (n - l + 1)
      BY <1>3, <1>4, <1>5, <1>8
    <2>2. Sql(c) = q[n - l + 1]
      BY <1>14, <1>3, <2>1
    <2> QED  BY <1>1, <1>11, <1>5, <1>6, <2>1, <2>2 DEF s, n, o, l, q
  <1>9. CASE n = l + Len(q)
    <2>1. Len(s) = n + 1
      BY <1>11, <1>9
    <2>2. Sql(c) = "COMMIT"
      BY <1>13, <1>3, <2>1
    <2> QED  BY <1>1, <1>11, <1>5, <1>9, <2>2 DEF s, n, o, l, q
  <1>10. n < l \/ (n >= l /\ n < l + Len(q)) \/ n = l + Len(q)
    <2>1. l \in Nat /\ Len(s) = l + Len(q) + 1
      BY <1>11, <1>4
    <2> QED  BY <1>3, <1>5, <2>1
  <1> QED  BY <1>7, <1>8, <1>9, <1>10

LEMMA Before ==
    ASSUME NEW z \in Nat, NEW n \in 0..(z - 1), n + 1 # z
    PROVE  n \in Nat /\ n + 1 \in 0..(z - 1)
  <1>1. n \in Nat
    OBVIOUS
  <1>2. n + 1 \in 0..(z - 1)
    OBVIOUS
  <1> QED  BY <1>1, <1>2

(* No two statements are the same word, and no key is one.                 *)
LEMMA Meaning ==
    ASSUME NEW c \in Conn, Underway(c)
    PROVE  /\ Sql(c) \in Sentence /\ Sql(c) # "none"
           /\ Sql(c) = "INSERT restriction" => call[c].op = "impose" /\ Done(c) = 0
           /\ Sql(c) = "UPDATE status" => call[c].op \in {"expire", "clear"} /\ Done(c) = 0
           /\ Sql(c) = "INSERT event" =>
                  call[c].op \in {"impose", "expire", "clear"} /\ Done(c) = 1
           /\ Sql(c) = "INSERT ledger" =>
                  call[c].op \in {"impose", "expire", "clear"} /\ Done(c) = 2
           /\ Sql(c) = "INSERT marker" => call[c].op \in {"initialize", "replace"} /\ Done(c) = 0
           /\ Sql(c) = "INSERT inits" => call[c].op \in {"initialize", "replace"} /\ Done(c) = 1
           /\ Sql(c) = "DELETE rows" => call[c].op = "replace" /\ Done(c) = 2
           /\ Sql(c) = "INSERT nonce" => call[c].op = "claim" /\ Done(c) = 0
           /\ Sql(c) = "UPDATE remaining" => call[c].op = "consume" /\ Done(c) = 0
           /\ Sql(c) = "UPSERT counter" => call[c].op = "count" /\ Done(c) = 1
           /\ Sql(c) = "UPDATE seal" => \/ (call[c].op = "consume" /\ Done(c) = 1)
                                       \/ (call[c].op = "count" /\ Done(c) = 2)
           /\ Sql(c) \in Key => call[c].op \in {"initialize", "replace"}
           /\ Sql(c) = "SELECT active" => call[c].op = "active" /\ Done(c) = 0
           /\ Sql(c) = "SELECT latest" => call[c].op = "active" /\ Done(c) = 1
           /\ Sql(c) = "SELECT marker" => call[c].op = "initialized" /\ Done(c) = 0
           /\ Sql(c) = "SELECT inits" => call[c].op = "initialized" /\ Done(c) = 1
           /\ Sql(c) = "SELECT rows" => call[c].op = "rows" /\ Done(c) = 0
           /\ Sql(c) = "SELECT counter" => call[c].op = "count" /\ Done(c) = 0
           /\ Sql(c) \in Writes \cup {"COMMIT"} => call[c].op \in WriteOp
           /\ Sql(c) \in Key => Sql(c) \notin Words
  <1> DEFINE o == call[c].op
             n == Done(c)
             z == Len(Whole(c))
             l == Lead(o)
             q == call[c].arg
  <1>1. \A k \in Key : k \notin Words
    BY KeyAssumption
  <1>2. CASE o \notin {"initialize", "replace"}
    <2>1. CASE o = "impose" /\ n = 0 /\ Sql(c) = "INSERT restriction"
      <3>1. Sql(c) \in Words /\ Sql(c) \notin Key
        BY <1>1, <2>1 DEF Words
      <3> QED  BY <2>1, <3>1 DEF Sentence, Writes, WriteOp
    <2>2. CASE o = "impose" /\ n = 1 /\ Sql(c) = "INSERT event"
      <3>1. Sql(c) \in Words /\ Sql(c) \notin Key
        BY <1>1, <2>2 DEF Words
      <3> QED  BY <2>2, <3>1 DEF Sentence, Writes, WriteOp
    <2>3. CASE o = "impose" /\ n = 2 /\ Sql(c) = "INSERT ledger"
      <3>1. Sql(c) \in Words /\ Sql(c) \notin Key
        BY <1>1, <2>3 DEF Words
      <3> QED  BY <2>3, <3>1 DEF Sentence, Writes, WriteOp
    <2>4. CASE o = "impose" /\ n = 3 /\ Sql(c) = "COMMIT"
      <3>1. Sql(c) \in Words /\ Sql(c) \notin Key
        BY <1>1, <2>4 DEF Words
      <3> QED  BY <2>4, <3>1 DEF Sentence, Writes, WriteOp
    <2>5. CASE o \in {"expire", "clear"} /\ n = 0 /\ Sql(c) = "UPDATE status"
      <3>1. Sql(c) \in Words /\ Sql(c) \notin Key
        BY <1>1, <2>5 DEF Words
      <3> QED  BY <2>5, <3>1 DEF Sentence, Writes, WriteOp
    <2>6. CASE o \in {"expire", "clear"} /\ n = 1 /\ Sql(c) = "INSERT event"
      <3>1. Sql(c) \in Words /\ Sql(c) \notin Key
        BY <1>1, <2>6 DEF Words
      <3> QED  BY <2>6, <3>1 DEF Sentence, Writes, WriteOp
    <2>7. CASE o \in {"expire", "clear"} /\ n = 2 /\ Sql(c) = "INSERT ledger"
      <3>1. Sql(c) \in Words /\ Sql(c) \notin Key
        BY <1>1, <2>7 DEF Words
      <3> QED  BY <2>7, <3>1 DEF Sentence, Writes, WriteOp
    <2>8. CASE o \in {"expire", "clear"} /\ n = 3 /\ Sql(c) = "COMMIT"
      <3>1. Sql(c) \in Words /\ Sql(c) \notin Key
        BY <1>1, <2>8 DEF Words
      <3> QED  BY <2>8, <3>1 DEF Sentence, Writes, WriteOp
    <2>9. CASE o = "consume" /\ n = 0 /\ Sql(c) = "UPDATE remaining"
      <3>1. Sql(c) \in Words /\ Sql(c) \notin Key
        BY <1>1, <2>9 DEF Words
      <3> QED  BY <2>9, <3>1 DEF Sentence, Writes, WriteOp
    <2>10. CASE o = "consume" /\ n = 1 /\ Sql(c) = "UPDATE seal"
      <3>1. Sql(c) \in Words /\ Sql(c) \notin Key
        BY <1>1, <2>10 DEF Words
      <3> QED  BY <2>10, <3>1 DEF Sentence, Writes, WriteOp
    <2>11. CASE o = "consume" /\ n = 2 /\ Sql(c) = "COMMIT"
      <3>1. Sql(c) \in Words /\ Sql(c) \notin Key
        BY <1>1, <2>11 DEF Words
      <3> QED  BY <2>11, <3>1 DEF Sentence, Writes, WriteOp
    <2>12. CASE o = "count" /\ n = 0 /\ Sql(c) = "SELECT counter"
      <3>1. Sql(c) \in Words /\ Sql(c) \notin Key
        BY <1>1, <2>12 DEF Words
      <3> QED  BY <2>12, <3>1 DEF Sentence, Writes, WriteOp
    <2>13. CASE o = "count" /\ n = 1 /\ Sql(c) = "UPSERT counter"
      <3>1. Sql(c) \in Words /\ Sql(c) \notin Key
        BY <1>1, <2>13 DEF Words
      <3> QED  BY <2>13, <3>1 DEF Sentence, Writes, WriteOp
    <2>14. CASE o = "count" /\ n = 2 /\ Sql(c) = "UPDATE seal"
      <3>1. Sql(c) \in Words /\ Sql(c) \notin Key
        BY <1>1, <2>14 DEF Words
      <3> QED  BY <2>14, <3>1 DEF Sentence, Writes, WriteOp
    <2>15. CASE o = "count" /\ n = 3 /\ Sql(c) = "COMMIT"
      <3>1. Sql(c) \in Words /\ Sql(c) \notin Key
        BY <1>1, <2>15 DEF Words
      <3> QED  BY <2>15, <3>1 DEF Sentence, Writes, WriteOp
    <2>16. CASE o = "claim" /\ n = 0 /\ Sql(c) = "INSERT nonce"
      <3>1. Sql(c) \in Words /\ Sql(c) \notin Key
        BY <1>1, <2>16 DEF Words
      <3> QED  BY <2>16, <3>1 DEF Sentence, Writes, WriteOp
    <2>17. CASE o = "claim" /\ n = 1 /\ Sql(c) = "COMMIT"
      <3>1. Sql(c) \in Words /\ Sql(c) \notin Key
        BY <1>1, <2>17 DEF Words
      <3> QED  BY <2>17, <3>1 DEF Sentence, Writes, WriteOp
    <2>18. CASE o = "active" /\ n = 0 /\ Sql(c) = "SELECT active"
      <3>1. Sql(c) \in Words /\ Sql(c) \notin Key
        BY <1>1, <2>18 DEF Words
      <3> QED  BY <2>18, <3>1 DEF Sentence, Writes, WriteOp
    <2>19. CASE o = "active" /\ n = 1 /\ Sql(c) = "SELECT latest"
      <3>1. Sql(c) \in Words /\ Sql(c) \notin Key
        BY <1>1, <2>19 DEF Words
      <3> QED  BY <2>19, <3>1 DEF Sentence, Writes, WriteOp
    <2>20. CASE o = "initialized" /\ n = 0 /\ Sql(c) = "SELECT marker"
      <3>1. Sql(c) \in Words /\ Sql(c) \notin Key
        BY <1>1, <2>20 DEF Words
      <3> QED  BY <2>20, <3>1 DEF Sentence, Writes, WriteOp
    <2>21. CASE o = "initialized" /\ n = 1 /\ Sql(c) = "SELECT inits"
      <3>1. Sql(c) \in Words /\ Sql(c) \notin Key
        BY <1>1, <2>21 DEF Words
      <3> QED  BY <2>21, <3>1 DEF Sentence, Writes, WriteOp
    <2>22. CASE o = "rows" /\ n = 0 /\ Sql(c) = "SELECT rows"
      <3>1. Sql(c) \in Words /\ Sql(c) \notin Key
        BY <1>1, <2>22 DEF Words
      <3> QED  BY <2>22, <3>1 DEF Sentence, Writes, WriteOp
    <2>23. CASE o = "impose"
      <3>1. \/ n = 0 /\ Sql(c) = "INSERT restriction"
            \/ n = 1 /\ Sql(c) = "INSERT event"
            \/ n = 2 /\ Sql(c) = "INSERT ledger"
            \/ n = 3 /\ Sql(c) = "COMMIT"
        BY <2>23, <1>2, ShortPosition
      <3> QED  BY <2>23, <3>1, <2>1, <2>2, <2>3, <2>4
    <2>24. CASE o \in {"expire", "clear"}
      <3>1. \/ n = 0 /\ Sql(c) = "UPDATE status"
            \/ n = 1 /\ Sql(c) = "INSERT event"
            \/ n = 2 /\ Sql(c) = "INSERT ledger"
            \/ n = 3 /\ Sql(c) = "COMMIT"
        BY <2>24, <1>2, ShortPosition
      <3> QED  BY <2>24, <3>1, <2>5, <2>6, <2>7, <2>8
    <2>25. CASE o = "consume"
      <3>1. \/ n = 0 /\ Sql(c) = "UPDATE remaining"
            \/ n = 1 /\ Sql(c) = "UPDATE seal"
            \/ n = 2 /\ Sql(c) = "COMMIT"
        BY <2>25, <1>2, ShortPosition
      <3> QED  BY <2>25, <3>1, <2>9, <2>10, <2>11
    <2>26. CASE o = "count"
      <3>1. \/ n = 0 /\ Sql(c) = "SELECT counter"
            \/ n = 1 /\ Sql(c) = "UPSERT counter"
            \/ n = 2 /\ Sql(c) = "UPDATE seal"
            \/ n = 3 /\ Sql(c) = "COMMIT"
        BY <2>26, <1>2, ShortPosition
      <3> QED  BY <2>26, <3>1, <2>12, <2>13, <2>14, <2>15
    <2>27. CASE o \in {"claim", "active", "initialized", "rows"}
      <3>1. \/ o = "claim" /\ n = 0 /\ Sql(c) = "INSERT nonce"
            \/ o = "claim" /\ n = 1 /\ Sql(c) = "COMMIT"
            \/ o = "active" /\ n = 0 /\ Sql(c) = "SELECT active"
            \/ o = "active" /\ n = 1 /\ Sql(c) = "SELECT latest"
            \/ o = "initialized" /\ n = 0 /\ Sql(c) = "SELECT marker"
            \/ o = "initialized" /\ n = 1 /\ Sql(c) = "SELECT inits"
            \/ o = "rows" /\ n = 0 /\ Sql(c) = "SELECT rows"
        BY <2>27, <1>2, ShortPosition
      <3> QED  BY <3>1, <2>16, <2>17, <2>18, <2>19, <2>20, <2>21, <2>22
    <2>28. o \in ShortOp
      BY <1>2, ShortPosition DEF ShortOp
    <2> QED  BY <2>23, <2>24, <2>25, <2>26, <2>27, <2>28 DEF ShortOp
  <1>3. CASE o \in {"initialize", "replace"}
    <2>1. CASE n = 0 /\ Sql(c) = "INSERT marker"
      <3>1. Sql(c) \in Words /\ Sql(c) \notin Key
        BY <1>1, <2>1 DEF Words
      <3> QED  BY <1>3, <2>1, <3>1 DEF Sentence, Writes, WriteOp
    <2>2. CASE n = 1 /\ Sql(c) = "INSERT inits"
      <3>1. Sql(c) \in Words /\ Sql(c) \notin Key
        BY <1>1, <2>2 DEF Words
      <3> QED  BY <1>3, <2>2, <3>1 DEF Sentence, Writes, WriteOp
    <2>3. CASE n = 2 /\ Sql(c) = "DELETE rows" /\ o = "replace"
      <3>1. Sql(c) \in Words /\ Sql(c) \notin Key
        BY <1>1, <2>3 DEF Words
      <3> QED  BY <1>3, <2>3, <3>1 DEF Sentence, Writes, WriteOp
    <2>4. CASE Sql(c) = "COMMIT"
      <3>1. Sql(c) \in Words /\ Sql(c) \notin Key
        BY <1>1, <2>4 DEF Words
      <3> QED  BY <1>3, <2>4, <3>1 DEF Sentence, Writes, WriteOp
    <2>5. CASE Sql(c) \in Key
      <3>1. Sql(c) \notin Words
        BY <1>1, <2>5
      <3>2. \A w \in Words : Sql(c) # w
        BY <3>1
      <3>3. Sql(c) \in Sentence /\ o \in WriteOp
        BY <1>3, <2>5 DEF Sentence, WriteOp
      <3> QED  BY <1>3, <2>5, <3>1, <3>2, <3>3 DEF Words
    <2> QED  BY <1>3, LongPosition, <2>1, <2>2, <2>3, <2>4, <2>5
  <1> QED  BY <1>2, <1>3

LEMMA Wording ==
    ASSUME NEW k \in Key
    PROVE  /\ k \notin Words /\ k # "COMMIT"
           /\ k # "INSERT marker" /\ k # "INSERT inits" /\ k # "DELETE rows"
  BY KeyAssumption DEF Words

LEMMA AtKey ==
    ASSUME NEW c \in Conn, Underway(c), Sql(c) \in Key
    PROVE  LET i == Done(c) - Lead(call[c].op) + 1
           IN  /\ call[c].arg \in Seq(Key) /\ Len(call[c].arg) \in Nat
               /\ i \in 1..Len(call[c].arg) /\ Sql(c) = call[c].arg[i]
  <1>1. call[c].op \in {"initialize", "replace"}
    BY Meaning
  <1>2. Sql(c) # "COMMIT" /\ Sql(c) # "INSERT marker" /\ Sql(c) # "INSERT inits" /\ Sql(c) # "DELETE rows"
    BY Wording
  <1> QED  BY <1>1, <1>2, LongPosition

LEMMA AtCommit ==
    ASSUME NEW c \in Conn, Underway(c), Sql(c) = "COMMIT"
    PROVE  /\ Done(c) >= 1
           /\ call[c].op \in {"initialize", "replace"} =>
                  Done(c) = Lead(call[c].op) + Len(call[c].arg)
  <1>1. CASE call[c].op \notin {"initialize", "replace"}
    <2>1. Done(c) = 1 \/ Done(c) = 2 \/ Done(c) = 3
      BY <1>1, ShortPosition
    <2> QED  BY <1>1, <2>1
  <1>2. CASE call[c].op \in {"initialize", "replace"}
    <2> DEFINE l == Lead(call[c].op)
               q == call[c].arg
    <2>1. q \in Seq(Key) /\ Len(q) \in Nat
      BY <1>2, LongPosition
    <2>2. \A i \in 1..Len(q) : q[i] # "COMMIT"
      <3>1. \A i \in 1..Len(q) : q[i] \in Key
        BY <2>1
      <3> QED  BY <3>1, Wording
    <2>3. Done(c) = l + Len(q)
      BY <1>2, <2>2, LongPosition
    <2>4. l = 2 \/ l = 3
      BY DEF Lead
    <2> HIDE DEF l, q
    <2>5. Done(c) >= 1
      BY <2>1, <2>3, <2>4
    <2> QED  BY <2>3, <2>5 DEF l, q
  <1> QED  BY <1>1, <1>2

LEMMA Endings ==
    /\ Len(ImposeStatements) = 4 /\ ImposeStatements[Len(ImposeStatements)] = "COMMIT"
    /\ Len(TransitionStatements) = 4 /\ TransitionStatements[Len(TransitionStatements)] = "COMMIT"
    /\ Len(ConsumeStatements) = 3 /\ ConsumeStatements[Len(ConsumeStatements)] = "COMMIT"
    /\ Len(CountStatements) = 4 /\ CountStatements[Len(CountStatements)] = "COMMIT"
    /\ Len(ClaimStatements) = 2 /\ ClaimStatements[Len(ClaimStatements)] = "COMMIT"
    /\ Len(ActiveStatements) = 2 /\ ActiveStatements[Len(ActiveStatements)] = "SELECT latest"
    /\ Len(InitializedStatements) = 2 /\ InitializedStatements[Len(InitializedStatements)] = "SELECT inits"
    /\ Len(RowsStatements) = 1 /\ RowsStatements[Len(RowsStatements)] = "SELECT rows"
  <1>1. Len(ImposeStatements) = 4 /\ ImposeStatements[4] = "COMMIT"
    BY DEF ImposeStatements
  <1>2. Len(TransitionStatements) = 4 /\ TransitionStatements[4] = "COMMIT"
    BY DEF TransitionStatements
  <1>3. Len(ConsumeStatements) = 3 /\ ConsumeStatements[3] = "COMMIT"
    BY DEF ConsumeStatements
  <1>4. Len(CountStatements) = 4 /\ CountStatements[4] = "COMMIT"
    BY DEF CountStatements
  <1>5. Len(ClaimStatements) = 2 /\ ClaimStatements[2] = "COMMIT"
    BY DEF ClaimStatements
  <1>6. Len(ActiveStatements) = 2 /\ ActiveStatements[2] = "SELECT latest"
    BY DEF ActiveStatements
  <1>7. Len(InitializedStatements) = 2 /\ InitializedStatements[2] = "SELECT inits"
    BY DEF InitializedStatements
  <1>8. Len(RowsStatements) = 1 /\ RowsStatements[1] = "SELECT rows"
    BY DEF RowsStatements
  <1> QED  BY <1>1, <1>2, <1>3, <1>4, <1>5, <1>6, <1>7, <1>8

(* After a statement other than the last one of a call there is another.   *)
Onward == Writes \cup {"SELECT active", "SELECT marker", "SELECT counter"}

LEMMA NotLast ==
    ASSUME NEW c \in Conn, Underway(c), Sql(c) \in Onward
    PROVE  Done(c) + 1 \in 0..(Len(Whole(c)) - 1) /\ Done(c) \in Nat /\ Len(Whole(c)) \in Nat
  <1> DEFINE s == Whole(c)
             n == Done(c)
  <1>1. s \in Seq(Sentence) /\ Sql(c) = s[n + 1]
    BY Position
  <1>2. Len(s) \in Nat
    BY <1>1, LenProperties
  <1>3. n \in 0..(Len(s) - 1)
    BY DEF Underway
  <1>4. s[Len(s)] \in {"COMMIT", "SELECT latest", "SELECT inits", "SELECT rows"}
    <2>1. CASE call[c].op \in {"initialize", "replace"}
      <3>1. call[c].arg \in Seq(Key)
        BY <2>1, LongPosition
      <3> QED  BY <2>1, <3>1, LongStatements DEF Whole
    <2>2. CASE call[c].op \notin {"initialize", "replace"}
      <3>1. <<call[c].op, call[c].arg>> \in Calls
        BY DEF Underway
      <3>2. \/ s = ImposeStatements \/ s = TransitionStatements \/ s = ActiveStatements
            \/ s = InitializedStatements \/ s = ClaimStatements \/ s = RowsStatements
            \/ s = ConsumeStatements \/ s = CountStatements
        <4>1. call[c].op \in ShortOp
          BY <2>2, <3>1, SomeCall DEF Operation, ShortOp
        <4> QED  BY <2>2, <3>1, <4>1, ShortStatements DEF Whole, ShortOp
      <3> QED  BY <3>2, Endings
    <2> QED  BY <2>1, <2>2
  <1>5. Sql(c) \notin {"COMMIT", "SELECT latest", "SELECT inits", "SELECT rows"}
    <2>1. CASE Sql(c) \in Key
      BY <2>1, KeyAssumption DEF Words
    <2>2. CASE Sql(c) \notin Key
      BY <2>2 DEF Writes, Onward
    <2> QED  BY <2>1, <2>2
  <1> HIDE DEF s, n
  <1>6. s[n + 1] # s[Len(s)]
    BY <1>1, <1>4, <1>5
  <1>7. n + 1 # Len(s)
    BY <1>6
  <1> QED  BY <1>2, <1>3, <1>7, Before DEF s, n

LEMMA Difference ==
    ASSUME NEW a \in Nat, NEW b \in Nat
    PROVE  a - (a - b) = b
  OBVIOUS

LEMMA RestTwice ==
    ASSUME NEW S, NEW s \in Seq(S), Len(s) >= 3
    PROVE  Tail(Rest(s, 1)) = Rest(s, 2) /\ Len(s) - Len(Rest(s, 2)) = 2 /\ 2 \in 0..(Len(s) - 1)
  <1>1. Len(s) \in Nat
    BY LenProperties
  <1>2. 1 \in 0..(Len(s) - 1) /\ 2 \in 0..(Len(s) - 1)
    BY <1>1
  <1>3. Tail(Rest(s, 1)) = Rest(s, 1 + 1) /\ Len(Rest(s, 2)) = Len(s) - 2
    BY <1>2, RestStep
  <1> QED  BY <1>1, <1>2, <1>3

LEMMA RestLast ==
    ASSUME NEW S, NEW s \in Seq(S), Len(s) \in Nat, Len(s) >= 1
    PROVE  /\ Rest(s, Len(s) - 1) = <<s[Len(s)]>> /\ Len(s) - 1 \in 0..(Len(s) - 1)
           /\ Len(s) - Len(<<s[Len(s)]>>) = Len(s) - 1
  <1> DEFINE n == Len(s)
  <1>1. n \in Nat /\ n >= 1 /\ n - 1 \in 0..(n - 1) /\ n - 1 + 1 = n /\ n \in 1..n
    OBVIOUS
  <1>2. SubSeq(s, n, n) = <<s[n]>>
    <2>1. SubSeq(s, n, n) = [i \in 1..(1 + n - n) |-> s[i + n - 1]]
      BY <1>1
    <2>2. 1 + n - n = 1 /\ \A i \in 1..1 : i + n - 1 = n
      BY <1>1
    <2> QED  BY <2>1, <2>2
  <1> HIDE DEF n
  <1>3. Rest(s, n - 1) = <<s[n]>>
    <2>1. Rest(s, n - 1) = SubSeq(s, n - 1 + 1, n)
      BY DEF Rest, n
    <2> QED  BY <1>1, <1>2, <2>1
  <1>4. Len(<<s[n]>>) = 1
    OBVIOUS
  <1> QED  BY <1>1, <1>3, <1>4 DEF n

LEMMA Plenty ==
    ASSUME NEW n \in Nat
    PROVE  3 + n + 1 >= 3
  OBVIOUS

LEMMA Numbers ==
    ASSUME NEW n
    PROVE  /\ n = 4 => n \in Nat /\ n >= 1 /\ n - 1 = 3
           /\ n = 3 => n \in Nat /\ n >= 1 /\ n - 1 = 2
           /\ n = 0 => n + 1 = 1
  OBVIOUS

LEMMA Starts ==
    ASSUME NEW c \in Conn, TxTypes, NEW k \in Calls, Call(c, k[1], k[2])
    PROVE  /\ Underway(c)' /\ Done(c)' = 0 /\ call[c] = NoCall
           /\ call'[c].op = k[1] /\ call'[c].arg = k[2] /\ call'[c].saw = {}
           /\ call'[c] = [op |-> call'[c].op, arg |-> call'[c].arg,
                          todo |-> call'[c].todo, saw |-> call'[c].saw]
           /\ DOMAIN call' = Conn /\ \A d \in Conn \ {c} : call'[d] = call[d]
  <1> DEFINE s == Statements(k[1], k[2])
  <1>1. /\ call[c] = NoCall
        /\ call' = [call EXCEPT ![c] = [op |-> k[1], arg |-> k[2], todo |-> s, saw |-> {}]]
    BY DEF Call
  <1>3. k = <<k[1], k[2]>> /\ <<k[1], k[2]>> \in Calls
    BY DEF Calls
  <1>4. s \in Seq(Sentence) /\ Len(s) >= 1
    <2>1. CASE k[1] \in {"initialize", "replace"}
      <3>1. k[2] \in Seq(Key)
        BY <1>3, <2>1, SomeCall
      <3>2. s \in Seq(Sentence) /\ Len(s) = Lead(k[1]) + Len(k[2]) + 1
        BY <2>1, <3>1, LongStatements
      <3>3. Lead(k[1]) \in {2, 3} /\ Len(k[2]) \in Nat
        BY <3>1, LenProperties DEF Lead
      <3> QED  BY <3>2, <3>3
    <2>2. CASE k[1] \notin {"initialize", "replace"}
      <3>1. s \in Seq(Sentence)
        BY <1>3, <2>2, ShortStatements
      <3>2. k[1] \in ShortOp
        BY <1>3, <2>2, SomeCall DEF Operation, ShortOp
      <3>3. \/ s = ImposeStatements \/ s = TransitionStatements \/ s = ActiveStatements
            \/ s = InitializedStatements \/ s = ClaimStatements \/ s = RowsStatements
            \/ s = ConsumeStatements \/ s = CountStatements
        BY <1>3, <2>2, <3>2, ShortStatements DEF ShortOp
      <3>4. Len(s) \in {1, 2, 3, 4}
        BY <3>3, Endings
      <3>5. Len(s) >= 1
        BY <3>4, SMTT(30)
      <3> QED  BY <3>1, <3>5
    <2> QED  BY <2>1, <2>2
  <1>5. call'[c] = [op |-> k[1], arg |-> k[2], todo |-> s, saw |-> {}]
    BY <1>1 DEF TxTypes
  <1>6. call'[c].op = k[1] /\ call'[c].arg = k[2] /\ call'[c].todo = s /\ call'[c].saw = {}
    BY <1>5
  <1> HIDE DEF s
  <1>7. Len(s) - Len(s) = 0 /\ 0 \in 0..(Len(s) - 1) /\ Rest(s, 0) = s
    <2>1. Len(s) \in Nat
      BY <1>4, LenProperties
    <2>2. 0 \in 0..(Len(s) - 1)
      BY <1>4, <2>1
    <2> QED  BY <1>4, <2>1, <2>2, RestStep
  <1>8. Whole(c)' = s
    BY <1>6 DEF Whole, s
  <1>9. Underway(c)' /\ Done(c)' = 0
    BY <1>3, <1>6, <1>7, <1>8 DEF Underway, Done
  <1>10. DOMAIN call' = Conn /\ \A d \in Conn \ {c} : call'[d] = call[d]
    BY <1>1 DEF TxTypes
  <1> QED  BY <1>1, <1>5, <1>6, <1>9, <1>10

LEMMA Advances ==
    ASSUME NEW c \in Conn, Underway(c), Sql(c) \in Onward,
           call'[c].op = call[c].op, call'[c].arg = call[c].arg,
           call'[c].todo = Tail(call[c].todo)
    PROVE  Underway(c)' /\ Done(c)' = Done(c) + 1
  <1> DEFINE s == Whole(c)
             n == Done(c)
  <1>1. s \in Seq(Sentence) /\ Tail(call[c].todo) = Rest(s, n + 1)
    BY Position
  <1>2. n + 1 \in 0..(Len(s) - 1) /\ n \in Nat /\ Len(s) \in Nat
    BY NotLast
  <1>3. Whole(c)' = s /\ <<call'[c].op, call'[c].arg>> \in Calls
    BY DEF Whole, Underway
  <1> HIDE DEF s, n
  <1>4. Len(Rest(s, n + 1)) = Len(s) - (n + 1)
    BY <1>1, <1>2, RestStep
  <1>7. n + 1 \in Nat
    BY <1>2
  <1>5. Len(s) - Len(Rest(s, n + 1)) = n + 1
    BY <1>2, <1>4, <1>7, Difference
  <1>6. Done(c)' = n + 1
    BY <1>1, <1>3, <1>5 DEF Done
  <1> QED  BY <1>1, <1>2, <1>3, <1>6 DEF Underway, n

Skipping(c) ==
    \/ Sql(c) = "INSERT marker" /\ call[c].op = "replace"
    \/ Sql(c) \in {"UPDATE status", "UPDATE remaining"}

LEMMA SkipsMarker ==
    ASSUME NEW c \in Conn, Underway(c), Sql(c) = "INSERT marker", call[c].op = "replace",
           call'[c].op = call[c].op, call'[c].arg = call[c].arg,
           call'[c].todo = Tail(Tail(call[c].todo))
    PROVE  Underway(c)' /\ Done(c) = 0 /\ Done(c)' = 2
  <1> DEFINE s == Whole(c)
  <1>1. Done(c) = 0
    BY Meaning
  <1>2. s \in Seq(Sentence) /\ Tail(call[c].todo) = Rest(s, 1)
    <2>1. s \in Seq(Sentence) /\ Tail(call[c].todo) = Rest(s, Done(c) + 1)
      BY Position
    <2>2. Done(c) + 1 = 1
      BY <1>1, Numbers
    <2> QED  BY <2>1, <2>2
  <1>3. Len(s) \in Nat /\ Len(s) >= 3
    <2>1. Len(s) = Lead(call[c].op) + Len(call[c].arg) + 1 /\ Len(call[c].arg) \in Nat
      BY LongPosition
    <2>2. Lead(call[c].op) = 3
      BY DEF Lead
    <2> QED  BY <1>2, <2>1, <2>2, Plenty, LenProperties
  <1>4. Whole(c)' = s /\ <<call'[c].op, call'[c].arg>> \in Calls
    BY DEF Whole, Underway
  <1> HIDE DEF s
  <1>5. Tail(Rest(s, 1)) = Rest(s, 2) /\ Len(s) - Len(Rest(s, 2)) = 2 /\ 2 \in 0..(Len(s) - 1)
    BY <1>2, <1>3, RestTwice
  <1>7. call'[c].todo = Rest(s, 2)
    BY <1>2, <1>5
  <1>9. Done(c)' = 2
    BY <1>4, <1>5, <1>7 DEF Done
  <1> QED  BY <1>1, <1>4, <1>5, <1>7, <1>9 DEF Underway

LEMMA SkipsToCommit ==
    ASSUME NEW c \in Conn, Underway(c), Sql(c) \in {"UPDATE status", "UPDATE remaining"},
           call'[c].op = call[c].op, call'[c].arg = call[c].arg,
           call'[c].todo = <<"COMMIT">>
    PROVE  /\ Underway(c)' /\ Done(c) = 0
           /\ Sql(c) = "UPDATE status" => Done(c)' = 3
           /\ Sql(c) = "UPDATE remaining" => Done(c)' = 2
  <1> DEFINE s == Whole(c)
  <1>1. /\ Done(c) = 0
        /\ Sql(c) = "UPDATE status" => call[c].op \in {"expire", "clear"}
        /\ Sql(c) = "UPDATE remaining" => call[c].op = "consume"
    BY Meaning
  <1>2. s \in Seq(Sentence)
    BY Position
  <1>3. /\ Sql(c) = "UPDATE status" => s = TransitionStatements
        /\ Sql(c) = "UPDATE remaining" => s = ConsumeStatements
    BY <1>1, ShortStatements DEF Underway, Whole
  <1>4. Whole(c)' = s /\ <<call'[c].op, call'[c].arg>> \in Calls
    BY DEF Whole, Underway
  <1> HIDE DEF s
  <1>5. /\ Sql(c) = "UPDATE status" => Len(s) = 4
        /\ Sql(c) = "UPDATE remaining" => Len(s) = 3
        /\ s[Len(s)] = "COMMIT"
    BY <1>3, Endings
  <1>6. Len(s) \in Nat /\ Len(s) >= 1
    BY <1>5, Numbers
  <1>7. /\ Rest(s, Len(s) - 1) = <<"COMMIT">> /\ Len(s) - 1 \in 0..(Len(s) - 1)
        /\ Len(s) - Len(<<"COMMIT">>) = Len(s) - 1
    BY <1>2, <1>5, <1>6, RestLast
  <1>8. Done(c)' = Len(s) - 1
    BY <1>4, <1>7 DEF Done
  <1>9. Underway(c)'
    BY <1>4, <1>7, <1>8 DEF Underway
  <1>10. /\ Sql(c) = "UPDATE status" => Done(c)' = 3
         /\ Sql(c) = "UPDATE remaining" => Done(c)' = 2
    BY <1>5, <1>8, Numbers
  <1> QED  BY <1>1, <1>9, <1>10

(* What each statement makes of the database it sees.                      *)
SameRestrictions(w, d) == w.status = d.status /\ w.events = d.events /\ w.ledger = d.ledger
SameAgent(w, d) == w.marker = d.marker /\ w.inits = d.inits /\ w.rows = d.rows
SameCounts(w, d) == w.count = d.count /\ w.nonces = d.nonces
SameSeals(w, d) == w.unsealed = d.unsealed
SameButLedger(w, d) ==
    /\ w.status = d.status /\ w.events = d.events
    /\ SameAgent(w, d) /\ SameCounts(w, d) /\ SameSeals(w, d) /\ w.left = d.left
SameButStatus(w, d) ==
    /\ w.events = d.events /\ w.ledger = d.ledger
    /\ SameAgent(w, d) /\ SameCounts(w, d) /\ SameSeals(w, d) /\ w.left = d.left

LEMMA ChangedFields ==
    ASSUME NEW d \in Database, NEW x, NEW y
    PROVE  /\ LET w == [d EXCEPT !.status = x] IN w.status = x /\ SameButStatus(w, d)
           /\ LET w == [d EXCEPT !.ledger = x] IN w.ledger = x /\ SameButLedger(w, d)
           /\ LET w == [d EXCEPT !.events = x]
              IN  /\ w.events = x /\ w.status = d.status /\ w.ledger = d.ledger
                  /\ SameAgent(w, d) /\ SameCounts(w, d) /\ SameSeals(w, d) /\ w.left = d.left
           /\ LET w == [d EXCEPT !.marker = x]
              IN  /\ w.marker = x /\ w.inits = d.inits /\ w.rows = d.rows /\ w.left = d.left
                  /\ SameRestrictions(w, d) /\ SameCounts(w, d) /\ SameSeals(w, d)
           /\ LET w == [d EXCEPT !.inits = x]
              IN  /\ w.inits = x /\ w.marker = d.marker /\ w.rows = d.rows /\ w.left = d.left
                  /\ SameRestrictions(w, d) /\ SameCounts(w, d) /\ SameSeals(w, d)
           /\ LET w == [d EXCEPT !.nonces = x]
              IN  /\ w.nonces = x /\ w.count = d.count /\ w.left = d.left
                  /\ SameRestrictions(w, d) /\ SameAgent(w, d) /\ SameSeals(w, d)
           /\ LET w == [d EXCEPT !.unsealed = x]
              IN  /\ w.unsealed = x /\ w.left = d.left
                  /\ SameRestrictions(w, d) /\ SameAgent(w, d) /\ SameCounts(w, d)
           /\ LET w == [d EXCEPT !.rows = x, !.left = y]
              IN  /\ w.rows = x /\ w.left = y /\ w.marker = d.marker /\ w.inits = d.inits
                  /\ SameRestrictions(w, d) /\ SameCounts(w, d) /\ SameSeals(w, d)
           /\ LET w == [d EXCEPT !.left = x, !.unsealed = y]
              IN  /\ w.left = x /\ w.unsealed = y
                  /\ SameRestrictions(w, d) /\ SameAgent(w, d) /\ SameCounts(w, d)
           /\ LET w == [d EXCEPT !.count = x, !.unsealed = y]
              IN  /\ w.count = x /\ w.unsealed = y /\ w.left = d.left /\ w.nonces = d.nonces
                  /\ SameRestrictions(w, d) /\ SameAgent(w, d)
  <1>1. DOMAIN d = {"status", "events", "ledger", "marker", "inits", "rows", "left", "count",
                    "nonces", "unsealed"}
    BY DEF Database
  <1>2. LET w == [d EXCEPT !.status = x] IN w.status = x /\ SameButStatus(w, d)
    BY <1>1 DEF SameButStatus, SameAgent, SameCounts, SameSeals
  <1>3. LET w == [d EXCEPT !.ledger = x] IN w.ledger = x /\ SameButLedger(w, d)
    BY <1>1 DEF SameButLedger, SameAgent, SameCounts, SameSeals
  <1>4. LET w == [d EXCEPT !.events = x]
        IN  /\ w.events = x /\ w.status = d.status /\ w.ledger = d.ledger
            /\ SameAgent(w, d) /\ SameCounts(w, d) /\ SameSeals(w, d) /\ w.left = d.left
    BY <1>1 DEF SameAgent, SameCounts, SameSeals
  <1>5. LET w == [d EXCEPT !.marker = x]
        IN  /\ w.marker = x /\ w.inits = d.inits /\ w.rows = d.rows /\ w.left = d.left
            /\ SameRestrictions(w, d) /\ SameCounts(w, d) /\ SameSeals(w, d)
    BY <1>1 DEF SameRestrictions, SameCounts, SameSeals
  <1>6. LET w == [d EXCEPT !.inits = x]
        IN  /\ w.inits = x /\ w.marker = d.marker /\ w.rows = d.rows /\ w.left = d.left
            /\ SameRestrictions(w, d) /\ SameCounts(w, d) /\ SameSeals(w, d)
    BY <1>1 DEF SameRestrictions, SameCounts, SameSeals
  <1>7. LET w == [d EXCEPT !.nonces = x]
        IN  /\ w.nonces = x /\ w.count = d.count /\ w.left = d.left
            /\ SameRestrictions(w, d) /\ SameAgent(w, d) /\ SameSeals(w, d)
    BY <1>1 DEF SameRestrictions, SameAgent, SameSeals
  <1>8. LET w == [d EXCEPT !.unsealed = x]
        IN  /\ w.unsealed = x /\ w.left = d.left
            /\ SameRestrictions(w, d) /\ SameAgent(w, d) /\ SameCounts(w, d)
    BY <1>1 DEF SameRestrictions, SameAgent, SameCounts
  <1>9. LET w == [d EXCEPT !.rows = x, !.left = y]
        IN  /\ w.rows = x /\ w.left = y /\ w.marker = d.marker /\ w.inits = d.inits
            /\ SameRestrictions(w, d) /\ SameCounts(w, d) /\ SameSeals(w, d)
    BY <1>1 DEF SameRestrictions, SameCounts, SameSeals
  <1>10. LET w == [d EXCEPT !.left = x, !.unsealed = y]
         IN  /\ w.left = x /\ w.unsealed = y
             /\ SameRestrictions(w, d) /\ SameAgent(w, d) /\ SameCounts(w, d)
    BY <1>1 DEF SameRestrictions, SameAgent, SameCounts
  <1>11. LET w == [d EXCEPT !.count = x, !.unsealed = y]
         IN  /\ w.count = x /\ w.unsealed = y /\ w.left = d.left /\ w.nonces = d.nonces
             /\ SameRestrictions(w, d) /\ SameAgent(w, d)
    BY <1>1 DEF SameRestrictions, SameAgent
  <1> QED  BY <1>2, <1>3, <1>4, <1>5, <1>6, <1>7, <1>8, <1>9, <1>10, <1>11

(* Each statement as a change of the record, in the order of Written.      *)
LEMMA WrittenIs ==
    ASSUME NEW c \in Conn, NEW d
    PROVE  /\ Sql(c) = "INSERT restriction" =>
                  Written(c, d) = [d EXCEPT !.status[call[c].arg] = "ACTIVE"]
           /\ Sql(c) = "UPDATE status" =>
                  Written(c, d) = [d EXCEPT !.status[call[c].arg] = NewStatus(call[c].op)]
           /\ Sql(c) = "INSERT event" =>
                  Written(c, d) = [d EXCEPT !.events = d.events \cup {<<call[c].arg, Event(call[c].op)>>}]
           /\ Sql(c) = "INSERT ledger" =>
                  Written(c, d) = [d EXCEPT !.ledger = Append(d.ledger, Entry(c, d.ledger))]
           /\ Sql(c) = "INSERT marker" =>
                  Written(c, d) = [d EXCEPT !.marker = TRUE]
           /\ Sql(c) = "INSERT inits" =>
                  Written(c, d) = [d EXCEPT !.inits = TRUE]
           /\ Sql(c) = "DELETE rows" =>
                  Written(c, d) = [d EXCEPT !.rows = {}, !.left = [k \in Key |-> 0], !.unsealed = d.unsealed \cap {"counter"}]
           /\ Sql(c) = "INSERT nonce" =>
                  Written(c, d) = [d EXCEPT !.nonces = d.nonces \cup {call[c].arg}]
           /\ Sql(c) = "UPDATE remaining" =>
                  Written(c, d) = [d EXCEPT !.left[call[c].arg] = d.left[call[c].arg] - 1, !.unsealed = d.unsealed \cup {call[c].arg}]
           /\ Sql(c) = "UPSERT counter" =>
                  Written(c, d) = [d EXCEPT !.count = d.count + 1, !.unsealed = d.unsealed \cup {"counter"}]
           /\ Sql(c) = "UPDATE seal" =>
                  Written(c, d) = [d EXCEPT !.unsealed = d.unsealed \ {SealOf(c)}]
           /\ Sql(c) \in Key =>
                  Written(c, d) = [d EXCEPT !.rows = d.rows \cup {Sql(c)}, !.left[Sql(c)] = Units]
  <1>1. ASSUME Sql(c) = "INSERT restriction"
        PROVE  Written(c, d) = [d EXCEPT !.status[call[c].arg] = "ACTIVE"]
    <2>1. "INSERT restriction" \notin Key
      BY KeyAssumption DEF Words
    <2> QED  BY <1>1, <2>1, Zenon DEF Written
  <1>2. ASSUME Sql(c) = "UPDATE status"
        PROVE  Written(c, d) = [d EXCEPT !.status[call[c].arg] = NewStatus(call[c].op)]
    <2>1. "UPDATE status" \notin Key
      BY KeyAssumption DEF Words
    <2> QED  BY <1>2, <2>1, Zenon DEF Written
  <1>3. ASSUME Sql(c) = "INSERT event"
        PROVE  Written(c, d) = [d EXCEPT !.events = d.events \cup {<<call[c].arg, Event(call[c].op)>>}]
    <2>1. "INSERT event" \notin Key
      BY KeyAssumption DEF Words
    <2> QED  BY <1>3, <2>1, Zenon DEF Written
  <1>4. ASSUME Sql(c) = "INSERT ledger"
        PROVE  Written(c, d) = [d EXCEPT !.ledger = Append(d.ledger, Entry(c, d.ledger))]
    <2>1. "INSERT ledger" \notin Key
      BY KeyAssumption DEF Words
    <2> QED  BY <1>4, <2>1, Zenon DEF Written
  <1>5. ASSUME Sql(c) = "INSERT marker"
        PROVE  Written(c, d) = [d EXCEPT !.marker = TRUE]
    <2>1. "INSERT marker" \notin Key
      BY KeyAssumption DEF Words
    <2> QED  BY <1>5, <2>1, Zenon DEF Written
  <1>6. ASSUME Sql(c) = "INSERT inits"
        PROVE  Written(c, d) = [d EXCEPT !.inits = TRUE]
    <2>1. "INSERT inits" \notin Key
      BY KeyAssumption DEF Words
    <2> QED  BY <1>6, <2>1, Zenon DEF Written
  <1>7. ASSUME Sql(c) = "DELETE rows"
        PROVE  Written(c, d) = [d EXCEPT !.rows = {}, !.left = [k \in Key |-> 0], !.unsealed = d.unsealed \cap {"counter"}]
    <2>1. "DELETE rows" \notin Key
      BY KeyAssumption DEF Words
    <2> QED  BY <1>7, <2>1, Zenon DEF Written
  <1>8. ASSUME Sql(c) = "INSERT nonce"
        PROVE  Written(c, d) = [d EXCEPT !.nonces = d.nonces \cup {call[c].arg}]
    <2>1. "INSERT nonce" \notin Key
      BY KeyAssumption DEF Words
    <2> QED  BY <1>8, <2>1, Zenon DEF Written
  <1>9. ASSUME Sql(c) = "UPDATE remaining"
        PROVE  Written(c, d) = [d EXCEPT !.left[call[c].arg] = d.left[call[c].arg] - 1, !.unsealed = d.unsealed \cup {call[c].arg}]
    <2>1. "UPDATE remaining" \notin Key
      BY KeyAssumption DEF Words
    <2> QED  BY <1>9, <2>1, Zenon DEF Written
  <1>10. ASSUME Sql(c) = "UPSERT counter"
        PROVE  Written(c, d) = [d EXCEPT !.count = d.count + 1, !.unsealed = d.unsealed \cup {"counter"}]
    <2>1. "UPSERT counter" \notin Key
      BY KeyAssumption DEF Words
    <2> QED  BY <1>10, <2>1, Zenon DEF Written
  <1>11. ASSUME Sql(c) = "UPDATE seal"
        PROVE  Written(c, d) = [d EXCEPT !.unsealed = d.unsealed \ {SealOf(c)}]
    <2>1. "UPDATE seal" \notin Key
      BY KeyAssumption DEF Words
    <2> QED  BY <1>11, <2>1, Zenon DEF Written
  <1>12. ASSUME Sql(c) \in Key
        PROVE  Written(c, d) = [d EXCEPT !.rows = d.rows \cup {Sql(c)}, !.left[Sql(c)] = Units]
    <2>1. \A x \in Words : Sql(c) # x
      BY <1>12, KeyAssumption
    <2>2. /\ Sql(c) # "INSERT restriction"
          /\ Sql(c) # "UPDATE status"
          /\ Sql(c) # "INSERT event"
          /\ Sql(c) # "INSERT ledger"
          /\ Sql(c) # "INSERT marker"
          /\ Sql(c) # "INSERT inits"
          /\ Sql(c) # "DELETE rows"
          /\ Sql(c) # "INSERT nonce"
          /\ Sql(c) # "UPDATE remaining"
          /\ Sql(c) # "UPSERT counter"
          /\ Sql(c) # "UPDATE seal"
      BY <2>1 DEF Words
    <2> QED  BY <1>12, <2>2, Zenon DEF Written
  <1> QED  BY <1>1, <1>2, <1>3, <1>4, <1>5, <1>6, <1>7, <1>8, <1>9, <1>10, <1>11, <1>12

LEMMA ChangedRow ==
    ASSUME NEW d \in Database, NEW r, NEW x, NEW u
    PROVE  /\ LET w == [d EXCEPT !.status[r] = x]
              IN  w.status = [d.status EXCEPT ![r] = x] /\ SameButStatus(w, d)
           /\ LET w == [d EXCEPT !.left[r] = x, !.unsealed = u]
              IN  /\ w.left = [d.left EXCEPT ![r] = x] /\ w.unsealed = u
                  /\ SameRestrictions(w, d) /\ SameAgent(w, d) /\ SameCounts(w, d)
           /\ LET w == [d EXCEPT !.rows = u, !.left[r] = x]
              IN  /\ w.rows = u /\ w.left = [d.left EXCEPT ![r] = x]
                  /\ w.marker = d.marker /\ w.inits = d.inits
                  /\ SameRestrictions(w, d) /\ SameCounts(w, d) /\ SameSeals(w, d)
           /\ LET w == [d EXCEPT !.rows = r, !.left = x, !.unsealed = u]
              IN  /\ w.rows = r /\ w.left = x /\ w.unsealed = u
                  /\ w.marker = d.marker /\ w.inits = d.inits
                  /\ SameRestrictions(w, d) /\ SameCounts(w, d)
  <1>1. DOMAIN d = {"status", "events", "ledger", "marker", "inits", "rows", "left", "count",
                    "nonces", "unsealed"}
    BY DEF Database
  <1>2. LET w == [d EXCEPT !.status[r] = x]
        IN  w.status = [d.status EXCEPT ![r] = x] /\ SameButStatus(w, d)
    BY <1>1 DEF SameButStatus, SameAgent, SameCounts, SameSeals
  <1>3. LET w == [d EXCEPT !.left[r] = x, !.unsealed = u]
        IN  /\ w.left = [d.left EXCEPT ![r] = x] /\ w.unsealed = u
            /\ SameRestrictions(w, d) /\ SameAgent(w, d) /\ SameCounts(w, d)
    BY <1>1 DEF SameRestrictions, SameAgent, SameCounts
  <1>4. LET w == [d EXCEPT !.rows = u, !.left[r] = x]
        IN  /\ w.rows = u /\ w.left = [d.left EXCEPT ![r] = x]
            /\ w.marker = d.marker /\ w.inits = d.inits
            /\ SameRestrictions(w, d) /\ SameCounts(w, d) /\ SameSeals(w, d)
    BY <1>1 DEF SameRestrictions, SameCounts, SameSeals
  <1>5. LET w == [d EXCEPT !.rows = r, !.left = x, !.unsealed = u]
        IN  /\ w.rows = r /\ w.left = x /\ w.unsealed = u
            /\ w.marker = d.marker /\ w.inits = d.inits
            /\ SameRestrictions(w, d) /\ SameCounts(w, d)
    BY <1>1 DEF SameRestrictions, SameCounts
  <1> QED  BY <1>2, <1>3, <1>4, <1>5

(* The field each statement is about, and what it leaves alone.            *)
LEMMA WrittenFields ==
    ASSUME NEW c \in Conn, Sql(c) \in Writes, NEW d \in Database
    PROVE  LET w == Written(c, d)
           IN  /\ (Sql(c) \notin {"INSERT restriction", "UPDATE status"} => w.status = d.status)
               /\ (Sql(c) # "INSERT event" => w.events = d.events)
               /\ (Sql(c) # "INSERT ledger" => w.ledger = d.ledger)
               /\ (Sql(c) # "INSERT marker" => w.marker = d.marker)
               /\ (Sql(c) # "INSERT inits" => w.inits = d.inits)
               /\ (Sql(c) # "DELETE rows" /\ Sql(c) \notin Key => w.rows = d.rows)
               /\ (Sql(c) \notin {"DELETE rows", "UPDATE remaining"} /\ Sql(c) \notin Key => w.left = d.left)
               /\ (Sql(c) # "UPSERT counter" => w.count = d.count)
               /\ (Sql(c) # "INSERT nonce" => w.nonces = d.nonces)
               /\ (Sql(c) \notin {"DELETE rows", "UPDATE remaining", "UPSERT counter", "UPDATE seal"} => w.unsealed = d.unsealed)
               /\ (Sql(c) = "INSERT restriction" =>
                      /\ w.status = [d.status EXCEPT ![call[c].arg] = "ACTIVE"])
               /\ (Sql(c) = "UPDATE status" =>
                      /\ w.status = [d.status EXCEPT ![call[c].arg] = NewStatus(call[c].op)])
               /\ (Sql(c) = "INSERT event" =>
                      /\ w.events = d.events \cup {<<call[c].arg, Event(call[c].op)>>})
               /\ (Sql(c) = "INSERT ledger" =>
                      /\ w.ledger = Append(d.ledger, Entry(c, d.ledger)))
               /\ (Sql(c) = "INSERT marker" =>
                      /\ w.marker = TRUE)
               /\ (Sql(c) = "INSERT inits" =>
                      /\ w.inits = TRUE)
               /\ (Sql(c) = "DELETE rows" =>
                      /\ w.rows = {}
                      /\ w.left = [k \in Key |-> 0]
                      /\ w.unsealed = d.unsealed \cap {"counter"})
               /\ (Sql(c) = "INSERT nonce" =>
                      /\ w.nonces = d.nonces \cup {call[c].arg})
               /\ (Sql(c) = "UPDATE remaining" =>
                      /\ w.left = [d.left EXCEPT ![call[c].arg] = d.left[call[c].arg] - 1]
                      /\ w.unsealed = d.unsealed \cup {call[c].arg})
               /\ (Sql(c) = "UPSERT counter" =>
                      /\ w.count = d.count + 1
                      /\ w.unsealed = d.unsealed \cup {"counter"})
               /\ (Sql(c) = "UPDATE seal" =>
                      /\ w.unsealed = d.unsealed \ {SealOf(c)})
               /\ (Sql(c) \in Key =>
                      /\ w.rows = d.rows \cup {Sql(c)}
                      /\ w.left = [d.left EXCEPT ![Sql(c)] = Units])
  <1>1. CASE Sql(c) = "INSERT restriction"
    <2> DEFINE w == Written(c, d)
    <2>1. w = [d EXCEPT !.status[call[c].arg] = "ACTIVE"]
      BY <1>1, WrittenIs
    <2>2. /\ w.status = [d.status EXCEPT ![call[c].arg] = "ACTIVE"]
          /\ w.events = d.events /\ w.ledger = d.ledger /\ w.marker = d.marker /\ w.inits = d.inits /\ w.rows = d.rows /\ w.left = d.left /\ w.count = d.count /\ w.nonces = d.nonces /\ w.unsealed = d.unsealed
      BY <2>1, ChangedRow DEF SameButStatus, SameButLedger, SameRestrictions, SameAgent, SameCounts, SameSeals
    <2> HIDE DEF w
    <2>3. "INSERT restriction" \notin Key
      BY KeyAssumption DEF Words
    <2> QED  BY <1>1, <2>2, <2>3 DEF w
  <1>2. CASE Sql(c) = "UPDATE status"
    <2> DEFINE w == Written(c, d)
    <2>1. w = [d EXCEPT !.status[call[c].arg] = NewStatus(call[c].op)]
      BY <1>2, WrittenIs
    <2>2. /\ w.status = [d.status EXCEPT ![call[c].arg] = NewStatus(call[c].op)]
          /\ w.events = d.events /\ w.ledger = d.ledger /\ w.marker = d.marker /\ w.inits = d.inits /\ w.rows = d.rows /\ w.left = d.left /\ w.count = d.count /\ w.nonces = d.nonces /\ w.unsealed = d.unsealed
      BY <2>1, ChangedRow DEF SameButStatus, SameButLedger, SameRestrictions, SameAgent, SameCounts, SameSeals
    <2> HIDE DEF w
    <2>3. "UPDATE status" \notin Key
      BY KeyAssumption DEF Words
    <2> QED  BY <1>2, <2>2, <2>3 DEF w
  <1>3. CASE Sql(c) = "INSERT event"
    <2> DEFINE w == Written(c, d)
    <2>1. w = [d EXCEPT !.events = d.events \cup {<<call[c].arg, Event(call[c].op)>>}]
      BY <1>3, WrittenIs
    <2>2. /\ w.events = d.events \cup {<<call[c].arg, Event(call[c].op)>>}
          /\ w.status = d.status /\ w.ledger = d.ledger /\ w.marker = d.marker /\ w.inits = d.inits /\ w.rows = d.rows /\ w.left = d.left /\ w.count = d.count /\ w.nonces = d.nonces /\ w.unsealed = d.unsealed
      BY <2>1, ChangedFields DEF SameButStatus, SameButLedger, SameRestrictions, SameAgent, SameCounts, SameSeals
    <2> HIDE DEF w
    <2>3. "INSERT event" \notin Key
      BY KeyAssumption DEF Words
    <2> QED  BY <1>3, <2>2, <2>3 DEF w
  <1>4. CASE Sql(c) = "INSERT ledger"
    <2> DEFINE w == Written(c, d)
    <2>1. w = [d EXCEPT !.ledger = Append(d.ledger, Entry(c, d.ledger))]
      BY <1>4, WrittenIs
    <2>2. /\ w.ledger = Append(d.ledger, Entry(c, d.ledger))
          /\ w.status = d.status /\ w.events = d.events /\ w.marker = d.marker /\ w.inits = d.inits /\ w.rows = d.rows /\ w.left = d.left /\ w.count = d.count /\ w.nonces = d.nonces /\ w.unsealed = d.unsealed
      BY <2>1, ChangedFields DEF SameButStatus, SameButLedger, SameRestrictions, SameAgent, SameCounts, SameSeals
    <2> HIDE DEF w
    <2>3. "INSERT ledger" \notin Key
      BY KeyAssumption DEF Words
    <2> QED  BY <1>4, <2>2, <2>3 DEF w
  <1>5. CASE Sql(c) = "INSERT marker"
    <2> DEFINE w == Written(c, d)
    <2>1. w = [d EXCEPT !.marker = TRUE]
      BY <1>5, WrittenIs
    <2>2. /\ w.marker = TRUE
          /\ w.status = d.status /\ w.events = d.events /\ w.ledger = d.ledger /\ w.inits = d.inits /\ w.rows = d.rows /\ w.left = d.left /\ w.count = d.count /\ w.nonces = d.nonces /\ w.unsealed = d.unsealed
      BY <2>1, ChangedFields DEF SameButStatus, SameButLedger, SameRestrictions, SameAgent, SameCounts, SameSeals
    <2> HIDE DEF w
    <2>3. "INSERT marker" \notin Key
      BY KeyAssumption DEF Words
    <2> QED  BY <1>5, <2>2, <2>3 DEF w
  <1>6. CASE Sql(c) = "INSERT inits"
    <2> DEFINE w == Written(c, d)
    <2>1. w = [d EXCEPT !.inits = TRUE]
      BY <1>6, WrittenIs
    <2>2. /\ w.inits = TRUE
          /\ w.status = d.status /\ w.events = d.events /\ w.ledger = d.ledger /\ w.marker = d.marker /\ w.rows = d.rows /\ w.left = d.left /\ w.count = d.count /\ w.nonces = d.nonces /\ w.unsealed = d.unsealed
      BY <2>1, ChangedFields DEF SameButStatus, SameButLedger, SameRestrictions, SameAgent, SameCounts, SameSeals
    <2> HIDE DEF w
    <2>3. "INSERT inits" \notin Key
      BY KeyAssumption DEF Words
    <2> QED  BY <1>6, <2>2, <2>3 DEF w
  <1>7. CASE Sql(c) = "DELETE rows"
    <2> DEFINE w == Written(c, d)
    <2>1. w = [d EXCEPT !.rows = {}, !.left = [k \in Key |-> 0], !.unsealed = d.unsealed \cap {"counter"}]
      BY <1>7, WrittenIs
    <2>2. /\ w.rows = {}
          /\ w.left = [k \in Key |-> 0]
          /\ w.unsealed = d.unsealed \cap {"counter"}
          /\ w.status = d.status /\ w.events = d.events /\ w.ledger = d.ledger /\ w.marker = d.marker /\ w.inits = d.inits /\ w.count = d.count /\ w.nonces = d.nonces
      BY <2>1, ChangedRow DEF SameButStatus, SameButLedger, SameRestrictions, SameAgent, SameCounts, SameSeals
    <2> HIDE DEF w
    <2>3. "DELETE rows" \notin Key
      BY KeyAssumption DEF Words
    <2> QED  BY <1>7, <2>2, <2>3 DEF w
  <1>8. CASE Sql(c) = "INSERT nonce"
    <2> DEFINE w == Written(c, d)
    <2>1. w = [d EXCEPT !.nonces = d.nonces \cup {call[c].arg}]
      BY <1>8, WrittenIs
    <2>2. /\ w.nonces = d.nonces \cup {call[c].arg}
          /\ w.status = d.status /\ w.events = d.events /\ w.ledger = d.ledger /\ w.marker = d.marker /\ w.inits = d.inits /\ w.rows = d.rows /\ w.left = d.left /\ w.count = d.count /\ w.unsealed = d.unsealed
      BY <2>1, ChangedFields DEF SameButStatus, SameButLedger, SameRestrictions, SameAgent, SameCounts, SameSeals
    <2> HIDE DEF w
    <2>3. "INSERT nonce" \notin Key
      BY KeyAssumption DEF Words
    <2> QED  BY <1>8, <2>2, <2>3 DEF w
  <1>9. CASE Sql(c) = "UPDATE remaining"
    <2> DEFINE w == Written(c, d)
    <2>1. w = [d EXCEPT !.left[call[c].arg] = d.left[call[c].arg] - 1, !.unsealed = d.unsealed \cup {call[c].arg}]
      BY <1>9, WrittenIs
    <2>2. /\ w.left = [d.left EXCEPT ![call[c].arg] = d.left[call[c].arg] - 1]
          /\ w.unsealed = d.unsealed \cup {call[c].arg}
          /\ w.status = d.status /\ w.events = d.events /\ w.ledger = d.ledger /\ w.marker = d.marker /\ w.inits = d.inits /\ w.rows = d.rows /\ w.count = d.count /\ w.nonces = d.nonces
      BY <2>1, ChangedRow DEF SameButStatus, SameButLedger, SameRestrictions, SameAgent, SameCounts, SameSeals
    <2> HIDE DEF w
    <2>3. "UPDATE remaining" \notin Key
      BY KeyAssumption DEF Words
    <2> QED  BY <1>9, <2>2, <2>3 DEF w
  <1>10. CASE Sql(c) = "UPSERT counter"
    <2> DEFINE w == Written(c, d)
    <2>1. w = [d EXCEPT !.count = d.count + 1, !.unsealed = d.unsealed \cup {"counter"}]
      BY <1>10, WrittenIs
    <2>2. /\ w.count = d.count + 1
          /\ w.unsealed = d.unsealed \cup {"counter"}
          /\ w.status = d.status /\ w.events = d.events /\ w.ledger = d.ledger /\ w.marker = d.marker /\ w.inits = d.inits /\ w.rows = d.rows /\ w.left = d.left /\ w.nonces = d.nonces
      BY <2>1, ChangedFields DEF SameButStatus, SameButLedger, SameRestrictions, SameAgent, SameCounts, SameSeals
    <2> HIDE DEF w
    <2>3. "UPSERT counter" \notin Key
      BY KeyAssumption DEF Words
    <2> QED  BY <1>10, <2>2, <2>3 DEF w
  <1>11. CASE Sql(c) = "UPDATE seal"
    <2> DEFINE w == Written(c, d)
    <2>1. w = [d EXCEPT !.unsealed = d.unsealed \ {SealOf(c)}]
      BY <1>11, WrittenIs
    <2>2. /\ w.unsealed = d.unsealed \ {SealOf(c)}
          /\ w.status = d.status /\ w.events = d.events /\ w.ledger = d.ledger /\ w.marker = d.marker /\ w.inits = d.inits /\ w.rows = d.rows /\ w.left = d.left /\ w.count = d.count /\ w.nonces = d.nonces
      BY <2>1, ChangedFields DEF SameButStatus, SameButLedger, SameRestrictions, SameAgent, SameCounts, SameSeals
    <2> HIDE DEF w
    <2>3. "UPDATE seal" \notin Key
      BY KeyAssumption DEF Words
    <2> QED  BY <1>11, <2>2, <2>3 DEF w
  <1>12. CASE Sql(c) \in Key
    <2> DEFINE w == Written(c, d)
    <2>1. w = [d EXCEPT !.rows = d.rows \cup {Sql(c)}, !.left[Sql(c)] = Units]
      BY <1>12, WrittenIs
    <2>2. /\ w.rows = d.rows \cup {Sql(c)}
          /\ w.left = [d.left EXCEPT ![Sql(c)] = Units]
          /\ w.status = d.status /\ w.events = d.events /\ w.ledger = d.ledger /\ w.marker = d.marker /\ w.inits = d.inits /\ w.count = d.count /\ w.nonces = d.nonces /\ w.unsealed = d.unsealed
      BY <2>1, ChangedRow DEF SameButStatus, SameButLedger, SameRestrictions, SameAgent, SameCounts, SameSeals
    <2> HIDE DEF w
    <2>3. /\ Sql(c) # "INSERT restriction"
          /\ Sql(c) # "UPDATE status"
          /\ Sql(c) # "INSERT event"
          /\ Sql(c) # "INSERT ledger"
          /\ Sql(c) # "INSERT marker"
          /\ Sql(c) # "INSERT inits"
          /\ Sql(c) # "DELETE rows"
          /\ Sql(c) # "INSERT nonce"
          /\ Sql(c) # "UPDATE remaining"
          /\ Sql(c) # "UPSERT counter"
          /\ Sql(c) # "UPDATE seal"
      BY <1>12, KeyAssumption DEF Words
    <2> QED  BY <1>12, <2>2, <2>3 DEF w
  <1> QED  BY <1>1, <1>2, <1>3, <1>4, <1>5, <1>6, <1>7, <1>8, <1>9, <1>10, <1>11, <1>12 DEF Writes

Sealable == SUBSET (Key \cup {"counter"})

LEMMA Retyped ==
    ASSUME NEW d \in Database
    PROVE  /\ \A r \in Rid, x \in Status : [d EXCEPT !.status[r] = x] \in Database
           /\ \A x \in SUBSET Mention : [d EXCEPT !.events = x] \in Database
           /\ \A x \in Seq(Note) : [d EXCEPT !.ledger = x] \in Database
           /\ [d EXCEPT !.marker = TRUE] \in Database /\ [d EXCEPT !.inits = TRUE] \in Database
           /\ \A x \in SUBSET Nonce : [d EXCEPT !.nonces = x] \in Database
           /\ \A u \in Sealable : [d EXCEPT !.unsealed = u] \in Database
           /\ \A n \in Nat, u \in Sealable : [d EXCEPT !.count = n, !.unsealed = u] \in Database
           /\ \A k \in Key, n \in Int, u \in Sealable : [d EXCEPT !.left[k] = n, !.unsealed = u] \in Database
           /\ \A k \in Key, n \in Int, r \in SUBSET Key : [d EXCEPT !.rows = r, !.left[k] = n] \in Database
           /\ \A l \in [Key -> Int], u \in Sealable :
               [d EXCEPT !.rows = {}, !.left = l, !.unsealed = u] \in Database
  <1>1. \A r \in Rid, x \in Status : [d EXCEPT !.status[r] = x] \in Database
    BY DEF Database, Sealable
  <1>2. \A x \in SUBSET Mention : [d EXCEPT !.events = x] \in Database
    BY DEF Database, Sealable
  <1>3. \A x \in Seq(Note) : [d EXCEPT !.ledger = x] \in Database
    BY DEF Database, Sealable
  <1>4. [d EXCEPT !.marker = TRUE] \in Database /\ [d EXCEPT !.inits = TRUE] \in Database
    BY DEF Database, Sealable
  <1>5. \A x \in SUBSET Nonce : [d EXCEPT !.nonces = x] \in Database
    BY DEF Database, Sealable
  <1>6. \A u \in Sealable : [d EXCEPT !.unsealed = u] \in Database
    BY DEF Database, Sealable
  <1>7. \A n \in Nat, u \in Sealable : [d EXCEPT !.count = n, !.unsealed = u] \in Database
    BY DEF Database, Sealable
  <1>8. \A k \in Key, n \in Int, u \in Sealable : [d EXCEPT !.left[k] = n, !.unsealed = u] \in Database
    BY DEF Database, Sealable
  <1>9. \A k \in Key, n \in Int, r \in SUBSET Key : [d EXCEPT !.rows = r, !.left[k] = n] \in Database
    BY DEF Database, Sealable
  <1>10. \A l \in [Key -> Int], u \in Sealable :
               [d EXCEPT !.rows = {}, !.left = l, !.unsealed = u] \in Database
    BY DEF Database, Sealable
  <1> QED  BY <1>1, <1>2, <1>3, <1>4, <1>5, <1>6, <1>7, <1>8, <1>9, <1>10

LEMMA WrittenType ==
    ASSUME NEW c \in Conn, Underway(c), Sql(c) \in Writes, NEW d \in Database
    PROVE  Written(c, d) \in Database
  <1> DEFINE a == call[c].arg
  <1>0. /\ d.status \in [Rid -> Status] /\ d.events \in SUBSET Mention /\ d.ledger \in Seq(Note)
        /\ d.rows \in SUBSET Key /\ d.left \in [Key -> Int] /\ d.count \in Nat
        /\ d.nonces \in SUBSET Nonce /\ d.unsealed \in Sealable
    BY DEF Database, Sealable
  <1>1. CASE Sql(c) = "INSERT restriction"
    <2> DEFINE x == "ACTIVE"
    <2>1. a \in Rid
      BY <1>1, Meaning, SomeCall DEF Underway
    <2>2. a \in Rid /\ x \in Status
      BY <2>1 DEF Status
    <2>3. Written(c, d) = [d EXCEPT !.status[a] = x]
      BY <1>1, WrittenIs
    <2> HIDE DEF x
    <2>4. [d EXCEPT !.status[a] = x] \in Database
      BY <2>2, Retyped
    <2> QED  BY <2>3, <2>4, Zenon
  <1>2. CASE Sql(c) = "UPDATE status"
    <2> DEFINE x == NewStatus(call[c].op)
    <2>1. a \in Rid
      BY <1>2, Meaning, SomeCall DEF Underway
    <2>2. a \in Rid /\ x \in Status
      BY <2>1 DEF Status, NewStatus
    <2>3. Written(c, d) = [d EXCEPT !.status[a] = x]
      BY <1>2, WrittenIs
    <2> HIDE DEF x
    <2>4. [d EXCEPT !.status[a] = x] \in Database
      BY <2>2, Retyped
    <2> QED  BY <2>3, <2>4, Zenon
  <1>3. CASE Sql(c) = "INSERT event"
    <2> DEFINE x == d.events \cup {<<a, Event(call[c].op)>>}
    <2>1. a \in Rid
      BY <1>3, Meaning, SomeCall DEF Underway
    <2>2. <<a, Event(call[c].op)>> \in Mention
      BY <2>1 DEF Mention, Event, NewStatus
    <2>3. x \in SUBSET Mention
      BY <1>0, <2>2
    <2>4. Written(c, d) = [d EXCEPT !.events = x]
      BY <1>3, WrittenIs
    <2> HIDE DEF x
    <2>5. [d EXCEPT !.events = x] \in Database
      BY <2>3, Retyped
    <2> QED  BY <2>4, <2>5, Zenon
  <1>4. CASE Sql(c) = "INSERT ledger"
    <2> DEFINE x == Append(d.ledger, Entry(c, d.ledger))
    <2>1. a \in Rid
      BY <1>4, Meaning, SomeCall DEF Underway
    <2>2. d.ledger \in Seq(Note) /\ Len(d.ledger) \in Nat
      BY <1>0, LenProperties
    <2>3. Entry(c, d.ledger) \in Note
      BY <2>1, <2>2 DEF Entry, Note, Event, NewStatus
    <2>4. x \in Seq(Note)
      BY <2>2, <2>3, AppendProperties
    <2>5. Written(c, d) = [d EXCEPT !.ledger = x]
      BY <1>4, WrittenIs
    <2> HIDE DEF x
    <2>6. [d EXCEPT !.ledger = x] \in Database
      BY <2>4, Retyped
    <2> QED  BY <2>5, <2>6, Zenon
  <1>5. CASE Sql(c) = "INSERT marker"
    <2>1. Written(c, d) = [d EXCEPT !.marker = TRUE]
      BY <1>5, WrittenIs
    <2>2. [d EXCEPT !.marker = TRUE] \in Database
      BY Retyped
    <2> QED  BY <2>1, <2>2, Zenon
  <1>6. CASE Sql(c) = "INSERT inits"
    <2>1. Written(c, d) = [d EXCEPT !.inits = TRUE]
      BY <1>6, WrittenIs
    <2>2. [d EXCEPT !.inits = TRUE] \in Database
      BY Retyped
    <2> QED  BY <2>1, <2>2, Zenon
  <1>7. CASE Sql(c) = "DELETE rows"
    <2> DEFINE l == [k \in Key |-> 0]
               u == d.unsealed \cap {"counter"}
    <2>1. l \in [Key -> Int] /\ u \in Sealable
      BY <1>0 DEF Sealable
    <2>2. Written(c, d) = [d EXCEPT !.rows = {}, !.left = l, !.unsealed = u]
      BY <1>7, WrittenIs
    <2> HIDE DEF l, u
    <2>3. [d EXCEPT !.rows = {}, !.left = l, !.unsealed = u] \in Database
      BY <2>1, Retyped
    <2> QED  BY <2>2, <2>3, Zenon
  <1>8. CASE Sql(c) = "INSERT nonce"
    <2> DEFINE x == d.nonces \cup {a}
    <2>1. a \in Nonce
      BY <1>8, Meaning, SomeCall DEF Underway
    <2>2. x \in SUBSET Nonce
      BY <1>0, <2>1
    <2>3. Written(c, d) = [d EXCEPT !.nonces = x]
      BY <1>8, WrittenIs
    <2> HIDE DEF x
    <2>4. [d EXCEPT !.nonces = x] \in Database
      BY <2>2, Retyped
    <2> QED  BY <2>3, <2>4, Zenon
  <1>9. CASE Sql(c) = "UPDATE remaining"
    <2> DEFINE n == d.left[a] - 1
               u == d.unsealed \cup {a}
    <2>1. a \in Key
      BY <1>9, Meaning, SomeCall DEF Underway
    <2>2. a \in Key /\ n \in Int /\ u \in Sealable
      BY <1>0, <2>1 DEF Sealable
    <2>3. Written(c, d) = [d EXCEPT !.left[a] = n, !.unsealed = u]
      BY <1>9, WrittenIs
    <2> HIDE DEF n, u
    <2>4. [d EXCEPT !.left[a] = n, !.unsealed = u] \in Database
      BY <2>2, Retyped
    <2> QED  BY <2>3, <2>4, Zenon
  <1>10. CASE Sql(c) = "UPSERT counter"
    <2> DEFINE n == d.count + 1
               u == d.unsealed \cup {"counter"}
    <2>1. n \in Nat /\ u \in Sealable
      BY <1>0 DEF Sealable
    <2>2. Written(c, d) = [d EXCEPT !.count = n, !.unsealed = u]
      BY <1>10, WrittenIs
    <2> HIDE DEF n, u
    <2>3. [d EXCEPT !.count = n, !.unsealed = u] \in Database
      BY <2>1, Retyped
    <2> QED  BY <2>2, <2>3, Zenon
  <1>11. CASE Sql(c) = "UPDATE seal"
    <2> DEFINE u == d.unsealed \ {SealOf(c)}
    <2>1. u \in Sealable
      BY <1>0 DEF Sealable
    <2>2. Written(c, d) = [d EXCEPT !.unsealed = u]
      BY <1>11, WrittenIs
    <2> HIDE DEF u
    <2>3. [d EXCEPT !.unsealed = u] \in Database
      BY <2>1, Retyped
    <2> QED  BY <2>2, <2>3, Zenon
  <1>12. CASE Sql(c) \in Key
    <2> DEFINE r == d.rows \cup {Sql(c)}
    <2>1. Sql(c) \in Key /\ Units \in Int /\ r \in SUBSET Key
      BY <1>0, <1>12, KeyAssumption
    <2>2. Written(c, d) = [d EXCEPT !.rows = r, !.left[Sql(c)] = Units]
      BY <1>12, WrittenIs
    <2> HIDE DEF r
    <2>3. [d EXCEPT !.rows = r, !.left[Sql(c)] = Units] \in Database
      BY <2>1, Retyped
    <2> QED  BY <2>2, <2>3, Zenon
  <1> QED  BY <1>1, <1>2, <1>3, <1>4, <1>5, <1>6, <1>7, <1>8, <1>9, <1>10, <1>11, <1>12 DEF Writes

(* What an action of a connection comes to, for what is committed, what    *)
(* each connection sees, and how far its call is.                          *)
Apart(c) == \A d \in Conn \ {c} : call'[d] = call[d]
SameView(c) == \A d \in Conn \ {c} : Seen(d)' = Seen(d)
SameCall(c) == call'[c].op = call[c].op /\ call'[c].arg = call[c].arg

Begins(c) ==
    /\ call[c] = NoCall /\ Underway(c)' /\ Done(c)' = 0
    /\ db' = db /\ Apart(c) /\ SameView(c) /\ Seen(c)' = Seen(c) /\ partial' = partial
Wrote(c) ==
    /\ Sql(c) \in Writes /\ ~ Refused(c) /\ Underway(c) /\ Underway(c)' /\ Done(c)' = Done(c) + 1
    /\ SameCall(c) /\ Seen(c)' = Written(c, Seen(c))
    /\ db' = db /\ Apart(c) /\ SameView(c) /\ partial' = partial
Skipped(c) ==
    /\ Skipping(c) /\ Refused(c) /\ Underway(c) /\ Underway(c)' /\ Done(c) = 0
    /\ Done(c)' = IF Sql(c) = "UPDATE status" THEN 3 ELSE 2
    /\ SameCall(c) /\ Seen(c)' = Seen(c)
    /\ db' = db /\ Apart(c) /\ SameView(c) /\ partial' = partial
Looked(c) ==
    /\ Sql(c) \in {"SELECT active", "SELECT marker", "SELECT counter"}
    /\ Underway(c) /\ Underway(c)'
    /\ Done(c) = 0 /\ Done(c)' = 1
    /\ SameCall(c) /\ Seen(c)' = Seen(c)
    /\ Sql(c) # "SELECT counter" =>
           call'[c].saw = IF Sql(c) = "SELECT active"
                          THEN {r \in Rid : Seen(c).status[r] = "ACTIVE"}
                          ELSE {m \in {"marker"} : Seen(c).marker}
    /\ db' = db /\ Apart(c) /\ SameView(c) /\ partial' = partial
Undone(c) == Seen(c)' = db /\ partial' = partial
LeftOpen(c) ==
    /\ Seen(c)' = Seen(c) /\ Underway(c) /\ call[c].op # "impose"
    /\ \/ partial'
       \/ partial' = partial /\ Sql(c) \in {"COMMIT", "UPSERT counter"}
       \/ partial' = partial /\ call[c].op \notin WriteOp
       \/ partial' = partial /\ Done(c) = 0
       \/ partial' = partial /\ tx[c].mode # "writing"
Ended(c) ==
    /\ Undone(c) \/ LeftOpen(c)
    /\ call'[c] = NoCall /\ db' = db /\ Apart(c) /\ SameView(c)
Put(c) ==
    /\ Sql(c) = "COMMIT" /\ Underway(c) /\ call'[c] = NoCall
    /\ db' = IF tx[c].mode = "writing" THEN Seen(c) ELSE db
    /\ Seen(c)' = db' /\ Apart(c) /\ partial' = partial
    /\ \A d \in Conn \ {c} : Seen(d)' = IF HasView(d) THEN Seen(d) ELSE db'

LEMMA SeenType ==
    ASSUME TxTypes, NEW c \in Conn
    PROVE  Seen(c) \in Database
  BY DEF TxTypes, Seen, HasView

LEMMA NoStatement ==
    ASSUME NEW c \in Conn, call[c] = NoCall
    PROVE  Sql(c) = "none" /\ call[c].op = "none" /\ call[c].arg = "none" /\ call[c].op \notin WriteOp
  BY DEF NoCall, Sql, WriteOp

LEMMA Idle ==
    ASSUME NEW c \in Conn, Sql(c) \in Writes \cup {"COMMIT", "SELECT active", "SELECT marker",
                                                   "SELECT latest", "SELECT inits",
                                                   "SELECT rows", "SELECT counter"}
    PROVE  call[c] # NoCall
  <1>1. "none" \notin Key
    BY KeyAssumption DEF Words
  <1>2. Sql(c) # "none"
    BY <1>1 DEF Writes
  <1> QED  BY <1>2, NoStatement

LEMMA OthersUnderway ==
    ASSUME CallsOK, NEW c \in Conn, Apart(c), call'[c] = NoCall \/ Underway(c)'
    PROVE  CallsOK'
  <1>1. ASSUME NEW d \in Conn, d # c
        PROVE  call'[d] = NoCall \/ Underway(d)'
    <2>1. call'[d] = call[d]
      BY <1>1 DEF Apart
    <2> QED  BY <1>1, <2>1 DEF CallsOK, Underway, Whole, Done
  <1> QED  BY <1>1 DEF CallsOK

(* The types of what a step leaves.                                        *)
Fields(t) == t \in [mode : Modes, view : Database \cup {"db"}, stale : BOOLEAN]
Whose(t) == t.mode \in {"reading", "writing"} => t.view \in Database
Four(r) == r = [op |-> r.op, arg |-> r.arg, todo |-> r.todo, saw |-> r.saw]

LEMMA WritingFields ==
    ASSUME NEW c, NEW d \in Database
    PROVE  Fields(Writing(c, d)) /\ Whose(Writing(c, d))
           /\ Writing(c, d).mode = "writing" /\ Writing(c, d).view = d /\ Writing(c, d).stale = FALSE
  BY DEF Fields, Whose, Writing, Modes

LEMMA NoTxFields == Fields(NoTx) /\ Whose(NoTx) /\ NoTx.mode = "none" /\ NoTx.stale = FALSE
  BY DEF Fields, Whose, NoTx, Modes

LEMMA FieldsOf ==
    ASSUME TxTypes, NEW c \in Conn
    PROVE  Fields(tx[c]) /\ Whose(tx[c]) /\ Four(call[c])
  BY DEF TxTypes, Fields, Whose, Four, HasView

LEMMA NoCallFour == Four(NoCall)
  BY DEF Four, NoCall

LEMMA Typed ==
    ASSUME TxTypes, NEW c \in Conn, db' \in Database,
           DOMAIN tx' = Conn, tx' = [d \in Conn |-> tx'[d]],
           \A d \in Conn : Fields(tx'[d]) /\ Whose(tx'[d]),
           DOMAIN call' = Conn, Apart(c), Four(call'[c]),
           alarm' \in [Conn -> BOOLEAN], owed' \in [Conn -> BOOLEAN],
           mixed' \in [Conn -> BOOLEAN], partial' \in BOOLEAN
    PROVE  TxTypes'
  <1>1. tx' \in [Conn -> [mode : Modes, view : Database \cup {"db"}, stale : BOOLEAN]]
    BY DEF Fields
  <1>2. \A d \in Conn : HasView(d)' => tx'[d].view \in Database
    BY DEF Whose, HasView
  <1>3. \A d \in Conn : Four(call'[d])
    BY FieldsOf DEF Apart
  <1> QED  BY <1>1, <1>2, <1>3 DEF TxTypes, Four

LEMMA WrittenView ==
    ASSUME NEW c \in Conn, NEW d, tx'[c] = Writing(c, d)
    PROVE  Seen(c)' = d
  BY DEF Seen, Writing

(* One lemma for each action: what it leaves is of its type, and which     *)
(* outcome it has.                                                         *)
LEMMA CallStep ==
    ASSUME TxTypes, CallsOK, NEW c \in Conn, NEW k \in Calls, Call(c, k[1], k[2])
    PROVE  TxTypes' /\ CallsOK' /\ Begins(c)
  <1>1. /\ Underway(c)' /\ Done(c)' = 0 /\ call[c] = NoCall /\ Apart(c)
        /\ Four(call'[c]) /\ DOMAIN call' = Conn
    BY Starts DEF Apart, Four
  <1>2. /\ db' = db /\ tx' = tx /\ owed' = owed /\ partial' = partial
        /\ alarm' = [alarm EXCEPT ![c] = FALSE] /\ mixed' = [mixed EXCEPT ![c] = FALSE]
    BY DEF Call
  <1>3. \A d \in Conn : Seen(d)' = Seen(d)
    BY <1>2 DEF Seen
  <1>4. TxTypes'
    <2>1. /\ db' \in Database /\ owed' \in [Conn -> BOOLEAN] /\ partial' \in BOOLEAN
          /\ alarm' \in [Conn -> BOOLEAN] /\ mixed' \in [Conn -> BOOLEAN]
          /\ DOMAIN tx' = Conn /\ tx' = [d \in Conn |-> tx'[d]]
      BY <1>2 DEF TxTypes
    <2>2. \A d \in Conn : Fields(tx'[d]) /\ Whose(tx'[d])
      BY <1>2, FieldsOf
    <2> QED  BY <1>1, <2>1, <2>2, Typed
  <1> QED  BY <1>1, <1>2, <1>3, <1>4, OthersUnderway DEF Begins, SameView

LEMMA WriteStep ==
    ASSUME TxTypes, CallsOK, NEW c \in Conn, Write(c)
    PROVE  TxTypes' /\ CallsOK' /\ Wrote(c)
  <1>1. /\ Sql(c) \in Writes /\ ~ Refused(c)
        /\ tx' = [tx EXCEPT ![c] = Writing(c, Written(c, Seen(c)))]
        /\ call' = [call EXCEPT ![c].todo = Tail(@)]
        /\ db' = db /\ alarm' = alarm /\ owed' = owed /\ mixed' = mixed /\ partial' = partial
    BY DEF Write, Advance
  <1>2. Underway(c)
    BY <1>1, Idle DEF CallsOK
  <1>3. /\ call'[c] = [call[c] EXCEPT !.todo = Tail(call[c].todo)] /\ Apart(c)
        /\ DOMAIN call' = Conn
    BY <1>1 DEF TxTypes, Apart
  <1>4. call'[c].op = call[c].op /\ call'[c].arg = call[c].arg
        /\ call'[c].todo = Tail(call[c].todo) /\ Four(call'[c])
    BY <1>3, FieldsOf DEF Four
  <1>5. Underway(c)' /\ Done(c)' = Done(c) + 1
    <2>1. Sql(c) \in Onward
      BY <1>1 DEF Onward
    <2> QED  BY <1>2, <1>4, <2>1, Advances
  <1>6. Written(c, Seen(c)) \in Database
    BY <1>1, <1>2, SeenType, WrittenType
  <1>7. /\ tx'[c] = Writing(c, Written(c, Seen(c))) /\ DOMAIN tx' = Conn
        /\ tx' = [d \in Conn |-> tx'[d]] /\ \A d \in Conn \ {c} : tx'[d] = tx[d]
    BY <1>1 DEF TxTypes
  <1>8. Seen(c)' = Written(c, Seen(c)) /\ SameView(c)
    <2>1. Seen(c)' = Written(c, Seen(c))
      BY <1>7, WrittenView
    <2>2. SameView(c)
      BY <1>1, <1>7 DEF Seen, SameView
    <2> QED  BY <2>1, <2>2
  <1>9. TxTypes'
    <2>1. /\ db' \in Database /\ owed' \in [Conn -> BOOLEAN] /\ partial' \in BOOLEAN
          /\ alarm' \in [Conn -> BOOLEAN] /\ mixed' \in [Conn -> BOOLEAN]
      BY <1>1 DEF TxTypes
    <2>2. \A d \in Conn : Fields(tx'[d]) /\ Whose(tx'[d])
      <3>1. Fields(tx'[c]) /\ Whose(tx'[c])
        BY <1>6, <1>7, WritingFields
      <3>2. \A d \in Conn \ {c} : Fields(tx'[d]) /\ Whose(tx'[d])
        BY <1>7, FieldsOf
      <3> QED  BY <3>1, <3>2
    <2> QED  BY <1>3, <1>4, <1>7, <2>1, <2>2, Typed
  <1> QED  BY <1>1, <1>2, <1>3, <1>4, <1>5, <1>8, <1>9, OthersUnderway DEF Wrote, SameCall

LEMMA GivenUp ==
    ASSUME TxTypes, CallsOK, NEW c \in Conn, RolledBack(c), Returns(c),
           db' = db, alarm' = alarm, mixed' = mixed, partial' = partial
    PROVE  TxTypes' /\ CallsOK' /\ Ended(c)
  <1>1. /\ tx' = [tx EXCEPT ![c] = NoTx] /\ owed' = [owed EXCEPT ![c] = FALSE]
        /\ call' = [call EXCEPT ![c] = NoCall]
    BY DEF RolledBack, Returns
  <1>2. call'[c] = NoCall /\ Apart(c) /\ DOMAIN call' = Conn /\ Four(call'[c])
    BY <1>1, NoCallFour DEF TxTypes, Apart
  <1>3. /\ tx'[c] = NoTx /\ DOMAIN tx' = Conn /\ tx' = [d \in Conn |-> tx'[d]]
        /\ \A d \in Conn \ {c} : tx'[d] = tx[d]
    BY <1>1 DEF TxTypes
  <1>4. Seen(c)' = db
    BY <1>3, NoTxFields DEF Seen
  <1>5. SameView(c)
    BY <1>3 DEF Seen, SameView
  <1>6. TxTypes'
    <2>1. /\ db' \in Database /\ owed' \in [Conn -> BOOLEAN] /\ partial' \in BOOLEAN
          /\ alarm' \in [Conn -> BOOLEAN] /\ mixed' \in [Conn -> BOOLEAN]
      BY <1>1 DEF TxTypes
    <2>2. \A d \in Conn : Fields(tx'[d]) /\ Whose(tx'[d])
      BY <1>3, FieldsOf, NoTxFields
    <2> QED  BY <1>2, <1>3, <2>1, <2>2, Typed
  <1> QED  BY <1>2, <1>4, <1>5, <1>6, OthersUnderway DEF Ended, Undone

LEMMA KeptView ==
    ASSUME TxTypes, NEW c \in Conn, tx' = [tx EXCEPT ![c] = Writing(c, Seen(c))], db' = db
    PROVE  /\ Seen(c)' = Seen(c) /\ SameView(c)
           /\ DOMAIN tx' = Conn /\ tx' = [d \in Conn |-> tx'[d]]
           /\ \A d \in Conn : Fields(tx'[d]) /\ Whose(tx'[d])
  <1>1. /\ tx'[c] = Writing(c, Seen(c)) /\ DOMAIN tx' = Conn /\ tx' = [d \in Conn |-> tx'[d]]
        /\ \A d \in Conn \ {c} : tx'[d] = tx[d]
    BY DEF TxTypes
  <1>2. Seen(c)' = Seen(c)
    BY <1>1, WrittenView
  <1>3. SameView(c)
    BY <1>1 DEF Seen, SameView
  <1>4. Fields(tx'[c]) /\ Whose(tx'[c])
    BY <1>1, SeenType, WritingFields
  <1>5. \A d \in Conn \ {c} : Fields(tx'[d]) /\ Whose(tx'[d])
    BY <1>1, FieldsOf
  <1> QED  BY <1>1, <1>2, <1>3, <1>4, <1>5

LEMMA Kept ==
    ASSUME TxTypes, NEW c \in Conn, tx' = [tx EXCEPT ![c] = Writing(c, Seen(c))], db' = db,
           DOMAIN call' = Conn, Apart(c), Four(call'[c]),
           alarm' = alarm, owed' = owed, mixed' = mixed, partial' = partial
    PROVE  TxTypes' /\ Seen(c)' = Seen(c) /\ SameView(c)
  <1>1. /\ db' \in Database /\ owed' \in [Conn -> BOOLEAN] /\ partial' \in BOOLEAN
        /\ alarm' \in [Conn -> BOOLEAN] /\ mixed' \in [Conn -> BOOLEAN]
    BY DEF TxTypes
  <1> QED  BY <1>1, KeptView, Typed

LEMMA KeptOwing ==
    ASSUME TxTypes, NEW c \in Conn, tx' = [tx EXCEPT ![c] = Writing(c, Seen(c))], db' = db,
           DOMAIN call' = Conn, Apart(c), Four(call'[c]),
           alarm' = alarm, owed' = [owed EXCEPT ![c] = TRUE], mixed' = mixed, partial' = TRUE
    PROVE  TxTypes' /\ Seen(c)' = Seen(c) /\ SameView(c)
  <1>1. /\ db' \in Database /\ owed' \in [Conn -> BOOLEAN] /\ partial' \in BOOLEAN
        /\ alarm' \in [Conn -> BOOLEAN] /\ mixed' \in [Conn -> BOOLEAN]
    BY DEF TxTypes
  <1> QED  BY <1>1, KeptView, Typed

LEMMA RefusedCallStep ==
    ASSUME TxTypes, CallsOK, NEW c \in Conn, RefusedCall(c)
    PROVE  TxTypes' /\ CallsOK' /\ Ended(c)
  <1>1. /\ RolledBack(c) /\ Returns(c)
        /\ db' = db /\ alarm' = alarm /\ mixed' = mixed /\ partial' = partial
    BY DEF RefusedCall
  <1> QED  BY <1>1, GivenUp

LEMMA RefusedStepStep ==
    ASSUME TxTypes, CallsOK, NEW c \in Conn, RefusedStep(c)
    PROVE  TxTypes' /\ CallsOK' /\ Skipped(c)
  <1>1. /\ Refused(c) /\ ~ RollsBack(c) /\ Sql(c) \notin Key
        /\ tx' = [tx EXCEPT ![c] = Writing(c, Seen(c))]
        /\ call' = [call EXCEPT ![c].todo =
                        IF Sql(c) = "INSERT marker" THEN Tail(Tail(@)) ELSE <<"COMMIT">>]
        /\ db' = db /\ alarm' = alarm /\ owed' = owed /\ mixed' = mixed /\ partial' = partial
    BY DEF RefusedStep
  <1>2. Sql(c) = "INSERT marker" \/ Sql(c) \in {"UPDATE status", "UPDATE remaining"}
    BY <1>1 DEF Refused, RollsBack
  <1>3. Underway(c)
    BY <1>2, Idle DEF CallsOK, Writes
  <1>4. Skipping(c)
    <2>1. Sql(c) = "INSERT marker" => call[c].op \in {"initialize", "replace"}
      BY <1>3, Meaning
    <2> QED  BY <1>1, <1>2, <2>1 DEF RollsBack, Skipping
  <1> DEFINE left == IF Sql(c) = "INSERT marker" THEN Tail(Tail(call[c].todo)) ELSE <<"COMMIT">>
  <1>9. call' = [call EXCEPT ![c].todo = left]
    BY <1>1, Zenon
  <1> HIDE DEF left
  <1>5. /\ call'[c] = [call[c] EXCEPT !.todo = left] /\ Apart(c)
        /\ DOMAIN call' = Conn
    BY <1>9 DEF TxTypes, Apart
  <1>6. call'[c].op = call[c].op /\ call'[c].arg = call[c].arg
        /\ call'[c].todo = left /\ Four(call'[c])
    BY <1>5, FieldsOf DEF Four
  <1>7. Underway(c)' /\ Done(c) = 0 /\ Done(c)' = IF Sql(c) = "UPDATE status" THEN 3 ELSE 2
    <2>1. CASE Sql(c) = "INSERT marker"
      <3>1. left = Tail(Tail(call[c].todo)) /\ call[c].op = "replace" /\ Sql(c) # "UPDATE status"
        BY <1>4, <2>1 DEF left, Skipping
      <3> QED  BY <1>3, <1>6, <2>1, <3>1, SkipsMarker
    <2>2. CASE Sql(c) \in {"UPDATE status", "UPDATE remaining"}
      <3>1. left = <<"COMMIT">>
        BY <2>2, Zenon DEF left
      <3> QED  BY <1>3, <1>6, <2>2, <3>1, SkipsToCommit
    <2> QED  BY <1>2, <2>1, <2>2
  <1>8. TxTypes' /\ Seen(c)' = Seen(c) /\ SameView(c)
    BY <1>1, <1>5, <1>6, Kept
  <1> QED  BY <1>1, <1>3, <1>4, <1>5, <1>6, <1>7, <1>8, OthersUnderway DEF Skipped, SameCall

LEMMA RefusedRowStep ==
    ASSUME TxTypes, CallsOK, NEW c \in Conn, RefusedRow(c)
    PROVE  TxTypes' /\ CallsOK' /\ Ended(c)
  <1>1. /\ Refused(c) /\ Sql(c) \in Key
        /\ tx' = [tx EXCEPT ![c] = Writing(c, Seen(c))]
        /\ call' = [call EXCEPT ![c] = NoCall]
        /\ owed' = [owed EXCEPT ![c] = TRUE] /\ partial' = TRUE
        /\ db' = db /\ alarm' = alarm /\ mixed' = mixed
    BY DEF RefusedRow, Returns
  <1>2. Underway(c)
    BY <1>1, Idle DEF CallsOK, Writes
  <1>3. call[c].op # "impose"
    BY <1>1, <1>2, Meaning
  <1>4. call'[c] = NoCall /\ Apart(c) /\ DOMAIN call' = Conn /\ Four(call'[c])
    BY <1>1, NoCallFour DEF TxTypes, Apart
  <1>5. TxTypes' /\ Seen(c)' = Seen(c) /\ SameView(c)
    BY <1>1, <1>4, KeptOwing
  <1> QED  BY <1>1, <1>2, <1>3, <1>4, <1>5, OthersUnderway DEF Ended, LeftOpen

LEMMA CrashStep ==
    ASSUME TxTypes, CallsOK, NEW c \in Conn, Crash(c)
    PROVE  TxTypes' /\ CallsOK' /\ Ended(c)
  BY GivenUp DEF Crash

LEMMA CommitStep ==
    ASSUME TxTypes, CallsOK, NEW c \in Conn, Commit(c)
    PROVE  TxTypes' /\ CallsOK' /\ Put(c)
  <1>1. /\ Sql(c) = "COMMIT" /\ call' = [call EXCEPT ![c] = NoCall]
        /\ alarm' = alarm /\ partial' = partial
        /\ db' = IF tx[c].mode = "writing" THEN tx[c].view ELSE db
        /\ tx' = [d \in Conn |->
                     IF d = c THEN NoTx
                     ELSE [tx[d] EXCEPT !.stale = @ \/ (tx[d].mode = "reading" /\ db' # db)]]
        /\ mixed' \in [Conn -> BOOLEAN]
        /\ owed' = [owed EXCEPT ![c] = FALSE]
    <2>1. mixed' = [d \in Conn |-> mixed[d] \/ (/\ db' # db
                                                /\ Sql(d) \in {"SELECT latest", "SELECT inits"})]
      BY DEF Commit, Committed
    <2>2. mixed' \in [Conn -> BOOLEAN]
      BY <2>1 DEF TxTypes
    <2> QED  BY <2>2 DEF Commit, Committed, Returns
  <1>2. Underway(c)
    BY <1>1, Idle DEF CallsOK
  <1>3. call'[c] = NoCall /\ Apart(c) /\ DOMAIN call' = Conn /\ Four(call'[c])
    BY <1>1, NoCallFour DEF TxTypes, Apart
  <1>4. db' \in Database /\ db' = IF tx[c].mode = "writing" THEN Seen(c) ELSE db
    BY <1>1, FieldsOf DEF TxTypes, Seen, Whose
  <1>5. /\ tx'[c] = NoTx /\ DOMAIN tx' = Conn /\ tx' = [d \in Conn |-> tx'[d]]
        /\ \A d \in Conn \ {c} :
               tx'[d] = [tx[d] EXCEPT !.stale = @ \/ (tx[d].mode = "reading" /\ db' # db)]
    BY <1>1
  <1>6. \A d \in Conn \ {c} : /\ tx'[d].mode = tx[d].mode /\ tx'[d].view = tx[d].view
                              /\ Fields(tx'[d]) /\ Whose(tx'[d])
    <2> TAKE d \in Conn \ {c}
    <2>1. Fields(tx[d]) /\ Whose(tx[d])
      BY FieldsOf
    <2>3. tx'[d] = [tx[d] EXCEPT !.stale = tx[d].stale \/ (tx[d].mode = "reading" /\ db' # db)]
      BY <1>5
    <2> QED  BY <2>1, <2>3 DEF Fields, Whose
  <1>7. Seen(c)' = db'
    BY <1>5, NoTxFields DEF Seen
  <1>8. \A d \in Conn \ {c} : Seen(d)' = IF HasView(d) THEN Seen(d) ELSE db'
    BY <1>6 DEF Seen, HasView
  <1>9. TxTypes'
    <2>1. /\ owed' \in [Conn -> BOOLEAN] /\ partial' \in BOOLEAN
          /\ alarm' \in [Conn -> BOOLEAN] /\ mixed' \in [Conn -> BOOLEAN]
      BY <1>1 DEF TxTypes
    <2>2. \A d \in Conn : Fields(tx'[d]) /\ Whose(tx'[d])
      BY <1>5, <1>6, NoTxFields
    <2> QED  BY <1>3, <1>4, <1>5, <2>1, <2>2, Typed
  <1> QED  BY <1>1, <1>2, <1>3, <1>4, <1>7, <1>8, <1>9, OthersUnderway DEF Put

LEMMA SnapshotView ==
    ASSUME TxTypes, NEW c \in Conn, Snapshot(c), db' = db
    PROVE  /\ Seen(c)' = Seen(c) /\ SameView(c)
           /\ DOMAIN tx' = Conn /\ tx' = [d \in Conn |-> tx'[d]]
           /\ \A d \in Conn : Fields(tx'[d]) /\ Whose(tx'[d])
  <1> DEFINE snap == [mode |-> "reading", view |-> db, stale |-> FALSE]
  <1>1. /\ tx'[c] = (IF tx[c].mode = "begun" THEN snap ELSE tx[c])
        /\ DOMAIN tx' = Conn /\ tx' = [d \in Conn |-> tx'[d]]
        /\ \A d \in Conn \ {c} : tx'[d] = tx[d]
    BY DEF TxTypes, Snapshot
  <1>2. Fields(snap) /\ Whose(snap) /\ snap.mode = "reading" /\ snap.view = db
    BY DEF Fields, Whose, Modes, TxTypes
  <1> HIDE DEF snap
  <1>3. Seen(c)' = Seen(c)
    BY <1>1, <1>2 DEF Seen
  <1>4. SameView(c)
    BY <1>1 DEF Seen, SameView
  <1>5. Fields(tx'[c]) /\ Whose(tx'[c])
    BY <1>1, <1>2, FieldsOf
  <1>6. \A d \in Conn \ {c} : Fields(tx'[d]) /\ Whose(tx'[d])
    BY <1>1, FieldsOf
  <1> QED  BY <1>1, <1>3, <1>4, <1>5, <1>6

LEMMA FirstSelectStep ==
    ASSUME TxTypes, CallsOK, NEW c \in Conn, FirstSelect(c)
    PROVE  TxTypes' /\ CallsOK' /\ Looked(c)
  <1> DEFINE saw == IF Sql(c) = "SELECT active"
                    THEN {r \in Rid : Seen(c).status[r] = "ACTIVE"}
                    ELSE {m \in {"marker"} : Seen(c).marker}
  <1>1. /\ Sql(c) \in {"SELECT active", "SELECT marker"} /\ Snapshot(c)
        /\ call' = [call EXCEPT ![c] = [op |-> @.op, arg |-> @.arg,
                                        todo |-> Tail(@.todo), saw |-> saw]]
        /\ db' = db /\ alarm' = alarm /\ owed' = owed /\ mixed' = mixed /\ partial' = partial
    BY DEF FirstSelect
  <1>2. Underway(c)
    BY <1>1, Idle DEF CallsOK
  <1>3. Done(c) = 0 /\ Sql(c) \in Onward
    BY <1>1, <1>2, Meaning DEF Onward
  <1> HIDE DEF saw
  <1>4. /\ call'[c] = [op |-> call[c].op, arg |-> call[c].arg, todo |-> Tail(call[c].todo),
                       saw |-> saw]
        /\ Apart(c) /\ DOMAIN call' = Conn
    BY <1>1 DEF TxTypes, Apart
  <1>5. call'[c].op = call[c].op /\ call'[c].arg = call[c].arg
        /\ call'[c].todo = Tail(call[c].todo) /\ call'[c].saw = saw /\ Four(call'[c])
    BY <1>4 DEF Four
  <1>6. Underway(c)' /\ Done(c)' = Done(c) + 1
    BY <1>2, <1>3, <1>5, Advances
  <1>7. Done(c)' = 1
    BY <1>3, <1>6
  <1>8. TxTypes' /\ Seen(c)' = Seen(c) /\ SameView(c)
    <2>1. /\ db' \in Database /\ owed' \in [Conn -> BOOLEAN] /\ partial' \in BOOLEAN
          /\ alarm' \in [Conn -> BOOLEAN] /\ mixed' \in [Conn -> BOOLEAN]
      BY <1>1 DEF TxTypes
    <2> QED  BY <1>1, <1>4, <1>5, <2>1, SnapshotView, Typed
  <1> QED  BY <1>1, <1>2, <1>3, <1>4, <1>5, <1>6, <1>7, <1>8, OthersUnderway
           DEF Looked, SameCall, saw

LEMMA SecondSelectStep ==
    ASSUME TxTypes, CallsOK, NEW c \in Conn, SecondSelect(c)
    PROVE  TxTypes' /\ CallsOK' /\ Ended(c)
  <1>1. /\ Sql(c) \in {"SELECT latest", "SELECT inits"} /\ Snapshot(c)
        /\ call' = [call EXCEPT ![c] = NoCall]
        /\ alarm' = [alarm EXCEPT ![c] = Disagrees(c)]
        /\ db' = db /\ owed' = owed /\ mixed' = mixed /\ partial' = partial
    BY DEF SecondSelect, Returns
  <1>2. Underway(c)
    BY <1>1, Idle DEF CallsOK
  <1>3. call[c].op \in {"active", "initialized"}
    BY <1>1, <1>2, Meaning
  <1>4. call'[c] = NoCall /\ Apart(c) /\ DOMAIN call' = Conn /\ Four(call'[c])
    BY <1>1, NoCallFour DEF TxTypes, Apart
  <1>5. Disagrees(c) \in BOOLEAN
    BY DEF Disagrees, LedgerDisagrees, MarkerDisagrees
  <1>6. TxTypes' /\ Seen(c)' = Seen(c) /\ SameView(c)
    <2>1. /\ db' \in Database /\ owed' \in [Conn -> BOOLEAN] /\ partial' \in BOOLEAN
          /\ alarm' \in [Conn -> BOOLEAN] /\ mixed' \in [Conn -> BOOLEAN]
      BY <1>1, <1>5 DEF TxTypes
    <2> QED  BY <1>1, <1>4, <2>1, SnapshotView, Typed
  <1>7. LeftOpen(c)
    <2>1. call[c].op # "impose" /\ call[c].op \notin WriteOp
      BY <1>3 DEF WriteOp
    <2> QED  BY <1>1, <1>2, <1>6, <2>1 DEF LeftOpen
  <1> QED  BY <1>1, <1>4, <1>6, <1>7, OthersUnderway DEF Ended

LEMMA SealSelectStep ==
    ASSUME TxTypes, CallsOK, NEW c \in Conn, SealSelect(c)
    PROVE  TxTypes' /\ CallsOK' /\ (Looked(c) \/ Ended(c))
  <1>1. /\ Sql(c) \in {"SELECT rows", "SELECT counter"} /\ Snapshot(c)
        /\ alarm' = [alarm EXCEPT ![c] = ~ Sealed(c)]
        /\ db' = db /\ owed' = owed /\ mixed' = mixed /\ partial' = partial
    BY DEF SealSelect
  <1>2. Underway(c)
    BY <1>1, Idle DEF CallsOK
  <1>3. Done(c) = 0 /\ call[c].op \in {"rows", "count"}
    BY <1>1, <1>2, Meaning
  <1>4. /\ db' \in Database /\ owed' \in [Conn -> BOOLEAN] /\ partial' \in BOOLEAN
        /\ alarm' \in [Conn -> BOOLEAN] /\ mixed' \in [Conn -> BOOLEAN]
    <2>1. (~ Sealed(c)) \in BOOLEAN
      BY DEF Sealed
    <2> QED  BY <1>1, <2>1 DEF TxTypes
  <1>5. CASE Sql(c) = "SELECT counter" /\ Advance(c)
    <2>1. /\ call'[c] = [call[c] EXCEPT !.todo = Tail(call[c].todo)] /\ Apart(c)
          /\ DOMAIN call' = Conn
      BY <1>5 DEF TxTypes, Apart, Advance
    <2>2. call'[c].op = call[c].op /\ call'[c].arg = call[c].arg
          /\ call'[c].todo = Tail(call[c].todo) /\ Four(call'[c])
      BY <2>1, FieldsOf DEF Four
    <2>3. Underway(c)' /\ Done(c)' = Done(c) + 1
      <3>1. Sql(c) \in Onward
        BY <1>5 DEF Onward
      <3> QED  BY <1>2, <2>2, <3>1, Advances
    <2>4. Done(c)' = 1
      BY <1>3, <2>3
    <2>5. TxTypes' /\ Seen(c)' = Seen(c) /\ SameView(c)
      BY <1>1, <1>4, <2>1, <2>2, SnapshotView, Typed
    <2> QED  BY <1>1, <1>2, <1>3, <1>5, <2>1, <2>2, <2>3, <2>4, <2>5, OthersUnderway
             DEF Looked, SameCall
  <1>6. CASE Returns(c)
    <2>1. call'[c] = NoCall /\ Apart(c) /\ DOMAIN call' = Conn /\ Four(call'[c])
      BY <1>6, NoCallFour DEF TxTypes, Apart, Returns
    <2>2. TxTypes' /\ Seen(c)' = Seen(c) /\ SameView(c)
      BY <1>1, <1>4, <2>1, SnapshotView, Typed
    <2>3. LeftOpen(c)
      BY <1>1, <1>2, <1>3, <2>2 DEF LeftOpen
    <2> QED  BY <1>1, <2>1, <2>2, <2>3, OthersUnderway DEF Ended
  <1> QED  BY <1>5, <1>6 DEF SealSelect

LEMMA RaiseStep ==
    ASSUME TxTypes, CallsOK, NEW c \in Conn, Raise(c)
    PROVE  TxTypes' /\ CallsOK' /\ Ended(c)
  <1>1. /\ Sql(c) \in Writes \cup {"COMMIT"} /\ Returns(c)
        /\ db' = db /\ alarm' = alarm /\ mixed' = mixed
    BY DEF Raise
  <1>2. Underway(c)
    BY <1>1, Idle DEF CallsOK
  <1>3. CASE RolledBack(c) /\ partial' = partial
    BY <1>1, <1>3, GivenUp
  <1>4. CASE /\ NoHandler(call[c].op)
             /\ tx' = [tx EXCEPT ![c].mode =
                    IF @ = "none" /\ Sql(c) # "COMMIT" THEN "begun" ELSE @]
             /\ owed' = [owed EXCEPT ![c] = TRUE]
             /\ partial' = (partial \/ (tx[c].mode = "writing" /\ HasWritten(c)))
    <2>1. call'[c] = NoCall /\ Apart(c) /\ DOMAIN call' = Conn /\ Four(call'[c])
      BY <1>1, NoCallFour DEF TxTypes, Apart, Returns
    <2>2. /\ DOMAIN tx' = Conn /\ tx' = [d \in Conn |-> tx'[d]]
          /\ \A d \in Conn \ {c} : tx'[d] = tx[d]
          /\ tx'[c] = [tx[c] EXCEPT !.mode =
                 IF tx[c].mode = "none" /\ Sql(c) # "COMMIT" THEN "begun" ELSE tx[c].mode]
      BY <1>4 DEF TxTypes
    <2>3. /\ Fields(tx'[c]) /\ tx'[c].view = tx[c].view
          /\ tx'[c].mode = IF tx[c].mode = "none" /\ Sql(c) # "COMMIT" THEN "begun" ELSE tx[c].mode
      BY <2>2, FieldsOf DEF Fields, Modes
    <2>4. Whose(tx'[c])
      BY <2>3, FieldsOf DEF Whose
    <2>5. Seen(c)' = Seen(c)
      BY <1>1, <2>3 DEF Seen
    <2>6. SameView(c)
      BY <1>1, <2>2 DEF Seen, SameView
    <2>7. TxTypes'
      <3>1. /\ db' \in Database /\ owed' \in [Conn -> BOOLEAN] /\ partial' \in BOOLEAN
            /\ alarm' \in [Conn -> BOOLEAN] /\ mixed' \in [Conn -> BOOLEAN]
        BY <1>1, <1>4 DEF TxTypes
      <3>2. \A d \in Conn : Fields(tx'[d]) /\ Whose(tx'[d])
        BY <2>2, <2>3, <2>4, FieldsOf
      <3> QED  BY <2>1, <2>2, <3>1, <3>2, Typed
    <2>8. LeftOpen(c)
      <3>1. call[c].op # "impose"
        BY <1>4 DEF NoHandler
      <3>2. Done(c) \in Nat /\ (Done(c) > 0 => call[c].todo # Statements(call[c].op, call[c].arg))
        BY <1>2, Position DEF Underway, Whole
      <3>3. Done(c) = 0 \/ call[c].todo # Statements(call[c].op, call[c].arg)
        BY <3>2
      <3>4. \/ partial'
            \/ /\ partial' = partial
               /\ \/ tx[c].mode # "writing" \/ Sql(c) \in {"COMMIT", "UPSERT counter"}
                  \/ Done(c) = 0
        BY <1>4, <3>3 DEF TxTypes, HasWritten
      <3> QED  BY <1>2, <2>5, <3>1, <3>4 DEF LeftOpen
    <2> QED  BY <1>1, <2>1, <2>5, <2>6, <2>7, <2>8, OthersUnderway DEF Ended
  <1> QED  BY <1>3, <1>4 DEF Raise

LEMMA TypeInit == Init => TxTypes /\ CallsOK
  <1> SUFFICES ASSUME Init
               PROVE  TxTypes /\ CallsOK
    OBVIOUS
  <1>1. db \in Database
    <2>1. /\ [r \in Rid |-> "none"] \in [Rid -> Status] /\ {} \in SUBSET Mention
          /\ [k \in Key |-> 0] \in [Key -> Int] /\ <<>> \in Seq(Note)
      BY DEF Status
    <2> QED  BY <2>1 DEF Init, Database
  <1>2. tx \in [Conn -> [mode : Modes, view : Database \cup {"db"}, stale : BOOLEAN]]
    BY DEF Init, NoTx, Modes
  <1>3. \A c \in Conn : ~ HasView(c)
    BY DEF Init, NoTx, HasView
  <1>4. DOMAIN call = Conn /\ \A c \in Conn : call[c] = NoCall
    BY DEF Init
  <1>5. \A c \in Conn : Four(call[c])
    BY <1>4, NoCallFour
  <1> QED  BY <1>1, <1>2, <1>3, <1>4, <1>5 DEF Init, TxTypes, CallsOK, Four

LEMMA TypeStep ==
    ASSUME TxTypes, CallsOK, Next
    PROVE  /\ TxTypes' /\ CallsOK'
           /\ \E c \in Conn : \/ Begins(c) \/ Wrote(c) \/ Skipped(c) \/ Looked(c)
                              \/ Ended(c) \/ Put(c)
  <1> SUFFICES ASSUME NEW c \in Conn,
                      \/ \E k \in Calls : Call(c, k[1], k[2])
                      \/ Write(c) \/ RefusedCall(c) \/ RefusedStep(c) \/ RefusedRow(c)
                      \/ Commit(c) \/ FirstSelect(c) \/ SecondSelect(c) \/ SealSelect(c)
                      \/ Raise(c) \/ Crash(c)
               PROVE  /\ TxTypes' /\ CallsOK'
                      /\ \/ Begins(c) \/ Wrote(c) \/ Skipped(c) \/ Looked(c)
                         \/ Ended(c) \/ Put(c)
    BY DEF Next
  <1>1. CASE \E k \in Calls : Call(c, k[1], k[2])
    BY <1>1, CallStep
  <1> QED  BY <1>1, WriteStep, RefusedCallStep, RefusedStepStep, RefusedRowStep, CommitStep,
              FirstSelectStep, SecondSelectStep, SealSelectStep, RaiseStep, CrashStep

LEMMA TypeStutter ==
    ASSUME TxTypes, CallsOK, UNCHANGED vars
    PROVE  TxTypes' /\ CallsOK'
  <1>1. TxTypes'
    BY DEF TxTypes, vars, HasView
  <1>2. CallsOK'
    BY DEF CallsOK, vars, Underway, Whole, Done
  <1> QED  BY <1>1, <1>2

(* Every variable has its type, and the statements a call has still to run *)
(* are a suffix of the operation's, from the one its progress stands at.   *)
THEOREM TxnTypes == Spec => [](TxTypes /\ CallsOK)
  <1>1. TxTypes /\ CallsOK /\ [Next]_vars => (TxTypes /\ CallsOK)'
    BY TypeStep, TypeStutter
  <1> QED  BY TypeInit, <1>1, PTL DEF Spec

------------------------------------------------------------------------------
(* Lock and snapshot: one connection writes, what it has written starts    *)
(* from what is committed, and a snapshot that is not old is what is       *)
(* committed.                                                              *)
Extends(a, b) ==
    /\ a.nonces \subseteq b.nonces /\ a.events \subseteq b.events
    /\ IsPrefix(a.ledger, b.ledger) /\ a.count <= b.count
Locks ==
    /\ \A c, d \in Conn : tx[c].mode = "writing" /\ tx[d].mode = "writing" => c = d
    /\ \A c \in Conn : tx[c].stale => tx[c].mode = "reading"
    /\ \A c \in Conn : tx[c].mode = "reading" /\ ~ tx[c].stale => tx[c].view = db
    /\ \A c \in Conn : tx[c].mode = "writing" => Extends(db, tx[c].view)

(* Only a call that writes and has begun to, or one that raised, holds a   *)
(* transaction.                                                            *)
Begun(c) == call[c].op \in WriteOp /\ Done(c) # 0 /\ ~ (call[c].op = "count" /\ Done(c) = 1)
Opening(c) ==
    /\ tx[c].mode \in {"begun", "reading"} => owed[c]
    /\ tx[c].mode = "writing" /\ ~ owed[c] => Begun(c)
    /\ Begun(c) => tx[c].mode = "writing"
Openings == \A c \in Conn : Opening(c)

Linked(d) == \A i \in DOMAIN d.ledger : d.ledger[i].prev = i - 1
Chained == Linked(db) /\ \A c \in Conn : Linked(Seen(c))

(* A restriction and its IMPOSED entry; a call between the two statements  *)
(* never leaves its transaction open.                                      *)
Matched(d, r) == IF d.status[r] = "none" THEN UnknownTo(d, r) ELSE ImposedIn(d, r)
Imposing(c) == call[c].op = "impose" /\ Done(c) \in {1, 2}
AllMatched(d) == \A r \in Rid : Matched(d, r)
ImposedBy(c, d) ==
    \A r \in Rid :
        IF Imposing(c) /\ r = call[c].arg
        THEN d.status[r] # "none" /\ (Done(c) = 2 => <<r, "IMPOSED">> \in d.events)
        ELSE Matched(d, r)
Imposed == AllMatched(db) /\ \A c \in Conn : ImposedBy(c, Seen(c))

(* An IMPOSED entry that is the last one of its restriction stands for an  *)
(* ACTIVE row, except where a transition has changed the row and not yet   *)
(* appended its entry.                                                     *)
ListedBut(d, S) ==
    \A i \in DOMAIN d.ledger :
        IsLatest(i, d.ledger) /\ d.ledger[i].event = "IMPOSED" /\ d.ledger[i].rid \notin S
            => d.status[d.ledger[i].rid] = "ACTIVE"
Moving(c) == call[c].op \in {"expire", "clear"} /\ Done(c) \in {1, 2}
ListedBy(c, d) ==
    /\ ListedBut(d, IF Moving(c) THEN {call[c].arg} ELSE {})
    /\ Imposing(c) => d.status[call[c].arg] = "ACTIVE"
Listed == partial \/ (ListedBut(db, {}) /\ \A c \in Conn : ListedBy(c, Seen(c)))

(* The rows are those of one call and go with a marker, which goes with    *)
(* its entry; and what has been made of them by the time a call has got    *)
(* as far as it has.                                                       *)
Wholes == {{}, ToSet(Ceiling)} \cup {ToSet(o) : o \in {q \in Offers : IsInjective(q)}}
Settled(d) == d.rows \in Wholes /\ (d.rows # {} => d.marker) /\ d.marker = d.inits
Prefix(q, n) == {q[i] : i \in 1..n}
DistinctUpTo(q, n) == \A i, j \in 1..n : q[i] = q[j] => i = j
Long(op) == op \in {"initialize", "replace"}
Filling(c) == Long(call[c].op) /\ Done(c) # 0
FilledAs(op, q, n, d) ==
    IF Long(op) /\ n # 0
    THEN /\ d.marker
         /\ n = 1 => d.rows = {}
         /\ n # 1 => d.inits
         /\ n = 2 /\ Lead(op) = 3 => d.rows \in Wholes
         /\ n # 1 /\ ~ (n = 2 /\ Lead(op) = 3) =>
                d.rows = Prefix(q, n - Lead(op)) /\ DistinctUpTo(q, n - Lead(op))
    ELSE Settled(d)
FilledBy(c, d) == FilledAs(call[c].op, call[c].arg, Done(c), d)
Filled == partial \/ (Settled(db) /\ \A c \in Conn : FilledBy(c, Seen(c)))

(* What the first SELECT of a call has seen the second one sees as well,   *)
(* unless a sibling has committed between the two.                         *)
Second == {"SELECT latest", "SELECT inits"}
Active(d) == {r \in Rid : d.status[r] = "ACTIVE"}
Marked(d) == {m \in {"marker"} : d.marker}
SeeingOf(c) ==
    /\ Sql(c) = "SELECT latest" /\ ~ mixed[c] => call[c].saw = Active(Seen(c))
    /\ Sql(c) = "SELECT inits" /\ ~ mixed[c] => call[c].saw = Marked(Seen(c))
Seeing == \A c \in Conn : SeeingOf(c)

(* A second SELECT comes from the call its first one came from.            *)
Selects ==
    \A c \in Conn :
        /\ Sql(c) = "SELECT latest" => call[c].op = "active" /\ Done(c) = 1
        /\ Sql(c) = "SELECT inits" => call[c].op = "initialized" /\ Done(c) = 1

------------------------------------------------------------------------------
LEMMA PrefixSelf ==
    ASSUME NEW S, NEW s \in Seq(S)
    PROVE  IsPrefix(s, s)
  <1>1. Len(s) \in Nat
    BY LenProperties
  <1>2. Len(s) <= Len(s)
    BY <1>1
  <1> QED  BY <1>2 DEF IsPrefix

LEMMA PrefixAppend ==
    ASSUME NEW S, NEW s \in Seq(S), NEW t \in Seq(S), NEW e \in S, IsPrefix(s, t)
    PROVE  IsPrefix(s, Append(t, e))
  <1> DEFINE u == Append(t, e)
             n == Len(s)
  <1>1. n \in Nat /\ Len(t) \in Nat /\ n <= Len(t) /\ SubSeq(s, 1, n) = SubSeq(t, 1, n)
    BY LenProperties DEF IsPrefix
  <1>2. u \in Seq(S) /\ Len(u) = Len(t) + 1 /\ \A i \in 1..Len(t) : u[i] = t[i]
    BY AppendProperties
  <1> HIDE DEF u, n
  <1>3. SubSeq(u, 1, n) = SubSeq(t, 1, n)
    BY <1>1, <1>2
  <1>4. n <= Len(u)
    BY <1>1, <1>2
  <1> QED  BY <1>1, <1>3, <1>4 DEF IsPrefix, n, u

LEMMA ExtendsSelf ==
    ASSUME NEW d \in Database
    PROVE  Extends(d, d)
  <1>1. d.ledger \in Seq(Note) /\ d.count \in Nat
    BY DEF Database
  <1> QED  BY <1>1, PrefixSelf DEF Extends

LEMMA EntryFields ==
    ASSUME NEW c \in Conn, Sql(c) = "INSERT ledger", NEW d \in Database
    PROVE  /\ Written(c, d).ledger = Append(d.ledger, Entry(c, d.ledger))
           /\ Written(c, d).nonces = d.nonces /\ Written(c, d).status = d.status
           /\ Written(c, d).events = d.events /\ Written(c, d).count = d.count
           /\ Written(c, d).marker = d.marker /\ Written(c, d).inits = d.inits
           /\ Written(c, d).rows = d.rows /\ Written(c, d).unsealed = d.unsealed
  <1>1. Sql(c) \notin Key /\ Sql(c) \in Writes
    BY KeyAssumption DEF Words, Writes
  <1> QED  BY <1>1, WrittenFields

LEMMA EntryType ==
    ASSUME NEW c \in Conn, Underway(c), Sql(c) = "INSERT ledger", NEW d \in Database
    PROVE  Entry(c, d.ledger) \in Note /\ d.ledger \in Seq(Note) /\ Len(d.ledger) \in Nat
  <1>1. call[c].arg \in Rid
    BY Meaning, SomeCall DEF Underway
  <1>2. d.ledger \in Seq(Note) /\ Len(d.ledger) \in Nat
    BY LenProperties DEF Database
  <1> QED  BY <1>1, <1>2 DEF Entry, Note, Event, NewStatus

LEMMA LedgerAlone ==
    ASSUME NEW c \in Conn, Sql(c) \in Writes, Sql(c) # "INSERT ledger", NEW d \in Database
    PROVE  Written(c, d).ledger = d.ledger
  BY WrittenFields

LEMMA WrittenGrows ==
    ASSUME NEW c \in Conn, Sql(c) \in Writes, NEW d \in Database
    PROVE  /\ d.nonces \subseteq Written(c, d).nonces /\ d.events \subseteq Written(c, d).events
           /\ Written(c, d).count \in {d.count, d.count + 1}
  <1> DEFINE w == Written(c, d)
  <1>0. /\ Sql(c) # "INSERT nonce" => w.nonces = d.nonces
        /\ Sql(c) = "INSERT nonce" => w.nonces = d.nonces \cup {call[c].arg}
        /\ Sql(c) # "INSERT event" => w.events = d.events
        /\ Sql(c) = "INSERT event" => w.events = d.events \cup {<<call[c].arg, Event(call[c].op)>>}
        /\ Sql(c) # "UPSERT counter" => w.count = d.count
        /\ Sql(c) = "UPSERT counter" => w.count = d.count + 1
    BY WrittenFields, Zenon
  <1> HIDE DEF w
  <1>1. d.nonces \subseteq w.nonces
    BY <1>0
  <1>2. d.events \subseteq w.events
    BY <1>0
  <1>3. w.count \in {d.count, d.count + 1}
    BY <1>0
  <1> QED  BY <1>1, <1>2, <1>3 DEF w

LEMMA NoLess ==
    ASSUME NEW a \in Nat, NEW b \in Nat, a <= b
    PROVE  a <= b + 1
  OBVIOUS

LEMMA WrittenExtends ==
    ASSUME NEW c \in Conn, Underway(c), Sql(c) \in Writes, NEW a \in Database, NEW d \in Database,
           Extends(a, d)
    PROVE  Extends(a, Written(c, d))
  <1>1. /\ a.nonces \subseteq Written(c, d).nonces /\ a.events \subseteq Written(c, d).events
        /\ a.count <= Written(c, d).count
    <2>1. a.count \in Nat /\ d.count \in Nat
      BY DEF Database
    <2>2. a.nonces \subseteq d.nonces /\ a.events \subseteq d.events /\ a.count <= d.count
      BY DEF Extends
    <2> QED  BY <2>1, <2>2, WrittenGrows, NoLess
  <1>2. CASE Sql(c) = "INSERT ledger"
    <2>1. a.ledger \in Seq(Note) /\ d.ledger \in Seq(Note) /\ IsPrefix(a.ledger, d.ledger)
      BY DEF Database, Extends
    <2>2. Written(c, d).ledger = Append(d.ledger, Entry(c, d.ledger))
      BY <1>2, EntryFields
    <2>3. Entry(c, d.ledger) \in Note
      BY <1>2, EntryType
    <2> QED  BY <1>1, <2>1, <2>2, <2>3, PrefixAppend DEF Extends
  <1>3. CASE Sql(c) # "INSERT ledger"
    <2>1. Written(c, d).ledger = d.ledger
      BY <1>3, LedgerAlone
    <2> QED  BY <1>1, <2>1 DEF Extends
  <1> QED  BY <1>2, <1>3

LEMMA OneChanges ==
    ASSUME Locks, NEW c \in Conn, db' = db, \A d \in Conn \ {c} : tx'[d] = tx[d],
           tx'[c].mode = "writing" => \A d \in Conn \ {c} : tx[d].mode # "writing",
           tx'[c].stale => tx'[c].mode = "reading",
           tx'[c].mode = "reading" /\ ~ tx'[c].stale => tx'[c].view = db,
           tx'[c].mode = "writing" => Extends(db, tx'[c].view)
    PROVE  Locks'
  <1>1. \A d, e \in Conn : tx'[d].mode = "writing" /\ tx'[e].mode = "writing" => d = e
    BY DEF Locks
  <1>2. ASSUME NEW d \in Conn
        PROVE  /\ tx'[d].stale => tx'[d].mode = "reading"
               /\ tx'[d].mode = "reading" /\ ~ tx'[d].stale => tx'[d].view = db
               /\ tx'[d].mode = "writing" => Extends(db, tx'[d].view)
    BY DEF Locks
  <1> QED  BY <1>1, <1>2 DEF Locks, Extends

LEMMA SeenExtends ==
    ASSUME TxTypes, Locks, NEW c \in Conn, ~ tx[c].stale
    PROVE  Extends(db, Seen(c))
  <1>1. db \in Database
    BY DEF TxTypes
  <1>2. CASE tx[c].mode = "writing"
    BY <1>2 DEF Locks, Seen
  <1>3. CASE tx[c].mode # "writing"
    <2>1. Seen(c) = db
      BY <1>3 DEF Locks, Seen
    <2> QED  BY <1>1, <2>1, ExtendsSelf
  <1> QED  BY <1>2, <1>3

LEMMA WritingLocks ==
    ASSUME TxTypes, Locks, NEW c \in Conn, MayWrite(c), NEW d \in Database, Extends(db, d),
           tx' = [tx EXCEPT ![c] = Writing(c, d)], db' = db
    PROVE  Locks'
  <1>1. tx'[c] = Writing(c, d) /\ \A e \in Conn \ {c} : tx'[e] = tx[e]
    BY DEF TxTypes
  <1>2. tx'[c].mode = "writing" /\ tx'[c].view = d /\ tx'[c].stale = FALSE
    BY <1>1 DEF Writing
  <1> QED  BY <1>1, <1>2, OneChanges DEF MayWrite

LEMMA FreeLocks ==
    ASSUME TxTypes, Locks, NEW c \in Conn, RolledBack(c), db' = db
    PROVE  Locks'
  <1>1. tx'[c] = NoTx /\ \A e \in Conn \ {c} : tx'[e] = tx[e]
    BY DEF TxTypes, RolledBack
  <1> QED  BY <1>1, NoTxFields, OneChanges

LEMMA SnapshotLocks ==
    ASSUME TxTypes, Locks, NEW c \in Conn, Snapshot(c), db' = db
    PROVE  Locks'
  <1> DEFINE snap == [mode |-> "reading", view |-> db, stale |-> FALSE]
  <1>1. /\ tx'[c] = (IF tx[c].mode = "begun" THEN snap ELSE tx[c])
        /\ \A d \in Conn \ {c} : tx'[d] = tx[d]
    BY DEF TxTypes, Snapshot
  <1>2. snap.mode = "reading" /\ snap.view = db /\ snap.stale = FALSE
    OBVIOUS
  <1> HIDE DEF snap
  <1>3. CASE tx[c].mode = "begun"
    BY <1>1, <1>2, <1>3, OneChanges
  <1>4. CASE tx[c].mode # "begun"
    BY <1>1, <1>4 DEF Locks, Extends
  <1> QED  BY <1>3, <1>4

LEMMA RaiseLocks ==
    ASSUME TxTypes, Locks, NEW c \in Conn, Raise(c)
    PROVE  Locks'
  <1>1. db' = db
    BY DEF Raise
  <1>2. CASE RolledBack(c)
    BY <1>1, <1>2, FreeLocks
  <1>3. CASE tx' = [tx EXCEPT ![c].mode = IF @ = "none" /\ Sql(c) # "COMMIT" THEN "begun" ELSE @]
    <2>1. /\ \A d \in Conn \ {c} : tx'[d] = tx[d]
          /\ tx'[c] = [tx[c] EXCEPT !.mode =
                 IF tx[c].mode = "none" /\ Sql(c) # "COMMIT" THEN "begun" ELSE tx[c].mode]
      BY <1>3 DEF TxTypes
    <2>2. /\ tx'[c].view = tx[c].view /\ tx'[c].stale = tx[c].stale
          /\ \/ tx'[c].mode = tx[c].mode
             \/ tx[c].mode = "none" /\ tx'[c].mode = "begun"
      BY <2>1, FieldsOf DEF Fields
    <2>3. CASE tx'[c].mode = tx[c].mode
      <3>1. /\ tx[c].mode = "writing" => \A d \in Conn \ {c} : tx[d].mode # "writing"
            /\ tx[c].stale => tx[c].mode = "reading"
            /\ tx[c].mode = "reading" /\ ~ tx[c].stale => tx[c].view = db
            /\ tx[c].mode = "writing" => Extends(db, tx[c].view)
        BY DEF Locks
      <3> QED  BY <1>1, <2>1, <2>2, <2>3, <3>1, OneChanges
    <2>4. CASE tx[c].mode = "none" /\ tx'[c].mode = "begun"
      <3>1. tx'[c].stale = FALSE
        BY <2>2, <2>4, FieldsOf DEF Locks, Fields
      <3> QED  BY <1>1, <2>1, <2>4, <3>1, OneChanges
    <2> QED  BY <2>2, <2>3, <2>4
  <1> QED  BY <1>2, <1>3 DEF Raise

LEMMA CommitLocks ==
    ASSUME TxTypes, Locks, NEW c \in Conn, Commit(c)
    PROVE  Locks' /\ (db' = db \/ Extends(db, db'))
  <1>1. /\ db' = IF tx[c].mode = "writing" THEN tx[c].view ELSE db
        /\ tx' = [d \in Conn |->
                     IF d = c THEN NoTx
                     ELSE [tx[d] EXCEPT !.stale = @ \/ (tx[d].mode = "reading" /\ db' # db)]]
    BY DEF Commit, Committed
  <1>2. tx'[c].mode = "none" /\ tx'[c].stale = FALSE
    BY <1>1, NoTxFields
  <1>3. ASSUME NEW d \in Conn, d # c
        PROVE  /\ tx'[d].mode = tx[d].mode /\ tx'[d].view = tx[d].view
               /\ tx'[d].stale <=> tx[d].stale \/ (tx[d].mode = "reading" /\ db' # db)
    <2>1. tx'[d] = [tx[d] EXCEPT !.stale = tx[d].stale \/ (tx[d].mode = "reading" /\ db' # db)]
      BY <1>1, <1>3
    <2> QED  BY <2>1, FieldsOf DEF Fields
  <1>4. db' = db \/ (tx[c].mode = "writing" /\ Extends(db, db'))
    BY <1>1 DEF Locks
  <1>5. ASSUME NEW d \in Conn
        PROVE  /\ tx'[d].stale => tx'[d].mode = "reading"
               /\ tx'[d].mode = "reading" /\ ~ tx'[d].stale => tx'[d].view = db'
    BY <1>2, <1>3, <1>4 DEF Locks
  <1>6. ASSUME NEW d \in Conn, tx'[d].mode = "writing"
        PROVE  Extends(db', tx'[d].view)
    <2>1. d # c /\ tx[d].mode = "writing"
      BY <1>2, <1>3, <1>6
    <2>2. db' = db
      BY <1>4, <2>1 DEF Locks
    <2> QED  BY <1>3, <2>1, <2>2 DEF Locks
  <1>7. \A d, e \in Conn : tx'[d].mode = "writing" /\ tx'[e].mode = "writing" => d = e
    BY <1>2, <1>3 DEF Locks
  <1> QED  BY <1>4, <1>5, <1>6, <1>7 DEF Locks, Extends

LEMMA LocksStep ==
    ASSUME TxTypes, CallsOK, Locks, Next
    PROVE  Locks' /\ (db' = db \/ Extends(db, db'))
  <1> SUFFICES ASSUME NEW c \in Conn,
                      \/ \E k \in Calls : Call(c, k[1], k[2])
                      \/ Write(c) \/ RefusedCall(c) \/ RefusedStep(c) \/ RefusedRow(c)
                      \/ Commit(c) \/ FirstSelect(c) \/ SecondSelect(c) \/ SealSelect(c)
                      \/ Raise(c) \/ Crash(c)
               PROVE  Locks' /\ (db' = db \/ Extends(db, db'))
    BY DEF Next
  <1>1. CASE \E k \in Calls : Call(c, k[1], k[2])
    BY <1>1 DEF Call, Locks, Extends
  <1>2. CASE Write(c)
    <2>1. Underway(c) /\ Sql(c) \in Writes /\ MayWrite(c) /\ db' = db
          /\ tx' = [tx EXCEPT ![c] = Writing(c, Written(c, Seen(c)))]
      BY <1>2, WriteStep DEF Wrote, Write
    <2>2. Extends(db, Seen(c)) /\ Seen(c) \in Database /\ db \in Database
      BY <2>1, SeenExtends, SeenType DEF MayWrite, TxTypes
    <2>3. Extends(db, Written(c, Seen(c))) /\ Written(c, Seen(c)) \in Database
      BY <2>1, <2>2, WrittenExtends, WrittenType
    <2> QED  BY <2>1, <2>3, WritingLocks
  <1>3. CASE RefusedStep(c) \/ RefusedRow(c)
    <2>1. MayWrite(c) /\ db' = db /\ tx' = [tx EXCEPT ![c] = Writing(c, Seen(c))]
      BY <1>3 DEF RefusedStep, RefusedRow
    <2>2. Extends(db, Seen(c)) /\ Seen(c) \in Database
      BY <2>1, SeenExtends, SeenType DEF MayWrite
    <2> QED  BY <2>1, <2>2, WritingLocks
  <1>4. CASE RefusedCall(c) \/ Crash(c)
    BY <1>4, FreeLocks DEF RefusedCall, Crash
  <1>5. CASE FirstSelect(c) \/ SecondSelect(c) \/ SealSelect(c)
    BY <1>5, SnapshotLocks DEF FirstSelect, SecondSelect, SealSelect
  <1>6. CASE Raise(c)
    BY <1>6, RaiseLocks DEF Raise
  <1>7. CASE Commit(c)
    BY <1>7, CommitLocks
  <1> QED  BY <1>1, <1>2, <1>3, <1>4, <1>5, <1>6, <1>7

(* One connection writes at a time, what it holds starts from what is      *)
(* committed, and a snapshot is what is committed until a sibling commits: *)
(* the WAL rules that the operations of SQLiteStore rest on.               *)
THEOREM TxnLocks == Spec => []Locks
  <1>1. Init => Locks
    BY NoTxFields DEF Init, Locks
  <1>2. TxTypes /\ CallsOK /\ Locks /\ [Next]_vars => Locks'
    <2>1. Locks /\ UNCHANGED vars => Locks'
      BY DEF Locks, Extends, vars
    <2> QED  BY <2>1, LocksStep
  <1> QED  BY <1>1, <1>2, TxnTypes, PTL DEF Spec

(* No commit takes back a replay claim, an event, a ledger entry or a      *)
(* counted step that a sibling has committed, though each connection       *)
(* writes on the snapshot it has.                                          *)
THEOREM CommittedWorkStays == Spec => CommittedStays
  <1>1. TxTypes /\ CallsOK /\ Locks /\ [Next]_vars
            => [/\ db.nonces \subseteq db'.nonces /\ db.events \subseteq db'.events
                /\ IsPrefix(db.ledger, db'.ledger) /\ db.count <= db'.count]_vars
    <2> SUFFICES ASSUME TxTypes, CallsOK, Locks, Next
                 PROVE  /\ db.nonces \subseteq db'.nonces /\ db.events \subseteq db'.events
                        /\ IsPrefix(db.ledger, db'.ledger) /\ db.count <= db'.count
      OBVIOUS
    <2>1. db \in Database /\ (db' = db \/ Extends(db, db'))
      BY LocksStep DEF TxTypes
    <2> QED  BY <2>1, ExtendsSelf DEF Extends
  <1> QED  BY <1>1, TxnTypes, TxnLocks, PTL DEF Spec, CommittedStays

LEMMA SameOpening ==
    ASSUME NEW c \in Conn, Opening(c), call'[c] = call[c], tx'[c].mode = tx[c].mode, owed'[c] = owed[c]
    PROVE  Opening(c)'
  BY DEF Opening, Begun, Done, Whole

LEMMA ClosedOpening ==
    ASSUME NEW c \in Conn, call'[c] = NoCall, tx'[c].mode = "none" \/ owed'[c]
    PROVE  Opening(c)'
  BY DEF Opening, Begun, NoCall, WriteOp

LEMMA WritingOpening ==
    ASSUME NEW c \in Conn, tx'[c].mode = "writing", Begun(c)'
    PROVE  Opening(c)'
  BY DEF Opening

LEMMA ZeroOne ==
    ASSUME NEW n
    PROVE  /\ n = 0 => n # 1 /\ n # 2 /\ n # 3
           /\ n = 1 => n # 0 /\ n # 2 /\ n # 3
           /\ n = 2 => n # 0 /\ n # 1 /\ n # 3
           /\ n = 3 => n # 0 /\ n # 1 /\ n # 2
  OBVIOUS

LEMMA OneMoreDone ==
    ASSUME NEW m \in Nat
    PROVE  m + 1 # 0 /\ (m # 0 => m + 1 # 1)
  OBVIOUS

(* A statement that writes, or one that is skipped, is in a transaction;   *)
(* a step counter is first read outside of one.                            *)
LEMMA WroteBegins ==
    ASSUME NEW c \in Conn, Underway(c), Sql(c) \in Writes, call'[c].op = call[c].op,
           Done(c)' = Done(c) + 1
    PROVE  Begun(c)'
  <1>1. call[c].op \in WriteOp /\ Done(c) \in Nat
    <2>1. call[c].op \in WriteOp
      BY Meaning
    <2>2. Whole(c) \in Seq(Sentence)
      BY Position
    <2>3. Len(Whole(c)) \in Nat /\ Done(c) \in 0..(Len(Whole(c)) - 1)
      BY <2>2, LenProperties DEF Underway
    <2> HIDE DEF Done
    <2> QED  BY <2>1, <2>3
  <1>2. call[c].op = "count" => Done(c) # 0
    <2>1. "SELECT counter" \notin Writes
      BY KeyAssumption DEF Words, Writes
    <2> SUFFICES ASSUME call[c].op = "count"
                 PROVE  Done(c) # 0
      OBVIOUS
    <2>2. call[c].op \notin {"initialize", "replace"}
      OBVIOUS
    <2>3. \/ Done(c) = 0 /\ Sql(c) = "SELECT counter"
          \/ Done(c) = 1 \/ Done(c) = 2 \/ Done(c) = 3
      BY <2>2, ShortPosition
    <2> QED  BY <2>1, <2>3, ZeroOne
  <1> QED  BY <1>1, <1>2, OneMoreDone DEF Begun

LEMMA SkippedBegins ==
    ASSUME NEW c \in Conn, Underway(c), Skipping(c), call'[c].op = call[c].op,
           Done(c)' = IF Sql(c) = "UPDATE status" THEN 3 ELSE 2
    PROVE  Begun(c)'
  <1>1. call[c].op \in WriteOp
    BY Meaning DEF Skipping, WriteOp
  <1>2. Done(c)' # 0 /\ Done(c)' # 1
    BY ZeroOne
  <1> QED  BY <1>1, <1>2 DEF Begun

LEMMA OpeningsStep ==
    ASSUME TxTypes, CallsOK, Openings, Next
    PROVE  Openings'
  <1> SUFFICES ASSUME NEW c \in Conn,
                      \/ \E k \in Calls : Call(c, k[1], k[2])
                      \/ Write(c) \/ RefusedCall(c) \/ RefusedStep(c) \/ RefusedRow(c)
                      \/ Commit(c) \/ FirstSelect(c) \/ SecondSelect(c) \/ SealSelect(c)
                      \/ Raise(c) \/ Crash(c)
               PROVE  Openings'
    BY DEF Next
  <1>0. \A d \in Conn : Opening(d)
    BY DEF Openings
  <1>1. CASE \E k \in Calls : Call(c, k[1], k[2])
    <2>1. /\ tx' = tx /\ owed' = owed /\ Done(c)' = 0 /\ call[c] = NoCall
          /\ \A d \in Conn \ {c} : call'[d] = call[d]
      BY <1>1, CallStep DEF Call, Begins, Apart
    <2>2. call[c].op \notin WriteOp
      BY <2>1, NoStatement
    <2>3. Opening(c)'
      BY <1>0, <2>1, <2>2 DEF Opening, Begun
    <2> QED  BY <1>0, <2>1, <2>3, SameOpening DEF Openings
  <1>2. CASE Write(c)
    <2>1. /\ Underway(c) /\ Sql(c) \in Writes /\ owed' = owed /\ call'[c].op = call[c].op
          /\ tx' = [tx EXCEPT ![c] = Writing(c, Written(c, Seen(c)))]
          /\ \A d \in Conn \ {c} : call'[d] = call[d]
      BY <1>2, WriteStep DEF Wrote, Write, Apart, SameCall
    <2>2. tx'[c].mode = "writing" /\ \A d \in Conn \ {c} : tx'[d] = tx[d]
      BY <2>1 DEF TxTypes, Writing
    <2>3. Begun(c)'
      BY <1>2, <2>1, WriteStep, WroteBegins DEF Wrote
    <2> QED  BY <1>0, <2>1, <2>2, <2>3, SameOpening, WritingOpening DEF Openings
  <1>3. CASE RefusedStep(c)
    <2>1. /\ Underway(c) /\ Skipping(c) /\ owed' = owed /\ call'[c].op = call[c].op
          /\ tx' = [tx EXCEPT ![c] = Writing(c, Seen(c))]
          /\ \A d \in Conn \ {c} : call'[d] = call[d]
      BY <1>3, RefusedStepStep DEF Skipped, RefusedStep, Apart, SameCall
    <2>2. tx'[c].mode = "writing" /\ \A d \in Conn \ {c} : tx'[d] = tx[d]
      BY <2>1 DEF TxTypes, Writing
    <2>3. Begun(c)'
      BY <1>3, <2>1, RefusedStepStep, SkippedBegins DEF Skipped
    <2> QED  BY <1>0, <2>1, <2>2, <2>3, SameOpening, WritingOpening DEF Openings
  <1>4. CASE RefusedRow(c)
    <2>1. /\ owed' = [owed EXCEPT ![c] = TRUE] /\ call' = [call EXCEPT ![c] = NoCall]
          /\ tx' = [tx EXCEPT ![c] = Writing(c, Seen(c))]
      BY <1>4 DEF RefusedRow, Returns
    <2>2. /\ owed'[c] /\ call'[c] = NoCall
          /\ \A d \in Conn \ {c} : tx'[d] = tx[d] /\ call'[d] = call[d] /\ owed'[d] = owed[d]
      BY <2>1 DEF TxTypes
    <2> QED  BY <1>0, <2>2, SameOpening, ClosedOpening DEF Openings
  <1>5. CASE RolledBack(c) /\ Returns(c)
    <2>1. /\ tx'[c] = NoTx /\ call'[c] = NoCall
          /\ \A d \in Conn \ {c} : tx'[d] = tx[d] /\ call'[d] = call[d] /\ owed'[d] = owed[d]
      BY <1>5 DEF TxTypes, RolledBack, Returns
    <2> QED  BY <1>0, <2>1, NoTxFields, SameOpening, ClosedOpening DEF Openings
  <1>6. CASE Commit(c)
    <2>1. /\ tx'[c] = NoTx /\ call'[c] = NoCall
          /\ \A d \in Conn \ {c} :
                 /\ tx'[d] = [tx[d] EXCEPT !.stale = @ \/ (tx[d].mode = "reading" /\ db' # db)]
                 /\ call'[d] = call[d] /\ owed'[d] = owed[d]
      BY <1>6 DEF TxTypes, Commit, Committed, Returns
    <2>2. \A d \in Conn \ {c} : tx'[d].mode = tx[d].mode
      BY <2>1, FieldsOf DEF Fields
    <2> QED  BY <1>0, <2>1, <2>2, NoTxFields, SameOpening, ClosedOpening DEF Openings
  <1>7. CASE FirstSelect(c) \/ SecondSelect(c)
    <2> DEFINE snap == [mode |-> "reading", view |-> db, stale |-> FALSE]
    <2>1. /\ Snapshot(c) /\ owed' = owed
          /\ Sql(c) \in {"SELECT active", "SELECT marker", "SELECT latest", "SELECT inits"}
      BY <1>7 DEF FirstSelect, SecondSelect
    <2>2. /\ tx'[c] = (IF tx[c].mode = "begun" THEN snap ELSE tx[c])
          /\ \A d \in Conn \ {c} : tx'[d] = tx[d]
      BY <2>1 DEF TxTypes, Snapshot
    <2>3. snap.mode = "reading"
      OBVIOUS
    <2> HIDE DEF snap
    <2>4. Underway(c) /\ call[c].op \in {"active", "initialized"}
      <3>1. Underway(c)
        BY <2>1, Idle DEF CallsOK
      <3> QED  BY <2>1, <3>1, Meaning
    <2>5. ~ Begun(c) /\ ~ Begun(c)'
      <3>1. ~ Begun(c)
        BY <2>4 DEF Begun, WriteOp
      <3>2. CASE FirstSelect(c)
        BY <2>4, <3>1, <3>2, FirstSelectStep DEF Looked, SameCall, Begun, WriteOp
      <3>3. CASE SecondSelect(c)
        BY <3>1, <3>3, SecondSelectStep DEF Ended, NoCall, Begun, WriteOp
      <3> QED  BY <1>7, <3>1, <3>2, <3>3
    <2>7. Opening(c)
      BY <1>0
    <2>8. Opening(c)'
      BY <2>1, <2>2, <2>3, <2>5, <2>7 DEF Opening
    <2>9. \A d \in Conn \ {c} : call'[d] = call[d]
      BY <1>7, FirstSelectStep, SecondSelectStep DEF Looked, Ended, Apart
    <2> QED  BY <1>0, <2>1, <2>2, <2>8, <2>9, SameOpening DEF Openings
  <1>10. CASE SealSelect(c)
    <2> DEFINE snap == [mode |-> "reading", view |-> db, stale |-> FALSE]
    <2>1. Snapshot(c) /\ owed' = owed /\ Sql(c) \in {"SELECT rows", "SELECT counter"}
      BY <1>10 DEF SealSelect
    <2>2. /\ tx'[c] = (IF tx[c].mode = "begun" THEN snap ELSE tx[c])
          /\ \A d \in Conn \ {c} : tx'[d] = tx[d]
      BY <2>1 DEF TxTypes, Snapshot
    <2>3. snap.mode = "reading"
      OBVIOUS
    <2> HIDE DEF snap
    <2>4. Looked(c) \/ Ended(c)
      BY <1>10, SealSelectStep
    <2>5. ~ Begun(c) /\ ~ Begun(c)'
      <3>1. Underway(c)
        BY <2>1, Idle DEF CallsOK
      <3>2. Done(c) = 0 /\ call[c].op \in {"rows", "count"}
        BY <2>1, <3>1, Meaning
      <3>3. ~ Begun(c)
        BY <3>2 DEF Begun
      <3>4. CASE Looked(c)
        BY <3>2, <3>3, <3>4 DEF Looked, SameCall, Begun, WriteOp
      <3>5. CASE Ended(c)
        BY <3>3, <3>5 DEF Ended, NoCall, Begun, WriteOp
      <3> QED  BY <2>4, <3>3, <3>4, <3>5
    <2>7. Opening(c)
      BY <1>0
    <2>8. Opening(c)'
      BY <2>1, <2>2, <2>3, <2>5, <2>7 DEF Opening
    <2>9. \A d \in Conn \ {c} : call'[d] = call[d]
      BY <2>4 DEF Looked, Ended, Apart
    <2> QED  BY <1>0, <2>1, <2>2, <2>8, <2>9, SameOpening DEF Openings
  <1>8. CASE Raise(c) /\ ~ RolledBack(c)
    <2>1. /\ owed' = [owed EXCEPT ![c] = TRUE] /\ Returns(c)
          /\ tx' = [tx EXCEPT ![c].mode =
                 IF @ = "none" /\ Sql(c) # "COMMIT" THEN "begun" ELSE @]
      BY <1>8 DEF Raise
    <2>2. /\ owed'[c] /\ call'[c] = NoCall
          /\ \A d \in Conn \ {c} : tx'[d] = tx[d] /\ call'[d] = call[d] /\ owed'[d] = owed[d]
      BY <2>1 DEF TxTypes, Returns
    <2> QED  BY <1>0, <2>2, SameOpening, ClosedOpening DEF Openings
  <1>9. RefusedCall(c) \/ Crash(c) \/ (Raise(c) /\ RolledBack(c)) => RolledBack(c) /\ Returns(c)
    BY DEF RefusedCall, Crash, Raise
  <1> QED  BY <1>1, <1>2, <1>3, <1>4, <1>5, <1>6, <1>7, <1>8, <1>9, <1>10

LEMMA TxnOpenings == Spec => []Openings
  <1>1. Init => Openings
    BY NoTxFields, NoStatement DEF Init, Openings, Opening, Begun
  <1>2. TxTypes /\ CallsOK /\ Openings /\ [Next]_vars => Openings'
    <2>1. Openings /\ UNCHANGED vars => Openings'
      BY DEF Openings, Opening, Begun, vars, Done, Whole
    <2> QED  BY <2>1, OpeningsStep
  <1> QED  BY <1>1, <1>2, TxnTypes, PTL DEF Spec

(* A connection is left in a transaction, or with an old snapshot, only by *)
(* an operation that raised and whose handler did not roll back.           *)
THEOREM FailuresStayOpen == Spec => []OnlyFailuresStayOpen
  <1>1. TxTypes /\ Locks /\ Openings => OnlyFailuresStayOpen
    <2> SUFFICES ASSUME TxTypes, Locks, Openings, NEW c \in Conn,
                        (call[c] = NoCall /\ tx[c].mode # "none") \/ tx[c].stale
                 PROVE  owed[c]
      BY DEF OnlyFailuresStayOpen
    <2>1. Opening(c)
      BY DEF Openings
    <2>2. CASE tx[c].stale
      BY <2>1, <2>2 DEF Locks, Opening
    <2>3. CASE call[c] = NoCall /\ tx[c].mode # "none"
      BY <2>1, <2>3, NoStatement, FieldsOf DEF Opening, Begun, Fields, Modes
    <2> QED  BY <2>2, <2>3
  <1> QED  BY <1>1, TxnTypes, TxnLocks, TxnOpenings, PTL

LEMMA AppendIs ==
    ASSUME NEW S, NEW l \in Seq(S), NEW e \in S
    PROVE  LET w == Append(l, e)
           IN  /\ Len(l) \in Nat /\ w \in Seq(S) /\ Len(w) = Len(l) + 1
               /\ DOMAIN l = 1..Len(l) /\ DOMAIN w = 1..(Len(l) + 1)
               /\ w[Len(l) + 1] = e /\ \A i \in 1..Len(l) : w[i] = l[i]
  OBVIOUS

LEMMA AppendEntries ==
    ASSUME NEW c \in Conn, Underway(c), Sql(c) = "INSERT ledger", NEW d \in Database
    PROVE  LET l == d.ledger
               w == Written(c, d).ledger
           IN  /\ l \in Seq(Note) /\ Len(l) \in Nat /\ w \in Seq(Note) /\ Len(w) = Len(l) + 1
               /\ DOMAIN l = 1..Len(l) /\ DOMAIN w = 1..(Len(l) + 1)
               /\ \A i \in 1..Len(l) : w[i] = l[i]
               /\ w[Len(l) + 1] = Entry(c, l)
               /\ Written(c, d).status = d.status /\ Written(c, d).events = d.events
  <1> DEFINE l == d.ledger
             w == Written(c, d).ledger
             e == Entry(c, l)
  <1>1. e \in Note /\ l \in Seq(Note)
    BY EntryType
  <1>2. w = Append(l, e) /\ Written(c, d).status = d.status /\ Written(c, d).events = d.events
    BY EntryFields
  <1> HIDE DEF l, w, e
  <1>3. /\ Len(l) \in Nat /\ w \in Seq(Note) /\ Len(w) = Len(l) + 1
        /\ DOMAIN l = 1..Len(l) /\ DOMAIN w = 1..(Len(l) + 1)
        /\ w[Len(l) + 1] = e /\ \A i \in 1..Len(l) : w[i] = l[i]
    <2> DEFINE v == Append(l, e)
    <2>1. /\ Len(l) \in Nat /\ v \in Seq(Note) /\ Len(v) = Len(l) + 1
          /\ DOMAIN l = 1..Len(l) /\ DOMAIN v = 1..(Len(l) + 1)
          /\ v[Len(l) + 1] = e /\ \A i \in 1..Len(l) : v[i] = l[i]
      BY ONLY <1>1, AppendIs
    <2>2. w = v
      BY <1>2
    <2> HIDE DEF v
    <2> QED  BY <2>1, <2>2
  <1> QED  BY <1>1, <1>2, <1>3 DEF l, w, e

LEMMA WrittenLinked ==
    ASSUME NEW c \in Conn, Underway(c), Sql(c) \in Writes, NEW d \in Database, Linked(d)
    PROVE  Linked(Written(c, d))
  <1>1. CASE Sql(c) = "INSERT ledger"
    <2> DEFINE l == d.ledger
               w == Written(c, d).ledger
    <2>1. /\ l \in Seq(Note) /\ Len(l) \in Nat /\ DOMAIN l = 1..Len(l)
          /\ DOMAIN w = 1..(Len(l) + 1)
          /\ \A i \in 1..Len(l) : w[i] = l[i]
          /\ w[Len(l) + 1] = Entry(c, l)
      BY <1>1, AppendEntries
    <2>2. Entry(c, l).prev = Len(l)
      BY DEF Entry
    <2>3. \A i \in DOMAIN l : l[i].prev = i - 1
      BY DEF Linked
    <2> HIDE DEF l, w
    <2> SUFFICES ASSUME NEW i \in DOMAIN w
                 PROVE  w[i].prev = i - 1
      BY DEF Linked, w
    <2>4. i \in 1..Len(l) \/ i = Len(l) + 1
      BY <2>1
    <2>5. CASE i \in 1..Len(l)
      BY <2>1, <2>3, <2>5
    <2>6. CASE i = Len(l) + 1
      <3>1. i - 1 = Len(l)
        BY <2>1, <2>6
      <3> QED  BY <2>1, <2>2, <2>6, <3>1
    <2> QED  BY <2>4, <2>5, <2>6
  <1>2. CASE Sql(c) # "INSERT ledger"
    <2>1. Written(c, d).ledger = d.ledger
      BY <1>2, LedgerAlone
    <2> QED  BY <2>1 DEF Linked
  <1> QED  BY <1>1, <1>2

LEMMA ChainedStep ==
    ASSUME TxTypes, CallsOK, Chained, Next
    PROVE  Chained'
  <1>1. PICK c \in Conn : \/ Begins(c) \/ Wrote(c) \/ Skipped(c) \/ Looked(c)
                          \/ Ended(c) \/ Put(c)
    BY TypeStep
  <1>2. Linked(db) /\ \A d \in Conn : Linked(Seen(d))
    BY DEF Chained
  <1>3. CASE Begins(c) \/ Skipped(c) \/ Looked(c) \/ Ended(c)
    <2>1. db' = db /\ SameView(c) /\ (Seen(c)' = Seen(c) \/ Seen(c)' = db)
      BY <1>3 DEF Begins, Skipped, Looked, Ended, Undone, LeftOpen
    <2>2. \A d \in Conn : Seen(d)' = Seen(d) \/ Seen(d)' = db
      BY <2>1 DEF SameView
    <2>3. Linked(db') /\ \A d \in Conn : Linked(Seen(d)')
      BY <1>2, <2>1, <2>2
    <2> QED  BY <2>3 DEF Chained, Linked
  <1>4. CASE Wrote(c)
    <2>1. Linked(Written(c, Seen(c)))
      BY <1>2, <1>4, SeenType, WrittenLinked DEF Wrote
    <2>2. db' = db /\ SameView(c) /\ Seen(c)' = Written(c, Seen(c))
      BY <1>4 DEF Wrote
    <2>3. Linked(db') /\ \A d \in Conn : Linked(Seen(d)')
      BY <1>2, <2>1, <2>2 DEF SameView
    <2> QED  BY <2>3 DEF Chained, Linked
  <1>5. CASE Put(c)
    <2>1. /\ db' = db \/ db' = Seen(c)
          /\ \A d \in Conn : Seen(d)' = Seen(d) \/ Seen(d)' = db'
      BY <1>5 DEF Put
    <2>2. Linked(db') /\ \A d \in Conn : Linked(Seen(d)')
      BY <1>2, <2>1
    <2> QED  BY <2>2 DEF Chained, Linked
  <1> QED  BY <1>1, <1>3, <1>4, <1>5

(* Each entry of the restriction ledger is on the one before it, whoever   *)
(* reads the tip and whenever the append is committed: opening the store   *)
(* (_verify_restriction_ledger_chain) never fails on an untouched file.    *)
THEOREM LedgerStaysChained == Spec => []LedgerIsChained
  <1>1. Init => Chained
    <2> SUFFICES ASSUME Init
                 PROVE  Chained
      OBVIOUS
    <2>1. db.ledger = <<>> /\ \A c \in Conn : Seen(c) = db
      BY NoTxFields DEF Init, Seen
    <2> QED  BY <2>1 DEF Chained, Linked
  <1>2. TxTypes /\ CallsOK /\ Chained /\ [Next]_vars => Chained'
    <2>1. Chained /\ UNCHANGED vars => Chained'
      BY DEF Chained, Linked, vars, Seen
    <2> QED  BY <2>1, ChainedStep
  <1>3. Chained => LedgerIsChained
    BY DEF Chained, Linked, LedgerIsChained
  <1> QED  BY <1>1, <1>2, <1>3, TxnTypes, PTL DEF Spec

LEMMA OneMore ==
    ASSUME NEW n \in Nat
    PROVE  /\ n + 1 \in 1..(n + 1) /\ \A i \in 1..n : i \in 1..(n + 1)
           /\ \A i \in 1..(n + 1) : i \in 1..n \/ i = n + 1
  <1>1. n + 1 \in 1..(n + 1)
    OBVIOUS
  <1>2. \A i \in 1..n : i \in 1..(n + 1)
    OBVIOUS
  <1>3. \A i \in 1..(n + 1) : i \in 1..n \/ i = n + 1
    OBVIOUS
  <1> QED  BY <1>1, <1>2, <1>3

LEMMA StatusWritten ==
    ASSUME NEW c \in Conn, NEW d \in Database, Sql(c) \in {"INSERT restriction", "UPDATE status"}
    PROVE  LET w == Written(c, d)
           IN  /\ Sql(c) = "INSERT restriction" => w.status = [d.status EXCEPT ![call[c].arg] = "ACTIVE"]
               /\ Sql(c) = "UPDATE status" =>
                      w.status = [d.status EXCEPT ![call[c].arg] = NewStatus(call[c].op)]
               /\ w.events = d.events /\ w.ledger = d.ledger
  <1>1. Sql(c) \in Writes
    BY DEF Writes
  <1> QED  BY <1>1, WrittenFields

LEMMA EventWritten ==
    ASSUME NEW c \in Conn, NEW d \in Database, Sql(c) = "INSERT event"
    PROVE  LET w == Written(c, d)
           IN  /\ w.events = d.events \cup {<<call[c].arg, Event(call[c].op)>>}
               /\ w.status = d.status /\ w.ledger = d.ledger
  <1>1. Sql(c) \in Writes
    BY DEF Writes
  <1> QED  BY <1>1, WrittenFields

LEMMA OtherWritten ==
    ASSUME NEW c \in Conn, NEW d \in Database, Sql(c) \in Writes,
           Sql(c) \notin {"INSERT restriction", "UPDATE status", "INSERT event", "INSERT ledger"}
    PROVE  LET w == Written(c, d)
           IN  w.status = d.status /\ w.events = d.events /\ w.ledger = d.ledger
  BY WrittenFields

LEMMA HalfImposed ==
    ASSUME NEW c \in Conn, Underway(c), Imposing(c)
    PROVE  /\ Done(c) = 1 => Sql(c) = "INSERT event"
           /\ Done(c) = 2 => Sql(c) = "INSERT ledger"
           /\ Sql(c) \in {"INSERT event", "INSERT ledger"}
  <1>1. call[c].op = "impose" /\ (Done(c) = 1 \/ Done(c) = 2)
    BY DEF Imposing
  <1>2. \/ Done(c) = 0 \/ Done(c) = 3
        \/ Done(c) = 1 /\ Sql(c) = "INSERT event"
        \/ Done(c) = 2 /\ Sql(c) = "INSERT ledger"
    BY <1>1, ShortPosition
  <1> QED  BY <1>1, <1>2, ZeroOne

Imposal(d, r) == \E i \in DOMAIN d.ledger : d.ledger[i].rid = r /\ d.ledger[i].event = "IMPOSED"

LEMMA MatchedIs ==
    ASSUME NEW d, NEW r
    PROVE  Matched(d, r) <=> /\ d.status[r] = "none" => <<r, "IMPOSED">> \notin d.events /\ ~ Imposal(d, r)
                             /\ d.status[r] # "none" => <<r, "IMPOSED">> \in d.events /\ Imposal(d, r)
  BY DEF Matched, UnknownTo, ImposedIn, Imposal

LEMMA SameMatched ==
    ASSUME NEW d, NEW e, NEW r, Imposal(d, r) <=> Imposal(e, r),
           <<r, "IMPOSED">> \in d.events <=> <<r, "IMPOSED">> \in e.events,
           (d.status[r] # "none") <=> (e.status[r] # "none"), Matched(d, r)
    PROVE  Matched(e, r)
  BY MatchedIs

LEMMA SameImposal ==
    ASSUME NEW d, NEW e, d.ledger = e.ledger, NEW r
    PROVE  Imposal(d, r) <=> Imposal(e, r)
  BY DEF Imposal

LEMMA WrittenImposed ==
    ASSUME NEW c \in Conn, Underway(c), Sql(c) \in Writes, NEW d \in Database, ImposedBy(c, d),
           Sql(c) = "UPDATE status" => d.status[call[c].arg] = "ACTIVE"
    PROVE  LET w == Written(c, d)
           IN  \A r \in Rid :
                   IF /\ Sql(c) \in {"INSERT restriction", "INSERT event"}
                      /\ call[c].op = "impose" /\ r = call[c].arg
                   THEN /\ w.status[r] # "none"
                        /\ Sql(c) = "INSERT event" => <<r, "IMPOSED">> \in w.events
                   ELSE Matched(w, r)
  <1>0. d.status \in [Rid -> Status]
    BY DEF Database
  <1>1. CASE Sql(c) = "INSERT restriction"
    <2>1. ~ Imposing(c) /\ call[c].arg \in Rid /\ call[c].op = "impose"
      <3>1. call[c].op = "impose" /\ Done(c) = 0
        BY <1>1, Meaning
      <3>2. call[c].arg \in Rid
        BY <3>1, SomeCall DEF Underway
      <3>3. Done(c) # 1 /\ Done(c) # 2
        BY <3>1, ZeroOne
      <3> QED  BY <3>1, <3>2, <3>3 DEF Imposing
    <2>2. \A r \in Rid : Matched(d, r)
      BY <2>1 DEF ImposedBy
    <2>3. /\ Written(c, d).status = [d.status EXCEPT ![call[c].arg] = "ACTIVE"]
          /\ Written(c, d).ledger = d.ledger /\ Written(c, d).events = d.events
      BY <1>1, StatusWritten
    <2>4. Written(c, d).status[call[c].arg] # "none"
      BY <1>0, <2>1, <2>3
    <2>5. ASSUME NEW r \in Rid, r # call[c].arg
          PROVE  Matched(Written(c, d), r)
      <3>1. Written(c, d).status[r] = d.status[r]
        BY <1>0, <2>3, <2>5
      <3> QED  BY <2>2, <2>3, <3>1, SameMatched, SameImposal
    <2> QED  BY <1>1, <2>1, <2>4, <2>5
  <1>2. CASE Sql(c) = "UPDATE status"
    <2>1. ~ Imposing(c) /\ call[c].arg \in Rid /\ call[c].op \in {"expire", "clear"}
      BY <1>2, Meaning, SomeCall DEF Imposing, Underway
    <2>2. \A r \in Rid : Matched(d, r)
      BY <2>1 DEF ImposedBy
    <2>3. /\ Written(c, d).status = [d.status EXCEPT ![call[c].arg] = NewStatus(call[c].op)]
          /\ Written(c, d).ledger = d.ledger /\ Written(c, d).events = d.events
      BY <1>2, StatusWritten
    <2>4. NewStatus(call[c].op) # "none"
      BY DEF NewStatus
    <2>5. ASSUME NEW r \in Rid
          PROVE  Matched(Written(c, d), r)
      <3>1. (Written(c, d).status[r] # "none") <=> (d.status[r] # "none")
        BY <1>0, <1>2, <2>1, <2>3, <2>4
      <3> QED  BY <2>2, <2>3, <3>1, SameMatched, SameImposal
    <2> QED  BY <1>2, <2>5
  <1>3. CASE Sql(c) = "INSERT event"
    <2>1. /\ Written(c, d).events = d.events \cup {<<call[c].arg, Event(call[c].op)>>}
          /\ Written(c, d).status = d.status /\ Written(c, d).ledger = d.ledger
      BY <1>3, EventWritten
    <2>2. /\ Done(c) = 1 /\ call[c].op \in {"impose", "expire", "clear"}
          /\ (Event(call[c].op) = "IMPOSED" <=> call[c].op = "impose")
      BY <1>3, Meaning DEF Event, NewStatus
    <2>3. ASSUME NEW r \in Rid
          PROVE  IF call[c].op = "impose" /\ r = call[c].arg
                 THEN Written(c, d).status[r] # "none" /\ <<r, "IMPOSED">> \in Written(c, d).events
                 ELSE Matched(Written(c, d), r)
      <3>1. CASE call[c].op = "impose" /\ r = call[c].arg
        <4>1. Imposing(c)
          BY <2>2, <3>1 DEF Imposing
        <4>2. d.status[r] # "none"
          BY <3>1, <4>1 DEF ImposedBy
        <4> QED  BY <2>1, <2>2, <3>1, <4>2
      <3>2. CASE ~ (call[c].op = "impose" /\ r = call[c].arg)
        <4>1. Matched(d, r)
          BY <3>2 DEF ImposedBy, Imposing
        <4>2. <<call[c].arg, Event(call[c].op)>> # <<r, "IMPOSED">>
          BY <2>2, <3>2
        <4>3. <<r, "IMPOSED">> \in Written(c, d).events <=> <<r, "IMPOSED">> \in d.events
          BY <2>1, <4>2
        <4> QED  BY <2>1, <3>2, <4>1, <4>3, SameMatched, SameImposal
      <3> QED  BY <3>1, <3>2
    <2> QED  BY <1>3, <2>3
  <1>4. CASE Sql(c) = "INSERT ledger"
    <2> DEFINE l == d.ledger
               w == Written(c, d).ledger
    <2>1. /\ Len(l) \in Nat /\ DOMAIN l = 1..Len(l) /\ DOMAIN w = 1..(Len(l) + 1)
          /\ \A i \in 1..Len(l) : w[i] = l[i]
          /\ w[Len(l) + 1] = Entry(c, l)
          /\ Written(c, d).status = d.status /\ Written(c, d).events = d.events
      BY <1>4, AppendEntries
    <2>2. Entry(c, l).rid = call[c].arg /\ Entry(c, l).event = Event(call[c].op)
      BY DEF Entry
    <2>3. /\ call[c].op \in {"impose", "expire", "clear"} /\ Done(c) = 2
          /\ (Event(call[c].op) = "IMPOSED" <=> call[c].op = "impose")
      BY <1>4, Meaning DEF Event, NewStatus
    <2>4. Len(l) + 1 \in DOMAIN w /\ \A i \in DOMAIN l : i \in DOMAIN w
      BY <2>1, OneMore
    <2>5. \A i \in DOMAIN w : i \in DOMAIN l \/ i = Len(l) + 1
      BY <2>1, OneMore
    <2>6. ASSUME NEW r \in Rid
          PROVE  Matched(Written(c, d), r)
      <3>1. CASE Imposing(c) /\ r = call[c].arg
        <4>1. d.status[r] # "none" /\ call[c].op = "impose" /\ <<r, "IMPOSED">> \in d.events
          BY <2>3, <3>1 DEF ImposedBy, Imposing
        <4>2. w[Len(l) + 1].rid = r /\ w[Len(l) + 1].event = "IMPOSED"
          BY <2>1, <2>2, <2>3, <3>1, <4>1
        <4>3. Imposal(Written(c, d), r)
          BY <2>4, <4>2 DEF Imposal
        <4> QED  BY <2>1, <4>1, <4>3, MatchedIs
      <3>2. CASE ~ (Imposing(c) /\ r = call[c].arg)
        <4>1. Matched(d, r)
          BY <3>2 DEF ImposedBy
        <4>2. ~ (w[Len(l) + 1].rid = r /\ w[Len(l) + 1].event = "IMPOSED")
          BY <2>1, <2>2, <2>3, <3>2 DEF Imposing
        <4>3. (\E i \in DOMAIN w : w[i].rid = r /\ w[i].event = "IMPOSED")
                  <=> \E i \in DOMAIN l : l[i].rid = r /\ l[i].event = "IMPOSED"
          BY <2>1, <2>4, <2>5, <4>2
        <4>4. Imposal(d, r) <=> Imposal(Written(c, d), r)
          BY <4>3 DEF Imposal
        <4> QED  BY <2>1, <4>1, <4>4, SameMatched
      <3> QED  BY <3>1, <3>2
    <2> QED  BY <1>4, <2>6
  <1>5. CASE Sql(c) \notin {"INSERT restriction", "UPDATE status", "INSERT event", "INSERT ledger"}
    <2>1. ~ Imposing(c)
      BY <1>5, HalfImposed
    <2>2. /\ Written(c, d).status = d.status /\ Written(c, d).ledger = d.ledger
          /\ Written(c, d).events = d.events
      BY <1>5, OtherWritten
    <2>3. ASSUME NEW r \in Rid
          PROVE  Matched(Written(c, d), r)
      <3>1. Matched(d, r)
        BY <2>1 DEF ImposedBy
      <3> QED  BY <2>2, <3>1, SameMatched, SameImposal
    <2> QED  BY <1>5, <2>3
  <1> QED  BY <1>1, <1>2, <1>3, <1>4, <1>5

LEMMA Successor ==
    ASSUME NEW n, NEW m, m = n + 1
    PROVE  /\ (n = 0 => m = 1) /\ (n = 1 => m = 2) /\ (n = 2 => m = 3)
           /\ n \in Int => (m = 1 => n = 0) /\ (m = 2 => n = 1)
  OBVIOUS

LEMMA SameCallDone ==
    ASSUME NEW c \in Conn, call'[c] = call[c]
    PROVE  Done(c)' = Done(c) /\ Whole(c)' = Whole(c) /\ Sql(c)' = Sql(c) /\ (Imposing(c)' <=> Imposing(c))
  BY DEF Done, Whole, Sql, Imposing

LEMMA SameImposed ==
    ASSUME NEW c \in Conn, call'[c] = call[c], NEW d, ImposedBy(c, d)
    PROVE  \A r \in Rid :
               IF Imposing(c)' /\ r = call'[c].arg
               THEN d.status[r] # "none" /\ (Done(c)' = 2 => <<r, "IMPOSED">> \in d.events)
               ELSE Matched(d, r)
  BY SameCallDone DEF ImposedBy

LEMMA NotImposing ==
    ASSUME NEW c \in Conn, ~ Imposing(c), NEW d
    PROVE  ImposedBy(c, d) <=> AllMatched(d)
  BY DEF ImposedBy, AllMatched

(* Between the two statements the transaction holds what was written.      *)
LEMMA ImposingWrites ==
    ASSUME NEW c \in Conn, Openings, Imposing(c)
    PROVE  HasView(c)
  <1>1. call[c].op = "impose" /\ (Done(c) = 1 \/ Done(c) = 2)
    BY DEF Imposing
  <1>2. Done(c) # 0
    BY <1>1, ZeroOne
  <1>3. Begun(c)
    BY <1>1, <1>2 DEF Begun, WriteOp
  <1> QED  BY <1>3 DEF Openings, Opening, HasView

LEMMA NotImposingAfter ==
    ASSUME NEW c \in Conn, call'[c] = NoCall \/ Done(c)' = 0 \/ call'[c].op # "impose" \/ Done(c)' = 3
    PROVE  ~ Imposing(c)'
  <1>1. CASE call'[c] = NoCall
    BY <1>1 DEF Imposing, NoCall
  <1>2. CASE call'[c].op # "impose"
    BY <1>2 DEF Imposing
  <1>3. CASE Done(c)' = 0 \/ Done(c)' = 3
    <2>1. Done(c)' # 1 /\ Done(c)' # 2
      BY <1>3, ZeroOne
    <2> QED  BY <2>1 DEF Imposing
  <1> QED  BY <1>1, <1>2, <1>3

ImposedNext(c) ==
    \A r \in Rid :
        IF Imposing(c)' /\ r = call'[c].arg
        THEN Seen(c)'.status[r] # "none" /\ (Done(c)' = 2 => <<r, "IMPOSED">> \in Seen(c)'.events)
        ELSE Matched(Seen(c)', r)

LEMMA ImposedOnward ==
    ASSUME AllMatched(db'), \A c \in Conn : ImposedNext(c)
    PROVE  Imposed'
  BY DEF ImposedNext, Imposed, ImposedBy, AllMatched, Matched, UnknownTo, ImposedIn

LEMMA ImposedStep ==
    ASSUME TxTypes, CallsOK, Openings, Imposed, Next
    PROVE  Imposed'
  <1>1. PICK c \in Conn : \/ Begins(c) \/ Wrote(c) \/ Skipped(c) \/ Looked(c)
                          \/ Ended(c) \/ Put(c)
    BY TypeStep
  <1>2. AllMatched(db) /\ \A d \in Conn : ImposedBy(d, Seen(d))
    BY DEF Imposed
  <1>3. ASSUME NEW d \in Conn, call'[d] = call[d], Seen(d)' = Seen(d)
        PROVE  ImposedNext(d)
    BY <1>2, <1>3, SameImposed DEF ImposedNext
  <1>4. ASSUME NEW d \in Conn, ~ Imposing(d)', AllMatched(Seen(d)')
        PROVE  ImposedNext(d)
    BY <1>4 DEF ImposedNext, AllMatched
  <1>5. ASSUME db' = db, Apart(c), SameView(c), ImposedNext(c)
        PROVE  Imposed'
    <2>1. \A d \in Conn \ {c} : ImposedNext(d)
      BY <1>3, <1>5 DEF Apart, SameView
    <2> QED  BY <1>2, <1>5, <2>1, ImposedOnward
  <1>6. CASE Begins(c) \/ Skipped(c) \/ Looked(c)
    <2>1. db' = db /\ Apart(c) /\ SameView(c) /\ Seen(c)' = Seen(c)
      BY <1>6 DEF Begins, Skipped, Looked
    <2>2. ~ Imposing(c) /\ ~ Imposing(c)'
      <3>1. CASE Begins(c)
        BY <3>1, NoStatement, NotImposingAfter DEF Begins, Imposing
      <3>2. CASE Skipped(c)
        <4>1. call[c].op # "impose" /\ call'[c].op = call[c].op
          BY <3>2, Meaning DEF Skipped, Skipping, SameCall
        <4> QED  BY <4>1 DEF Imposing
      <3>3. CASE Looked(c)
        <4>1. call[c].op # "impose" /\ call'[c].op = call[c].op
          BY <3>3, Meaning DEF Looked, SameCall
        <4> QED  BY <4>1 DEF Imposing
      <3> QED  BY <1>6, <3>1, <3>2, <3>3
    <2>3. AllMatched(Seen(c)')
      BY <1>2, <2>1, <2>2, NotImposing
    <2> QED  BY <1>4, <1>5, <2>1, <2>2, <2>3
  <1>7. CASE Ended(c)
    <2>1. db' = db /\ Apart(c) /\ SameView(c) /\ ~ Imposing(c)'
      BY <1>7, NotImposingAfter DEF Ended
    <2>2. AllMatched(Seen(c)')
      <3>1. CASE Undone(c)
        BY <1>2, <3>1 DEF Undone
      <3>2. CASE LeftOpen(c)
        <4>1. ~ Imposing(c) /\ Seen(c)' = Seen(c)
          BY <3>2 DEF LeftOpen, Imposing
        <4> QED  BY <1>2, <4>1, NotImposing
      <3> QED  BY <1>7, <3>1, <3>2 DEF Ended
    <2> QED  BY <1>4, <1>5, <2>1, <2>2
  <1>8. CASE Wrote(c)
    <2>1. /\ Sql(c) \in Writes /\ ~ Refused(c) /\ Underway(c) /\ Done(c)' = Done(c) + 1
          /\ call'[c].op = call[c].op /\ call'[c].arg = call[c].arg
          /\ Seen(c)' = Written(c, Seen(c)) /\ db' = db /\ Apart(c) /\ SameView(c)
      BY <1>8 DEF Wrote, SameCall
    <2>2. Sql(c) = "UPDATE status" => Seen(c).status[call[c].arg] = "ACTIVE"
      BY <2>1 DEF Refused
    <2>3. \A r \in Rid :
              IF /\ Sql(c) \in {"INSERT restriction", "INSERT event"}
                 /\ call[c].op = "impose" /\ r = call[c].arg
              THEN /\ Seen(c)'.status[r] # "none"
                   /\ Sql(c) = "INSERT event" => <<r, "IMPOSED">> \in Seen(c)'.events
              ELSE Matched(Seen(c)', r)
      BY <1>2, <2>1, <2>2, SeenType, WrittenImposed
    <2>4. Sql(c) \in {"INSERT restriction", "INSERT event"} /\ call[c].op = "impose"
              => Imposing(c)' /\ (Done(c)' = 2 => Sql(c) = "INSERT event")
      <3>1. /\ Sql(c) = "INSERT restriction" => Done(c) = 0
            /\ Sql(c) = "INSERT event" => Done(c) = 1
        BY <2>1, Meaning
      <3>2. (Done(c) = 0 => Done(c)' = 1) /\ (Done(c) = 1 => Done(c)' = 2)
        BY <2>1, Successor
      <3>3. Done(c)' = 1 => Done(c)' # 2
        BY ZeroOne
      <3> QED  BY <2>1, <3>1, <3>2, <3>3 DEF Imposing
    <2>5. Imposing(c)' => Sql(c) \in {"INSERT restriction", "INSERT event"} /\ call[c].op = "impose"
      <3>1. Imposing(c)' => (Done(c) = 0 \/ Done(c) = 1) /\ call[c].op = "impose"
        <4>1. Done(c) \in Int
          BY <2>1 DEF Underway
        <4>2. (Done(c)' = 1 => Done(c) = 0) /\ (Done(c)' = 2 => Done(c) = 1)
          BY <2>1, <4>1, Successor
        <4> QED  BY <2>1, <4>2 DEF Imposing
      <3>2. ASSUME Done(c) = 0 \/ Done(c) = 1, call[c].op = "impose"
            PROVE  Sql(c) \in {"INSERT restriction", "INSERT event"}
        <4>1. \/ Done(c) = 0 /\ Sql(c) = "INSERT restriction"
              \/ Done(c) = 1 /\ Sql(c) = "INSERT event"
              \/ Done(c) = 2 \/ Done(c) = 3
          BY <2>1, <3>2, ShortPosition
        <4> QED  BY <3>2, <4>1, ZeroOne
      <3> QED  BY <3>1, <3>2
    <2>6. ImposedNext(c)
      <3> SUFFICES ASSUME NEW r \in Rid
                   PROVE  IF Imposing(c)' /\ r = call'[c].arg
                          THEN /\ Seen(c)'.status[r] # "none"
                               /\ Done(c)' = 2 => <<r, "IMPOSED">> \in Seen(c)'.events
                          ELSE Matched(Seen(c)', r)
        BY DEF ImposedNext
      <3>1. CASE Imposing(c)' /\ r = call'[c].arg
        BY <2>1, <2>3, <2>4, <2>5, <3>1
      <3>2. CASE ~ (Imposing(c)' /\ r = call'[c].arg)
        BY <2>1, <2>3, <2>4, <3>2
      <3> QED  BY <3>1, <3>2
    <2> QED  BY <1>5, <2>1, <2>6
  <1>9. CASE Put(c)
    <2>1. /\ Sql(c) = "COMMIT" /\ Underway(c) /\ call'[c] = NoCall /\ Apart(c)
          /\ db' = db \/ db' = Seen(c)
          /\ Seen(c)' = db'
          /\ \A d \in Conn \ {c} : Seen(d)' = IF HasView(d) THEN Seen(d) ELSE db'
      BY <1>9 DEF Put
    <2>2. ~ Imposing(c) /\ ~ Imposing(c)'
      BY <2>1, HalfImposed, NotImposingAfter
    <2>3. AllMatched(db') /\ AllMatched(Seen(c)')
      BY <1>2, <2>1, <2>2, NotImposing
    <2>4. ASSUME NEW d \in Conn \ {c}
          PROVE  ImposedNext(d)
      <3>1. call'[d] = call[d] /\ Seen(d)' = IF HasView(d) THEN Seen(d) ELSE db'
        BY <2>1 DEF Apart
      <3>2. CASE HasView(d)
        BY <1>3, <3>1, <3>2
      <3>3. CASE ~ HasView(d)
        <4>1. ~ Imposing(d)'
          BY <3>1, <3>3, ImposingWrites, SameCallDone
        <4> QED  BY <1>4, <2>3, <3>1, <3>3, <4>1
      <3> QED  BY <3>2, <3>3
    <2>5. ImposedNext(c)
      BY <1>4, <2>2, <2>3
    <2> QED  BY <2>3, <2>4, <2>5, ImposedOnward
  <1> QED  BY <1>1, <1>6, <1>7, <1>8, <1>9

(* impose_restriction commits its row, its event and its IMPOSED entry     *)
(* together or not at all, whatever other calls of the connection leave    *)
(* open.                                                                   *)
THEOREM ImposeStaysWhole == Spec => []ImposeIsWhole
  <1>1. Init => Imposed
    <2> SUFFICES ASSUME Init
                 PROVE  Imposed
      OBVIOUS
    <2>1. /\ db.ledger = <<>> /\ db.events = {} /\ \A r \in Rid : db.status[r] = "none"
          /\ \A c \in Conn : Seen(c) = db
      BY NoTxFields DEF Init, Seen
    <2>2. \A c \in Conn : ~ Imposing(c)
      BY NoStatement DEF Init, Imposing
    <2>3. AllMatched(db)
      BY <2>1 DEF AllMatched, Matched, UnknownTo
    <2> QED  BY <2>1, <2>2, <2>3, NotImposing DEF Imposed
  <1>2. TxTypes /\ CallsOK /\ Openings /\ Imposed /\ [Next]_vars => Imposed'
    <2>1. Imposed /\ UNCHANGED vars => Imposed'
      BY DEF Imposed, ImposedBy, AllMatched, Matched, UnknownTo, ImposedIn, Imposing, vars, Seen,
             Done, Whole
    <2> QED  BY <2>1, ImposedStep
  <1>3. Imposed => ImposeIsWhole
    BY DEF Imposed, AllMatched, Matched, ImposeIsWhole
  <1> QED  BY <1>1, <1>2, <1>3, TxnTypes, TxnOpenings, PTL DEF Spec

------------------------------------------------------------------------------
(* The same three facts for a transition between its two statements.       *)
LEMMA HalfMoved ==
    ASSUME NEW c \in Conn, Underway(c), Moving(c)
    PROVE  /\ Done(c) = 1 => Sql(c) = "INSERT event"
           /\ Done(c) = 2 => Sql(c) = "INSERT ledger"
           /\ Sql(c) \in {"INSERT event", "INSERT ledger"}
  <1>1. call[c].op \in {"expire", "clear"} /\ (Done(c) = 1 \/ Done(c) = 2)
    BY DEF Moving
  <1>2. \/ Done(c) = 0 \/ Done(c) = 3
        \/ Done(c) = 1 /\ Sql(c) = "INSERT event"
        \/ Done(c) = 2 /\ Sql(c) = "INSERT ledger"
    BY <1>1, ShortPosition
  <1> QED  BY <1>1, <1>2, ZeroOne

LEMMA BegunWrites ==
    ASSUME NEW c \in Conn, Openings, Begun(c)
    PROVE  HasView(c) /\ tx[c].mode = "writing" /\ call[c].op \in WriteOp /\ Done(c) # 0
  BY DEF Openings, Opening, HasView, Begun

LEMMA MovingWrites ==
    ASSUME NEW c \in Conn, Openings, Moving(c) \/ Filling(c)
    PROVE  HasView(c) /\ tx[c].mode = "writing" /\ call[c].op \in WriteOp /\ Done(c) # 0
  <1>1. /\ call[c].op \in {"expire", "clear", "initialize", "replace"}
        /\ Done(c) # 0
    BY ZeroOne DEF Moving, Filling, Long
  <1>2. Begun(c)
    BY <1>1 DEF Begun, WriteOp
  <1> QED  BY <1>2, BegunWrites

LEMMA NotMovingAfter ==
    ASSUME NEW c \in Conn, \/ call'[c] = NoCall \/ Done(c)' = 0 \/ Done(c)' = 3
                           \/ call'[c].op \notin {"expire", "clear"}
    PROVE  ~ Moving(c)'
  <1>1. CASE call'[c] = NoCall
    BY <1>1 DEF Moving, NoCall
  <1>2. CASE Done(c)' = 0 \/ Done(c)' = 3
    <2>1. Done(c)' # 1 /\ Done(c)' # 2
      BY <1>2, ZeroOne
    <2> QED  BY <2>1 DEF Moving
  <1>3. CASE call'[c].op \notin {"expire", "clear"}
    BY <1>3 DEF Moving
  <1> QED  BY <1>1, <1>2, <1>3

LEMMA MovingSame ==
    ASSUME NEW c \in Conn, call'[c] = call[c]
    PROVE  (Moving(c)' <=> Moving(c)) /\ (Filling(c)' <=> Filling(c))
  BY SameCallDone DEF Moving, Filling

(* A call that stops short of its commit and leaves its transaction open,  *)
(* without the halves being let in, has written nothing or all of it.      *)
LEMMA LeftWhole ==
    ASSUME NEW c \in Conn, Openings, LeftOpen(c), ~ partial'
    PROVE  ~ Moving(c) /\ ~ Imposing(c) /\ (Filling(c) => Sql(c) = "COMMIT") /\ Seen(c)' = Seen(c)
  <1>1. ~ Imposing(c) /\ Seen(c)' = Seen(c) /\ Underway(c)
    BY DEF LeftOpen, Imposing
  <1>2. \/ Sql(c) = "COMMIT" \/ Sql(c) = "UPSERT counter" \/ call[c].op \notin WriteOp
        \/ Done(c) = 0 \/ tx[c].mode # "writing"
    BY DEF LeftOpen
  <1>3. CASE Sql(c) = "COMMIT"
    BY <1>1, <1>3, HalfMoved
  <1>4. CASE Sql(c) = "UPSERT counter"
    <2>1. call[c].op = "count"
      BY <1>1, <1>4, Meaning
    <2> QED  BY <1>1, <2>1 DEF Moving, Filling, Long
  <1>5. CASE Sql(c) \notin {"COMMIT", "UPSERT counter"}
    BY <1>1, <1>2, <1>5, MovingWrites
  <1> QED  BY <1>3, <1>4, <1>5

LEMMA Larger ==
    ASSUME NEW n \in Nat
    PROVE  \A i \in 1..n : n + 1 > i
  OBVIOUS

LEMMA LedgerRids ==
    ASSUME NEW d \in Database
    PROVE  \A i \in DOMAIN d.ledger : d.ledger[i].rid \in Rid
  <1>1. d.ledger \in Seq(Note)
    BY DEF Database
  <1>2. \A i \in DOMAIN d.ledger : d.ledger[i] \in Note
    BY <1>1
  <1> QED  BY <1>2 DEF Note

LEMMA AppendListed ==
    ASSUME NEW c \in Conn, Underway(c), Sql(c) = "INSERT ledger", NEW d \in Database,
           ListedBut(d, {call[c].arg}),
           call[c].op = "impose" => d.status[call[c].arg] = "ACTIVE"
    PROVE  ListedBut(Written(c, d), {})
  <1> DEFINE l == d.ledger
             w == Written(c, d).ledger
             n == Len(l)
  <1>1. /\ n \in Nat /\ DOMAIN l = 1..n /\ DOMAIN w = 1..(n + 1)
        /\ \A i \in 1..n : w[i] = l[i]
        /\ w[n + 1] = Entry(c, l)
        /\ Written(c, d).status = d.status
    BY AppendEntries
  <1>2. Entry(c, l).rid = call[c].arg /\ Entry(c, l).event = Event(call[c].op)
    BY DEF Entry
  <1>3. Event(call[c].op) = "IMPOSED" => call[c].op = "impose"
    BY Meaning DEF Event, NewStatus
  <1>4. \A i \in DOMAIN l : IsLatest(i, l) /\ l[i].event = "IMPOSED" /\ l[i].rid # call[c].arg
            => d.status[l[i].rid] = "ACTIVE"
    BY DEF ListedBut
  <1> HIDE DEF l, w, n
  <1>5. n + 1 \in 1..(n + 1) /\ (\A i \in 1..n : i \in 1..(n + 1) /\ n + 1 > i)
        /\ \A i \in 1..(n + 1) : i \in 1..n \/ i = n + 1
    BY <1>1, OneMore, Larger
  <1> SUFFICES ASSUME NEW i \in DOMAIN w, IsLatest(i, w), w[i].event = "IMPOSED"
               PROVE  d.status[w[i].rid] = "ACTIVE"
    BY <1>1 DEF ListedBut, w
  <1>6. CASE i \in 1..n
    <2>1. w[n + 1].rid # w[i].rid /\ w[i] = l[i]
      BY <1>1, <1>5, <1>6 DEF IsLatest
    <2>2. l[i].rid # call[c].arg
      BY <1>1, <1>2, <2>1 DEF n, l
    <2>3. IsLatest(i, l)
      BY <1>1, <1>5, <1>6 DEF IsLatest
    <2> QED  BY <1>1, <1>4, <1>6, <2>1, <2>2, <2>3
  <1>7. CASE i = n + 1
    <2>1. w[i] = Entry(c, l)
      BY <1>1, <1>7
    <2> QED  BY <1>2, <1>3, <2>1 DEF l
  <1> QED  BY <1>1, <1>5, <1>6, <1>7

LEMMA SameListed ==
    ASSUME NEW d, NEW e, NEW S, ListedBut(d, S), e.ledger = d.ledger, e.status = d.status
    PROVE  ListedBut(e, S)
  BY DEF ListedBut

(* A statement that changes a row of restrictions or records its event.    *)
Starting(c) == Sql(c) \in {"INSERT restriction", "INSERT event"} /\ call[c].op = "impose"
Changing(c) ==
    Sql(c) = "UPDATE status" \/ (Sql(c) = "INSERT event" /\ call[c].op \in {"expire", "clear"})

LEMMA WrittenListed ==
    ASSUME NEW c \in Conn, Underway(c), Sql(c) \in Writes, NEW d \in Database, ListedBy(c, d)
    PROVE  /\ ListedBut(Written(c, d), IF Changing(c) THEN {call[c].arg} ELSE {})
           /\ Starting(c) => Written(c, d).status[call[c].arg] = "ACTIVE"
  <1>0. d.status \in [Rid -> Status]
    BY DEF Database
  <1>1. CASE Sql(c) = "INSERT restriction"
    <2>1. ~ Moving(c) /\ call[c].arg \in Rid /\ ~ Changing(c)
      <3>1. call[c].op = "impose" /\ Done(c) = 0
        BY <1>1, Meaning
      <3>2. call[c].arg \in Rid
        BY <3>1, SomeCall DEF Underway
      <3> QED  BY <1>1, <3>1, <3>2 DEF Moving, Changing
    <2>2. ListedBut(d, {})
      BY <2>1 DEF ListedBy
    <2>3. /\ Written(c, d).status = [d.status EXCEPT ![call[c].arg] = "ACTIVE"]
          /\ Written(c, d).ledger = d.ledger
      BY <1>1, StatusWritten
    <2>4. \A r : d.status[r] = "ACTIVE" /\ r \in Rid => Written(c, d).status[r] = "ACTIVE"
      BY <1>0, <2>3
    <2>5. \A i \in DOMAIN d.ledger : d.ledger[i].rid \in Rid
      BY LedgerRids
    <2>6. ListedBut(Written(c, d), {})
      BY <2>2, <2>3, <2>4, <2>5 DEF ListedBut
    <2>7. Written(c, d).status[call[c].arg] = "ACTIVE"
      BY <1>0, <2>1, <2>3
    <2> QED  BY <2>1, <2>6, <2>7
  <1>2. CASE Sql(c) = "UPDATE status"
    <2>1. ~ Moving(c) /\ Changing(c) /\ ~ Starting(c)
      <3>1. Done(c) = 0
        BY <1>2, Meaning
      <3>2. Done(c) # 1 /\ Done(c) # 2
        BY <3>1, ZeroOne
      <3> QED  BY <1>2, <3>2 DEF Moving, Changing, Starting
    <2>2. ListedBut(d, {})
      BY <2>1 DEF ListedBy
    <2>3. /\ Written(c, d).status = [d.status EXCEPT ![call[c].arg] = NewStatus(call[c].op)]
          /\ Written(c, d).ledger = d.ledger
      BY <1>2, StatusWritten
    <2>4. \A r : r # call[c].arg /\ r \in Rid => Written(c, d).status[r] = d.status[r]
      BY <1>0, <2>3
    <2>5. \A i \in DOMAIN d.ledger : d.ledger[i].rid \in Rid
      BY LedgerRids
    <2>6. ListedBut(Written(c, d), {call[c].arg})
      BY <2>2, <2>3, <2>4, <2>5 DEF ListedBut
    <2> QED  BY <2>1, <2>6
  <1>3. CASE Sql(c) = "INSERT event"
    <2>1. call[c].op \in {"impose", "expire", "clear"} /\ Done(c) = 1
      BY <1>3, Meaning
    <2>2. Written(c, d).status = d.status /\ Written(c, d).ledger = d.ledger
      BY <1>3, EventWritten
    <2>3. Starting(c) <=> Imposing(c)
      BY <1>3, <2>1 DEF Starting, Imposing
    <2>4. Changing(c) <=> Moving(c)
      BY <1>3, <2>1 DEF Changing, Moving
    <2>5. ListedBut(d, IF Changing(c) THEN {call[c].arg} ELSE {})
      BY <2>4 DEF ListedBy
    <2>6. Starting(c) => d.status[call[c].arg] = "ACTIVE"
      BY <2>3 DEF ListedBy
    <2> QED  BY <2>2, <2>5, <2>6, SameListed
  <1>4. CASE Sql(c) = "INSERT ledger"
    <2>1. call[c].op \in {"impose", "expire", "clear"} /\ Done(c) = 2
      BY <1>4, Meaning
    <2>2. ListedBut(d, {call[c].arg})
      BY DEF ListedBy, ListedBut
    <2>3. call[c].op = "impose" => d.status[call[c].arg] = "ACTIVE"
      BY <2>1 DEF ListedBy, Imposing
    <2>4. ~ Changing(c) /\ ~ Starting(c)
      BY <1>4 DEF Changing, Starting
    <2> QED  BY <1>4, <2>2, <2>3, <2>4, AppendListed
  <1>5. CASE Sql(c) \notin {"INSERT restriction", "UPDATE status", "INSERT event", "INSERT ledger"}
    <2>1. ~ Moving(c)
      BY <1>5, HalfMoved
    <2>2. Written(c, d).status = d.status /\ Written(c, d).ledger = d.ledger
      BY <1>5, OtherWritten
    <2>3. ListedBut(Written(c, d), {})
      BY <2>1, <2>2, SameListed DEF ListedBy
    <2>4. ~ Changing(c) /\ ~ Starting(c)
      BY <1>5 DEF Changing, Starting
    <2> QED  BY <2>3, <2>4
  <1> QED  BY <1>1, <1>2, <1>3, <1>4, <1>5

(* How far such a statement brings its call, and no other one.             *)
LEMMA StartingIs ==
    ASSUME NEW c \in Conn, Underway(c), Sql(c) \in Writes, call'[c].op = call[c].op,
           Done(c)' = Done(c) + 1
    PROVE  Imposing(c)' <=> Starting(c)
  <1>1. Starting(c) => Imposing(c)'
    <2>1. /\ Sql(c) = "INSERT restriction" => Done(c) = 0
          /\ Sql(c) = "INSERT event" => Done(c) = 1
      BY Meaning
    <2>2. (Done(c) = 0 => Done(c)' = 1) /\ (Done(c) = 1 => Done(c)' = 2)
      BY Successor
    <2> QED  BY <2>1, <2>2 DEF Imposing, Starting
  <1>2. Imposing(c)' => (Done(c) = 0 \/ Done(c) = 1) /\ call[c].op = "impose"
    <2>1. Done(c) \in Int
      BY DEF Underway
    <2>2. (Done(c)' = 1 => Done(c) = 0) /\ (Done(c)' = 2 => Done(c) = 1)
      BY <2>1, Successor
    <2> QED  BY <2>2 DEF Imposing
  <1>3. ASSUME Done(c) = 0 \/ Done(c) = 1, call[c].op = "impose"
        PROVE  Starting(c)
    <2>1. \/ Done(c) = 0 /\ Sql(c) = "INSERT restriction"
          \/ Done(c) = 1 /\ Sql(c) = "INSERT event"
          \/ Done(c) = 2 \/ Done(c) = 3
      BY <1>3, ShortPosition
    <2> QED  BY <1>3, <2>1, ZeroOne DEF Starting
  <1> QED  BY <1>1, <1>2, <1>3

LEMMA ChangingIs ==
    ASSUME NEW c \in Conn, Underway(c), Sql(c) \in Writes, call'[c].op = call[c].op,
           Done(c)' = Done(c) + 1
    PROVE  Moving(c)' <=> Changing(c)
  <1>1. Changing(c) => Moving(c)'
    <2>1. /\ Sql(c) = "UPDATE status" => Done(c) = 0 /\ call[c].op \in {"expire", "clear"}
          /\ Sql(c) = "INSERT event" => Done(c) = 1
      BY Meaning
    <2>2. (Done(c) = 0 => Done(c)' = 1) /\ (Done(c) = 1 => Done(c)' = 2)
      BY Successor
    <2> QED  BY <2>1, <2>2 DEF Moving, Changing
  <1>2. Moving(c)' => (Done(c) = 0 \/ Done(c) = 1) /\ call[c].op \in {"expire", "clear"}
    <2>1. Done(c) \in Int
      BY DEF Underway
    <2>2. (Done(c)' = 1 => Done(c) = 0) /\ (Done(c)' = 2 => Done(c) = 1)
      BY <2>1, Successor
    <2> QED  BY <2>2 DEF Moving
  <1>3. ASSUME Done(c) = 0 \/ Done(c) = 1, call[c].op \in {"expire", "clear"}
        PROVE  Changing(c)
    <2>1. \/ Done(c) = 0 /\ Sql(c) = "UPDATE status"
          \/ Done(c) = 1 /\ Sql(c) = "INSERT event"
          \/ Done(c) = 2 \/ Done(c) = 3
      BY <1>3, ShortPosition
    <2> QED  BY <1>3, <2>1, ZeroOne DEF Changing
  <1> QED  BY <1>1, <1>2, <1>3

ListedNext(c) ==
    /\ ListedBut(Seen(c)', IF Moving(c)' THEN {call'[c].arg} ELSE {})
    /\ Imposing(c)' => Seen(c)'.status[call'[c].arg] = "ACTIVE"

LEMMA ListedOnward ==
    ASSUME ListedBut(db', {}), \A c \in Conn : ListedNext(c)
    PROVE  Listed'
  BY DEF ListedNext, Listed, ListedBy, ListedBut, IsLatest

LEMMA ListedStep ==
    ASSUME TxTypes, CallsOK, Openings, Listed, Next
    PROVE  Listed'
  <1>1. PICK c \in Conn : \/ Begins(c) \/ Wrote(c) \/ Skipped(c) \/ Looked(c)
                          \/ Ended(c) \/ Put(c)
    BY TypeStep
  <1> SUFFICES ASSUME ~ partial'
               PROVE  Listed'
    BY DEF Listed
  <1>2. ListedBut(db, {}) /\ \A d \in Conn : ListedBy(d, Seen(d))
    <2>1. ~ partial
      BY <1>1 DEF Begins, Wrote, Skipped, Looked, Ended, Put, Undone, LeftOpen
    <2> QED  BY <2>1 DEF Listed
  <1>3. ASSUME NEW d \in Conn, call'[d] = call[d], Seen(d)' = Seen(d)
        PROVE  ListedNext(d)
    BY <1>2, <1>3, SameCallDone, MovingSame DEF ListedNext, ListedBy
  <1>4. ASSUME NEW d \in Conn, ~ Moving(d)', ~ Imposing(d)', ListedBut(Seen(d)', {})
        PROVE  ListedNext(d)
    BY <1>4 DEF ListedNext
  <1>5. ASSUME db' = db, Apart(c), SameView(c), ListedNext(c)
        PROVE  Listed'
    <2>1. \A d \in Conn \ {c} : ListedNext(d)
      BY <1>3, <1>5 DEF Apart, SameView
    <2> QED  BY <1>2, <1>5, <2>1, ListedOnward
  <1>6. CASE Begins(c) \/ Skipped(c) \/ Looked(c)
    <2>1. db' = db /\ Apart(c) /\ SameView(c) /\ Seen(c)' = Seen(c)
      BY <1>6 DEF Begins, Skipped, Looked
    <2>2. ~ Imposing(c)' /\ ~ Moving(c) /\ ~ Moving(c)'
      <3>1. CASE Begins(c)
        BY <3>1, NoStatement, NotImposingAfter, NotMovingAfter DEF Begins, Moving
      <3>2. CASE Skipped(c)
        <4>1. /\ Done(c) = 0 /\ call'[c].op = call[c].op /\ Underway(c)
              /\ Done(c)' = IF Sql(c) = "UPDATE status" THEN 3 ELSE 2
          BY <3>2 DEF Skipped, SameCall
        <4>2. Done(c) # 1 /\ Done(c) # 2
          BY <4>1, ZeroOne
        <4>3. call'[c].op # "impose" /\ (Done(c)' = 3 \/ call'[c].op \notin {"expire", "clear"})
          BY <3>2, <4>1, Meaning DEF Skipped, Skipping
        <4> QED  BY <4>2, <4>3, NotImposingAfter, NotMovingAfter DEF Moving
      <3>3. CASE Looked(c)
        <4>1. call[c].op \in {"active", "initialized", "count"} /\ call'[c].op = call[c].op
          BY <3>3, Meaning DEF Looked, SameCall
        <4> QED  BY <4>1 DEF Imposing, Moving
      <3> QED  BY <1>6, <3>1, <3>2, <3>3
    <2>3. ListedBut(Seen(c)', {})
      BY <1>2, <2>1, <2>2 DEF ListedBy
    <2> QED  BY <1>4, <1>5, <2>1, <2>2, <2>3
  <1>7. CASE Ended(c)
    <2>1. db' = db /\ Apart(c) /\ SameView(c) /\ ~ Imposing(c)' /\ ~ Moving(c)'
      BY <1>7, NotImposingAfter, NotMovingAfter DEF Ended
    <2>2. ListedBut(Seen(c)', {})
      <3>1. CASE Undone(c)
        BY <1>2, <3>1 DEF Undone
      <3>2. CASE LeftOpen(c)
        <4>1. ~ Moving(c) /\ Seen(c)' = Seen(c)
          BY <3>2, LeftWhole
        <4> QED  BY <1>2, <4>1 DEF ListedBy
      <3> QED  BY <1>7, <3>1, <3>2 DEF Ended
    <2> QED  BY <1>4, <1>5, <2>1, <2>2
  <1>8. CASE Wrote(c)
    <2>1. /\ Sql(c) \in Writes /\ Underway(c) /\ Done(c)' = Done(c) + 1
          /\ call'[c].op = call[c].op /\ call'[c].arg = call[c].arg
          /\ Seen(c)' = Written(c, Seen(c)) /\ db' = db /\ Apart(c) /\ SameView(c)
      BY <1>8 DEF Wrote, SameCall
    <2>2. /\ ListedBut(Seen(c)', IF Changing(c) THEN {call[c].arg} ELSE {})
          /\ Starting(c) => Seen(c)'.status[call[c].arg] = "ACTIVE"
      BY <1>2, <2>1, SeenType, WrittenListed
    <2>3. (Imposing(c)' <=> Starting(c)) /\ (Moving(c)' <=> Changing(c))
      BY <2>1, StartingIs, ChangingIs
    <2>7. ListedNext(c)
      BY <2>1, <2>2, <2>3 DEF ListedNext
    <2> QED  BY <1>5, <2>1, <2>7
  <1>9. CASE Put(c)
    <2>1. /\ Sql(c) = "COMMIT" /\ Underway(c) /\ call'[c] = NoCall /\ Apart(c)
          /\ db' = db \/ db' = Seen(c)
          /\ Seen(c)' = db'
          /\ \A d \in Conn \ {c} : Seen(d)' = IF HasView(d) THEN Seen(d) ELSE db'
      BY <1>9 DEF Put
    <2>2. ~ Moving(c) /\ ~ Moving(c)' /\ ~ Imposing(c)'
      BY <2>1, HalfMoved, NotImposingAfter, NotMovingAfter
    <2>3. ListedBut(db', {}) /\ ListedBut(Seen(c)', {})
      BY <1>2, <2>1, <2>2 DEF ListedBy
    <2>4. ASSUME NEW d \in Conn \ {c}
          PROVE  ListedNext(d)
      <3>1. call'[d] = call[d] /\ Seen(d)' = IF HasView(d) THEN Seen(d) ELSE db'
        BY <2>1 DEF Apart
      <3>2. CASE HasView(d)
        BY <1>3, <3>1, <3>2
      <3>3. CASE ~ HasView(d)
        <4>1. ~ Imposing(d)' /\ ~ Moving(d)'
          BY <3>1, <3>3, ImposingWrites, MovingWrites, SameCallDone, MovingSame
        <4> QED  BY <1>4, <2>3, <3>1, <3>3, <4>1
      <3> QED  BY <3>2, <3>3
    <2>5. ListedNext(c)
      BY <1>4, <2>2, <2>3
    <2> QED  BY <2>3, <2>4, <2>5, ListedOnward
  <1> QED  BY <1>1, <1>6, <1>7, <1>8, <1>9

LEMMA TxnListed == Spec => []Listed
  <1>1. Init => Listed
    <2> SUFFICES ASSUME Init
                 PROVE  Listed
      OBVIOUS
    <2>1. db.ledger = <<>> /\ \A c \in Conn : Seen(c) = db
      BY NoTxFields DEF Init, Seen
    <2>2. \A c \in Conn : ~ Imposing(c) /\ ~ Moving(c)
      BY NoStatement DEF Init, Imposing, Moving
    <2>3. ListedBut(db, {})
      BY <2>1 DEF ListedBut
    <2> QED  BY <2>1, <2>2, <2>3 DEF Listed, ListedBy
  <1>2. TxTypes /\ CallsOK /\ Openings /\ Listed /\ [Next]_vars => Listed'
    <2>1. ASSUME Listed, UNCHANGED vars
          PROVE  Listed'
      <3> SUFFICES ASSUME ~ partial'
                   PROVE  Listed'
        BY DEF Listed
      <3>1. db' = db /\ partial' = partial /\ \A c \in Conn : call'[c] = call[c] /\ Seen(c)' = Seen(c)
        BY <2>1 DEF vars, Seen
      <3>2. ListedBut(db, {}) /\ \A c \in Conn : ListedBy(c, Seen(c))
        BY <2>1, <3>1 DEF Listed
      <3>3. \A c \in Conn : ListedNext(c)
        BY <3>1, <3>2, SameCallDone, MovingSame DEF ListedNext, ListedBy
      <3> QED  BY <3>1, <3>2, <3>3, ListedOnward
    <2> QED  BY <2>1, ListedStep
  <1> QED  BY <1>1, <1>2, TxnTypes, TxnOpenings, PTL DEF Spec

------------------------------------------------------------------------------
(* The arithmetic of putting a key after those already there.              *)
LEMMA OneKey ==
    ASSUME NEW S, NEW q \in Seq(S), NEW l \in {2, 3}, NEW n, n \in Int,
           n - l + 1 \in 1..Len(q), Len(q) \in Nat
    PROVE  /\ n # 0 /\ n # 1 /\ ~ (n = 2 /\ l = 3)
           /\ n + 1 # 0 /\ n + 1 # 1 /\ ~ (n + 1 = 2 /\ l = 3)
           /\ n - l \in Nat /\ n + 1 - l = n - l + 1
  OBVIOUS

LEMMA PrefixMore ==
    ASSUME NEW q, NEW m \in Nat
    PROVE  Prefix(q, m + 1) = Prefix(q, m) \cup {q[m + 1]}
  <1>1. /\ m + 1 \in 1..(m + 1) /\ \A i \in 1..m : i \in 1..(m + 1)
        /\ \A i \in 1..(m + 1) : i \in 1..m \/ i = m + 1
    BY OneMore
  <1>2. \A x \in Prefix(q, m + 1) : x \in Prefix(q, m) \cup {q[m + 1]}
    BY <1>1 DEF Prefix
  <1>3. \A x \in Prefix(q, m) \cup {q[m + 1]} : x \in Prefix(q, m + 1)
    BY <1>1 DEF Prefix
  <1> QED  BY <1>2, <1>3

LEMMA DistinctMore ==
    ASSUME NEW q, NEW m \in Nat, DistinctUpTo(q, m), q[m + 1] \notin Prefix(q, m)
    PROVE  DistinctUpTo(q, m + 1)
  <1>1. \A i \in 1..(m + 1) : i \in 1..m \/ i = m + 1
    BY OneMore
  <1>2. \A i \in 1..m : q[i] # q[m + 1]
    BY DEF Prefix
  <1> QED  BY <1>1, <1>2 DEF DistinctUpTo

LEMMA PrefixNone ==
    /\ \A q : Prefix(q, 0) = {} /\ DistinctUpTo(q, 0)
    /\ 2 - 2 = 0 /\ 3 - 3 = 0 /\ {} \in Wholes
  <1>1. \A q : Prefix(q, 0) = {} /\ DistinctUpTo(q, 0)
    BY DEF Prefix, DistinctUpTo
  <1>2. 2 - 2 = 0 /\ 3 - 3 = 0
    OBVIOUS
  <1>3. {} \in Wholes
    BY DEF Wholes
  <1> QED  BY <1>1, <1>2, <1>3

LEMMA PrefixAll ==
    ASSUME NEW S, NEW q \in Seq(S)
    PROVE  Prefix(q, Len(q)) = ToSet(q) /\ (DistinctUpTo(q, Len(q)) => IsInjective(q))
  <1>1. DOMAIN q = 1..Len(q)
    BY LenProperties
  <1> QED  BY <1>1 DEF Prefix, ToSet, DistinctUpTo, IsInjective

LEMMA Leads ==
    ASSUME NEW op, Long(op)
    PROVE  /\ Lead(op) \in {2, 3} /\ (Lead(op) = 2 \/ Lead(op) = 3)
           /\ op = "replace" => Lead(op) = 3
  BY DEF Long, Lead

(* What each statement makes of the marker, its entry and the rows.        *)
Elsewhere == {"INSERT restriction", "UPDATE status", "INSERT event", "INSERT ledger",
              "INSERT nonce", "UPDATE remaining", "UPSERT counter", "UPDATE seal"}

LEMMA WrittenRows ==
    ASSUME NEW c \in Conn, Sql(c) \in Writes, NEW d \in Database
    PROVE  LET w == Written(c, d)
           IN  /\ Sql(c) = "INSERT marker" => w.marker = TRUE /\ w.inits = d.inits /\ w.rows = d.rows
               /\ Sql(c) = "INSERT inits" => w.marker = d.marker /\ w.inits = TRUE /\ w.rows = d.rows
               /\ Sql(c) = "DELETE rows" => w.marker = d.marker /\ w.inits = d.inits /\ w.rows = {}
               /\ Sql(c) \in Key =>
                      w.marker = d.marker /\ w.inits = d.inits /\ w.rows = d.rows \cup {Sql(c)}
               /\ Sql(c) \in Elsewhere =>
                      w.marker = d.marker /\ w.inits = d.inits /\ w.rows = d.rows
  <1> DEFINE w == Written(c, d)
  <1>1. /\ (Sql(c) # "INSERT marker" => w.marker = d.marker)
        /\ (Sql(c) # "INSERT inits" => w.inits = d.inits)
        /\ (Sql(c) # "DELETE rows" /\ Sql(c) \notin Key => w.rows = d.rows)
        /\ (Sql(c) = "INSERT marker" => w.marker = TRUE)
        /\ (Sql(c) = "INSERT inits" => w.inits = TRUE)
        /\ (Sql(c) = "DELETE rows" => w.rows = {})
        /\ (Sql(c) \in Key => w.rows = d.rows \cup {Sql(c)})
    BY WrittenFields
  <1>2. /\ Sql(c) \in Key => Sql(c) # "INSERT marker" /\ Sql(c) # "INSERT inits" /\ Sql(c) # "DELETE rows"
        /\ Sql(c) \in Elsewhere \cup {"INSERT marker", "INSERT inits"} => Sql(c) \notin Key
    BY KeyAssumption DEF Words, Elsewhere
  <1>3. Sql(c) \in Elsewhere => Sql(c) # "INSERT marker" /\ Sql(c) # "INSERT inits" /\ Sql(c) # "DELETE rows"
    BY DEF Elsewhere
  <1> HIDE DEF w
  <1>4. /\ Sql(c) = "INSERT marker" => w.marker = TRUE /\ w.inits = d.inits /\ w.rows = d.rows
        /\ Sql(c) = "INSERT inits" => w.marker = d.marker /\ w.inits = TRUE /\ w.rows = d.rows
        /\ Sql(c) = "DELETE rows" => w.marker = d.marker /\ w.inits = d.inits /\ w.rows = {}
        /\ Sql(c) \in Key => w.marker = d.marker /\ w.inits = d.inits /\ w.rows = d.rows \cup {Sql(c)}
        /\ Sql(c) \in Elsewhere => w.marker = d.marker /\ w.inits = d.inits /\ w.rows = d.rows
    BY <1>1, <1>2, <1>3
  <1> QED  BY <1>4 DEF w

LEMMA FilledKey ==
    ASSUME NEW c \in Conn, Underway(c), Sql(c) \in Key, NEW d \in Database, FilledBy(c, d),
           Sql(c) \notin d.rows
    PROVE  FilledAs(call[c].op, call[c].arg, Done(c) + 1, Written(c, d))
  <1> DEFINE q == call[c].arg
             n == Done(c)
             l == Lead(call[c].op)
             w == Written(c, d)
  <1>1. q \in Seq(Key) /\ Len(q) \in Nat /\ n - l + 1 \in 1..Len(q) /\ Sql(c) = q[n - l + 1]
    BY AtKey
  <1>2. Long(call[c].op) /\ l \in {2, 3} /\ n \in Int
    <2>1. call[c].op \in {"initialize", "replace"}
      BY Meaning
    <2>2. Done(c) \in Int
      BY DEF Underway
    <2> QED  BY <2>1, <2>2, Leads DEF Long
  <1>3. w.marker = d.marker /\ w.inits = d.inits /\ w.rows = d.rows \cup {Sql(c)}
    <2>1. Sql(c) \in Writes
      BY DEF Writes
    <2> QED  BY <2>1, WrittenRows
  <1>4. FilledAs(call[c].op, q, n, d)
    BY DEF FilledBy
  <1> HIDE DEF q, n, l, w
  <1>5. /\ n # 0 /\ n # 1 /\ ~ (n = 2 /\ l = 3)
        /\ n + 1 # 0 /\ n + 1 # 1 /\ ~ (n + 1 = 2 /\ l = 3)
        /\ n - l \in Nat /\ n + 1 - l = n - l + 1
    BY <1>1, <1>2, OneKey
  <1>6. d.marker /\ d.inits /\ d.rows = Prefix(q, n - l) /\ DistinctUpTo(q, n - l)
    BY <1>2, <1>4, <1>5 DEF FilledAs, l
  <1>7. q[n - l + 1] \notin Prefix(q, n - l)
    BY <1>1, <1>6
  <1>8. w.rows = Prefix(q, n + 1 - l) /\ DistinctUpTo(q, n + 1 - l)
    BY <1>1, <1>3, <1>5, <1>6, <1>7, PrefixMore, DistinctMore
  <1>9. FilledAs(call[c].op, q, n + 1, w)
    BY <1>2, <1>3, <1>5, <1>6, <1>8 DEF FilledAs, l
  <1> QED  BY <1>9 DEF q, n, w

LEMMA WrittenFilled ==
    ASSUME TxTypes, NEW c \in Conn, Underway(c), Sql(c) \in Writes, ~ Refused(c), FilledBy(c, Seen(c))
    PROVE  FilledAs(call[c].op, call[c].arg, Done(c) + 1, Written(c, Seen(c)))
  <1> DEFINE d == Seen(c)
             w == Written(c, d)
             o == call[c].op
  <1>1. d \in Database /\ FilledAs(o, call[c].arg, Done(c), d)
    BY SeenType DEF FilledBy
  <1>2. /\ Done(c) = 0 => Done(c) + 1 = 1
        /\ Done(c) = 1 => Done(c) + 1 = 2
        /\ Done(c) = 2 => Done(c) + 1 = 3
    OBVIOUS
  <1>3. CASE Sql(c) = "INSERT marker"
    <2>1. ~ d.marker
      BY <1>3 DEF Refused
    <2>2. Done(c) = 0 /\ Long(o)
      BY <1>3, Meaning DEF Long
    <2>3. d.rows = {}
      BY <1>1, <2>1, <2>2 DEF FilledAs, Settled
    <2>4. w.marker = TRUE /\ w.rows = {}
      BY <1>1, <1>3, <2>3, WrittenRows
    <2>5. Done(c) + 1 = 1
      BY <1>2, <2>2
    <2> HIDE DEF d, w, o
    <2>6. FilledAs(o, call[c].arg, 1, w)
      BY <2>2, <2>4 DEF FilledAs
    <2> QED  BY <2>5, <2>6 DEF d, w, o
  <1>4. CASE Sql(c) = "INSERT inits"
    <2>1. Done(c) = 1 /\ Long(o)
      BY <1>4, Meaning DEF Long
    <2>2. Done(c) # 0
      BY <2>1, ZeroOne
    <2>3. d.marker /\ d.rows = {}
      BY <1>1, <2>1, <2>2 DEF FilledAs
    <2>4. w.marker /\ w.inits /\ w.rows = {}
      BY <1>1, <1>4, <2>3, WrittenRows
    <2>5. Done(c) + 1 = 2
      BY <1>2, <2>1
    <2> HIDE DEF d, w, o
    <2>6. FilledAs(o, call[c].arg, 2, w)
      BY <2>1, <2>4, Leads, PrefixNone DEF FilledAs
    <2> QED  BY <2>5, <2>6 DEF d, w, o
  <1>5. CASE Sql(c) = "DELETE rows"
    <2>1. Done(c) = 2 /\ Long(o) /\ Lead(o) = 3
      BY <1>5, Meaning DEF Long, Lead
    <2>2. Done(c) # 0 /\ Done(c) # 1
      BY <2>1, ZeroOne
    <2>3. d.marker /\ d.inits
      BY <1>1, <2>1, <2>2 DEF FilledAs
    <2>4. w.marker /\ w.inits /\ w.rows = {}
      BY <1>1, <1>5, <2>3, WrittenRows
    <2>5. Done(c) + 1 = 3
      BY <1>2, <2>1
    <2> HIDE DEF d, w, o
    <2>6. FilledAs(o, call[c].arg, 3, w)
      BY <2>1, <2>4, PrefixNone DEF FilledAs
    <2> QED  BY <2>5, <2>6 DEF d, w, o
  <1>6. CASE Sql(c) \in Key
    <2>1. Sql(c) \notin d.rows
      BY <1>6 DEF Refused
    <2> QED  BY <1>1, <1>6, <2>1, FilledKey
  <1>7. CASE Sql(c) \in Elsewhere
    <2>1. ~ Long(o)
      BY <1>7, Meaning DEF Long, Elsewhere
    <2>2. w.marker = d.marker /\ w.inits = d.inits /\ w.rows = d.rows
      BY <1>1, <1>7, WrittenRows
    <2>3. Settled(d)
      BY <1>1, <2>1 DEF FilledAs
    <2> HIDE DEF d, w, o
    <2>4. Settled(w)
      BY <2>2, <2>3 DEF Settled
    <2>5. FilledAs(o, call[c].arg, Done(c) + 1, w)
      BY <2>1, <2>4 DEF FilledAs
    <2> QED  BY <2>5 DEF d, w, o
  <1> QED  BY <1>3, <1>4, <1>5, <1>6, <1>7 DEF Writes, Elsewhere

LEMMA AllKeys ==
    ASSUME NEW l \in {2, 3}, NEW m \in Nat
    PROVE  l + m # 0 /\ l + m # 1 /\ ~ (l + m = 2 /\ l = 3) /\ l + m - l = m
  OBVIOUS

(* A call that has come to its commit leaves the rows whole.               *)
LEMMA CommitSettled ==
    ASSUME NEW c \in Conn, Underway(c), Sql(c) = "COMMIT", NEW d, FilledBy(c, d)
    PROVE  Settled(d)
  <1> DEFINE q == call[c].arg
             n == Done(c)
             l == Lead(call[c].op)
             o == call[c].op
  <1>1. CASE ~ Long(o)
    BY <1>1 DEF FilledBy, FilledAs
  <1>2. CASE Long(o)
    <2>1. n = l + Len(q) /\ q \in Seq(Key) /\ Len(q) \in Nat /\ l \in {2, 3}
      BY <1>2, AtCommit, LongPosition, Leads DEF Long
    <2>2. FilledAs(o, q, n, d)
      BY DEF FilledBy
    <2>3. (o = "initialize" /\ q = Ceiling) \/ q \in Offers
      BY <1>2, SomeCall DEF Long, Underway
    <2> HIDE DEF q, n, l, o
    <2>4. n # 0 /\ n # 1 /\ ~ (n = 2 /\ l = 3) /\ n - l = Len(q)
      BY <2>1, AllKeys
    <2>5. d.marker /\ d.inits /\ d.rows = Prefix(q, Len(q)) /\ DistinctUpTo(q, Len(q))
      BY <1>2, <2>2, <2>4 DEF FilledAs, l, o
    <2>6. d.rows = ToSet(q) /\ IsInjective(q)
      BY <2>1, <2>5, PrefixAll
    <2>7. d.rows \in Wholes
      BY <2>3, <2>6 DEF Wholes
    <2>8. d.marker = d.inits
      BY <2>2, <2>4, <2>5, <1>2 DEF FilledAs, l, o
    <2> QED  BY <2>5, <2>7, <2>8 DEF Settled
  <1> QED  BY <1>1, <1>2

FilledNext(c) == FilledAs(call'[c].op, call'[c].arg, Done(c)', Seen(c)')

LEMMA FilledOnward ==
    ASSUME Settled(db'), \A c \in Conn : FilledNext(c)
    PROVE  Filled'
  BY DEF FilledNext, Filled, FilledBy, FilledAs, Settled

LEMMA NotFilling ==
    ASSUME NEW c \in Conn, NEW d
    PROVE  /\ ~ Filling(c) => (FilledBy(c, d) <=> Settled(d))
           /\ (~ Long(call'[c].op) \/ Done(c)' = 0) /\ Settled(Seen(c)') => FilledNext(c)
  BY DEF Filling, FilledBy, FilledAs, FilledNext

LEMMA FilledStep ==
    ASSUME TxTypes, CallsOK, Openings, Filled, Next
    PROVE  Filled'
  <1>1. PICK c \in Conn : \/ Begins(c) \/ Wrote(c) \/ Skipped(c) \/ Looked(c)
                          \/ Ended(c) \/ Put(c)
    BY TypeStep
  <1> SUFFICES ASSUME ~ partial'
               PROVE  Filled'
    BY DEF Filled
  <1>2. Settled(db) /\ \A d \in Conn : FilledBy(d, Seen(d))
    <2>1. ~ partial
      BY <1>1 DEF Begins, Wrote, Skipped, Looked, Ended, Put, Undone, LeftOpen
    <2> QED  BY <2>1 DEF Filled
  <1>3. ASSUME NEW d \in Conn, call'[d] = call[d], Seen(d)' = Seen(d)
        PROVE  FilledNext(d)
    BY <1>2, <1>3, SameCallDone DEF FilledNext, FilledBy
  <1>4. ASSUME NEW d \in Conn, call'[d] = NoCall, Settled(Seen(d)')
        PROVE  FilledNext(d)
    <2>1. ~ Long(call'[d].op)
      BY <1>4 DEF Long, NoCall
    <2> QED  BY <1>4, <2>1, NotFilling
  <1>5. ASSUME db' = db, Apart(c), SameView(c), FilledNext(c)
        PROVE  Filled'
    <2>1. \A d \in Conn \ {c} : FilledNext(d)
      BY <1>3, <1>5 DEF Apart, SameView
    <2>2. Settled(db')
      BY <1>2, <1>5
    <2> QED  BY <1>5, <2>1, <2>2, FilledOnward
  <1>6. CASE Begins(c)
    <2>1. db' = db /\ Apart(c) /\ SameView(c) /\ Seen(c)' = Seen(c) /\ Done(c)' = 0
      BY <1>6 DEF Begins
    <2>2. ~ Filling(c)
      BY <1>6, NoStatement DEF Begins, Filling, Long
    <2>3. Settled(Seen(c)')
      BY <1>2, <2>1, <2>2, NotFilling
    <2> QED  BY <1>5, <2>1, <2>3, NotFilling
  <1>7. CASE Skipped(c)
    <2>1. /\ db' = db /\ Apart(c) /\ SameView(c) /\ Seen(c)' = Seen(c) /\ Done(c) = 0
          /\ call'[c].op = call[c].op /\ call'[c].arg = call[c].arg /\ Underway(c)
          /\ Skipping(c) /\ Refused(c) /\ (Sql(c) # "UPDATE status" => Done(c)' = 2)
      BY <1>7 DEF Skipped, SameCall
    <2>2. Settled(Seen(c))
      BY <1>2, <2>1, NotFilling DEF Filling
    <2>3. CASE Sql(c) \in {"UPDATE status", "UPDATE remaining"}
      <3>1. ~ Long(call'[c].op)
        BY <2>1, <2>3, Meaning DEF Long
      <3> QED  BY <1>5, <2>1, <2>2, <3>1, NotFilling
    <2>4. CASE Sql(c) = "INSERT marker" /\ call[c].op = "replace"
      <3>1. Sql(c) \notin Key
        BY <2>4, KeyAssumption DEF Words
      <3>2. Seen(c).marker
        BY <2>1, <2>4, <3>1 DEF Refused
      <3>3. Long(call'[c].op) /\ Lead(call'[c].op) = 3
        BY <2>1, <2>4 DEF Long, Lead
      <3>4. Seen(c).marker /\ Seen(c).inits /\ Seen(c).rows \in Wholes
        BY <2>2, <3>2 DEF Settled
      <3>5. FilledAs(call'[c].op, call'[c].arg, 2, Seen(c))
        BY <3>3, <3>4 DEF FilledAs
      <3>6. FilledNext(c)
        BY <2>1, <2>4, <3>5 DEF FilledNext
      <3> QED  BY <1>5, <2>1, <3>6
    <2> QED  BY <2>1, <2>3, <2>4 DEF Skipping
  <1>8. CASE Looked(c)
    <2>1. /\ db' = db /\ Apart(c) /\ SameView(c) /\ Seen(c)' = Seen(c)
          /\ call'[c].op = call[c].op /\ Underway(c)
      BY <1>8 DEF Looked, SameCall
    <2>2. ~ Long(call[c].op)
      BY <1>8, <2>1, Meaning DEF Looked, Long
    <2>3. Settled(Seen(c)')
      BY <1>2, <2>1, <2>2, NotFilling DEF Filling
    <2> QED  BY <1>5, <2>1, <2>2, <2>3, NotFilling
  <1>9. CASE Wrote(c)
    <2>1. /\ Sql(c) \in Writes /\ ~ Refused(c) /\ Underway(c) /\ Done(c)' = Done(c) + 1
          /\ call'[c].op = call[c].op /\ call'[c].arg = call[c].arg
          /\ Seen(c)' = Written(c, Seen(c)) /\ db' = db /\ Apart(c) /\ SameView(c)
      BY <1>9 DEF Wrote, SameCall
    <2>2. FilledAs(call[c].op, call[c].arg, Done(c) + 1, Written(c, Seen(c)))
      BY <1>2, <2>1, WrittenFilled
    <2>3. FilledNext(c)
      BY <2>1, <2>2 DEF FilledNext
    <2> QED  BY <1>5, <2>1, <2>3
  <1>10. CASE Ended(c)
    <2>1. db' = db /\ Apart(c) /\ SameView(c) /\ call'[c] = NoCall
      BY <1>10 DEF Ended
    <2>2. Settled(Seen(c)')
      <3>1. CASE Undone(c)
        BY <1>2, <3>1 DEF Undone
      <3>2. CASE LeftOpen(c)
        <4>1. (Filling(c) => Sql(c) = "COMMIT") /\ Seen(c)' = Seen(c) /\ Underway(c)
          BY <3>2, LeftWhole DEF LeftOpen
        <4>2. CASE Filling(c)
          BY <1>2, <4>1, <4>2, CommitSettled
        <4>3. CASE ~ Filling(c)
          BY <1>2, <4>1, <4>3, NotFilling
        <4> QED  BY <4>2, <4>3
      <3> QED  BY <1>10, <3>1, <3>2 DEF Ended
    <2> QED  BY <1>4, <1>5, <2>1, <2>2
  <1>11. CASE Put(c)
    <2>1. /\ Sql(c) = "COMMIT" /\ Underway(c) /\ call'[c] = NoCall /\ Apart(c)
          /\ db' = db \/ db' = Seen(c)
          /\ Seen(c)' = db'
          /\ \A d \in Conn \ {c} : Seen(d)' = IF HasView(d) THEN Seen(d) ELSE db'
      BY <1>11 DEF Put
    <2>2. Settled(db') /\ FilledNext(c)
      <3>1. Settled(Seen(c))
        BY <1>2, <2>1, CommitSettled
      <3>2. Settled(db')
        BY <1>2, <2>1, <3>1
      <3> QED  BY <1>4, <2>1, <3>2
    <2>3. ASSUME NEW d \in Conn \ {c}
          PROVE  FilledNext(d)
      <3>1. call'[d] = call[d] /\ Seen(d)' = IF HasView(d) THEN Seen(d) ELSE db'
        BY <2>1 DEF Apart
      <3>2. CASE HasView(d)
        BY <1>3, <3>1, <3>2
      <3>3. CASE ~ HasView(d)
        <4>1. ~ Filling(d)
          BY <3>3, MovingWrites
        <4>2. ~ Long(call'[d].op) \/ Done(d)' = 0
          BY <3>1, <4>1, SameCallDone DEF Filling
        <4>3. Settled(Seen(d)')
          BY <2>2, <3>1, <3>3
        <4> QED  BY <4>2, <4>3, NotFilling
      <3> QED  BY <3>2, <3>3
    <2> QED  BY <2>2, <2>3, FilledOnward
  <1> QED  BY <1>1, <1>6, <1>7, <1>8, <1>9, <1>10, <1>11

LEMMA TxnFilled == Spec => []Filled
  <1>1. Init => Filled
    <2> SUFFICES ASSUME Init
                 PROVE  Filled
      OBVIOUS
    <2>1. Settled(db)
      BY DEF Init, Settled, Wholes
    <2>2. \A c \in Conn : Seen(c) = db /\ ~ Filling(c)
      BY NoTxFields, NoStatement DEF Init, Seen, Filling, Long
    <2> QED  BY <2>1, <2>2, NotFilling DEF Filled
  <1>2. TxTypes /\ CallsOK /\ Openings /\ Filled /\ [Next]_vars => Filled'
    <2>1. ASSUME Filled, UNCHANGED vars
          PROVE  Filled'
      <3> SUFFICES ASSUME ~ partial'
                   PROVE  Filled'
        BY DEF Filled
      <3>1. db' = db /\ partial' = partial /\ \A c \in Conn : call'[c] = call[c] /\ Seen(c)' = Seen(c)
        BY <2>1 DEF vars, Seen
      <3>2. Settled(db) /\ \A c \in Conn : FilledBy(c, Seen(c))
        BY <2>1, <3>1 DEF Filled
      <3>3. Settled(db') /\ \A c \in Conn : FilledNext(c)
        BY <3>1, <3>2, SameCallDone DEF FilledNext, FilledBy
      <3> QED  BY <3>3, FilledOnward
    <2> QED  BY <2>1, FilledStep
  <1> QED  BY <1>1, <1>2, TxnTypes, TxnOpenings, PTL DEF Spec

(* An agent's rows are those of one call, for every number of connections  *)
(* and every ceiling: a failed initialize_agent_authority or               *)
(* replace_live_authority is never seen half done by any of them, unless   *)
(* the connection it failed on has been left with its halves.              *)
THEOREM RowsStayWhole == Spec => []RowsAreWhole
  <1>1. Filled => RowsAreWhole
    BY DEF Filled, Settled, Wholes, RowsAreWhole
  <1> QED  BY <1>1, TxnFilled, PTL

------------------------------------------------------------------------------
(* A MAC that is not the one of its row belongs to a call between the two  *)
(* UPDATEs, in that call's own transaction.                                *)
Sealing(c) ==
    (call[c].op = "consume" /\ Done(c) = 1) \/ (call[c].op = "count" /\ Done(c) = 2)
Loose(c) == IF Sealing(c) THEN {SealOf(c)} ELSE {}
Stamped == partial \/ (db.unsealed = {} /\ \A c \in Conn : Seen(c).unsealed \subseteq Loose(c))

LEMMA HalfSealed ==
    ASSUME NEW c \in Conn, Underway(c)
    PROVE  Sealing(c) <=> Sql(c) = "UPDATE seal"
  <1>1. Sql(c) = "UPDATE seal" => Sealing(c)
    BY Meaning DEF Sealing
  <1>2. CASE call[c].op = "consume"
    <2>1. \/ Done(c) = 0 \/ Done(c) = 2
          \/ Done(c) = 1 /\ Sql(c) = "UPDATE seal"
      BY <1>2, ShortPosition
    <2> QED  BY <1>1, <1>2, <2>1, ZeroOne DEF Sealing
  <1>3. CASE call[c].op = "count"
    <2>1. \/ Done(c) = 0 \/ Done(c) = 1 \/ Done(c) = 3
          \/ Done(c) = 2 /\ Sql(c) = "UPDATE seal"
      BY <1>3, ShortPosition
    <2> QED  BY <1>1, <1>3, <2>1, ZeroOne DEF Sealing
  <1>4. CASE call[c].op \notin {"consume", "count"}
    BY <1>1, <1>4 DEF Sealing
  <1> QED  BY <1>2, <1>3, <1>4

LEMMA SealingWrites ==
    ASSUME NEW c \in Conn, Openings, Sealing(c)
    PROVE  HasView(c) /\ tx[c].mode = "writing" /\ call[c].op \in WriteOp /\ Done(c) # 0
  <1>1. Done(c) # 0 /\ call[c].op \in WriteOp /\ ~ (call[c].op = "count" /\ Done(c) = 1)
    BY ZeroOne DEF Sealing, WriteOp
  <1>2. Begun(c)
    BY <1>1 DEF Begun
  <1> QED  BY <1>2, BegunWrites

LEMMA SameLoose ==
    ASSUME NEW c \in Conn, call'[c] = call[c]
    PROVE  (Sealing(c)' <=> Sealing(c)) /\ Loose(c)' = Loose(c)
  <1>1. Sealing(c)' <=> Sealing(c)
    BY SameCallDone DEF Sealing
  <1> QED  BY <1>1 DEF Loose, SealOf

LEMMA LeftSealed ==
    ASSUME NEW c \in Conn, Openings, LeftOpen(c), ~ partial'
    PROVE  ~ Sealing(c) /\ Seen(c)' = Seen(c)
  <1>1. Seen(c)' = Seen(c) /\ Underway(c)
    BY DEF LeftOpen
  <1>2. \/ Sql(c) = "COMMIT" \/ Sql(c) = "UPSERT counter" \/ call[c].op \notin WriteOp
        \/ Done(c) = 0 \/ tx[c].mode # "writing"
    BY DEF LeftOpen
  <1>3. CASE Sql(c) \in {"COMMIT", "UPSERT counter"}
    BY <1>1, <1>3, HalfSealed
  <1>4. CASE Sql(c) \notin {"COMMIT", "UPSERT counter"}
    BY <1>1, <1>2, <1>4, SealingWrites
  <1> QED  BY <1>3, <1>4

LEMMA WrittenSeals ==
    ASSUME NEW c \in Conn, Underway(c), Sql(c) \in Writes, NEW d \in Database,
           d.unsealed \subseteq Loose(c)
    PROVE  Written(c, d).unsealed \subseteq CASE Sql(c) = "UPDATE remaining" -> {call[c].arg}
                                              [] Sql(c) = "UPSERT counter" -> {"counter"}
                                              [] OTHER -> {}
  <1> DEFINE w == Written(c, d)
  <1>1. /\ (Sql(c) \notin {"DELETE rows", "UPDATE remaining", "UPSERT counter", "UPDATE seal"}
                => w.unsealed = d.unsealed)
        /\ (Sql(c) = "DELETE rows" => w.unsealed = d.unsealed \cap {"counter"})
        /\ (Sql(c) = "UPDATE remaining" => w.unsealed = d.unsealed \cup {call[c].arg})
        /\ (Sql(c) = "UPSERT counter" => w.unsealed = d.unsealed \cup {"counter"})
        /\ (Sql(c) = "UPDATE seal" => w.unsealed = d.unsealed \ {SealOf(c)})
    BY WrittenFields
  <1>2. Sql(c) # "UPDATE seal" => d.unsealed = {}
    BY HalfSealed DEF Loose
  <1>3. Sql(c) = "UPDATE seal" => d.unsealed \subseteq {SealOf(c)}
    BY HalfSealed DEF Loose
  <1> HIDE DEF w
  <1>4. CASE Sql(c) = "UPDATE remaining"
    BY <1>1, <1>2, <1>4 DEF w
  <1>5. CASE Sql(c) = "UPSERT counter"
    BY <1>1, <1>2, <1>5 DEF w
  <1>6. CASE Sql(c) \notin {"UPDATE remaining", "UPSERT counter"}
    <2>1. w.unsealed = {}
      BY <1>1, <1>2, <1>3, <1>6
    <2> QED  BY <1>6, <2>1 DEF w
  <1> QED  BY <1>4, <1>5, <1>6

SealsNext(c) == Seen(c)'.unsealed \subseteq Loose(c)'

LEMMA WroteSeals ==
    ASSUME TxTypes, NEW c \in Conn, Wrote(c), Seen(c).unsealed \subseteq Loose(c)
    PROVE  SealsNext(c)
  <1>1. /\ Sql(c) \in Writes /\ Underway(c) /\ Done(c)' = Done(c) + 1
        /\ call'[c].op = call[c].op /\ call'[c].arg = call[c].arg
        /\ Seen(c)' = Written(c, Seen(c))
    BY DEF Wrote, SameCall
  <1>2. Seen(c)'.unsealed \subseteq CASE Sql(c) = "UPDATE remaining" -> {call[c].arg}
                                      [] Sql(c) = "UPSERT counter" -> {"counter"}
                                      [] OTHER -> {}
    BY <1>1, SeenType, WrittenSeals
  <1>3. CASE Sql(c) = "UPDATE remaining"
    <2>1. call[c].op = "consume" /\ Done(c)' = 1
      BY <1>1, <1>3, Meaning, Successor
    <2>2. Loose(c)' = {call[c].arg}
      BY <1>1, <2>1 DEF Loose, Sealing, SealOf
    <2> QED  BY <1>2, <1>3, <2>2 DEF SealsNext
  <1>4. CASE Sql(c) = "UPSERT counter"
    <2>1. call[c].op = "count" /\ Done(c)' = 2
      BY <1>1, <1>4, Meaning, Successor
    <2>2. Loose(c)' = {"counter"}
      BY <1>1, <2>1 DEF Loose, Sealing, SealOf
    <2> QED  BY <1>2, <1>4, <2>2 DEF SealsNext
  <1>5. CASE Sql(c) \notin {"UPDATE remaining", "UPSERT counter"}
    BY <1>2, <1>5 DEF SealsNext
  <1> QED  BY <1>3, <1>4, <1>5

LEMMA StampedOnward ==
    ASSUME db'.unsealed = {}, \A c \in Conn : SealsNext(c)
    PROVE  Stamped'
  BY DEF SealsNext, Stamped

LEMMA StampedStep ==
    ASSUME TxTypes, CallsOK, Openings, Stamped, Next
    PROVE  Stamped'
  <1>1. PICK c \in Conn : \/ Begins(c) \/ Wrote(c) \/ Skipped(c) \/ Looked(c)
                          \/ Ended(c) \/ Put(c)
    BY TypeStep
  <1> SUFFICES ASSUME ~ partial'
               PROVE  Stamped'
    BY DEF Stamped
  <1>2. db.unsealed = {} /\ \A d \in Conn : Seen(d).unsealed \subseteq Loose(d)
    <2>1. ~ partial
      BY <1>1 DEF Begins, Wrote, Skipped, Looked, Ended, Put, Undone, LeftOpen
    <2> QED  BY <2>1 DEF Stamped
  <1>3. ASSUME NEW d \in Conn, call'[d] = call[d], Seen(d)' = Seen(d)
        PROVE  SealsNext(d)
    BY <1>2, <1>3, SameLoose DEF SealsNext
  <1>4. ASSUME NEW d \in Conn, Seen(d)'.unsealed = {}
        PROVE  SealsNext(d)
    BY <1>4 DEF SealsNext
  <1>5. ASSUME db' = db, Apart(c), SameView(c), SealsNext(c)
        PROVE  Stamped'
    <2>1. \A d \in Conn \ {c} : SealsNext(d)
      BY <1>3, <1>5 DEF Apart, SameView
    <2> QED  BY <1>2, <1>5, <2>1, StampedOnward
  <1>6. CASE Begins(c) \/ Skipped(c) \/ Looked(c)
    <2>1. db' = db /\ Apart(c) /\ SameView(c) /\ Seen(c)' = Seen(c)
      BY <1>6 DEF Begins, Skipped, Looked
    <2>2. ~ Sealing(c)
      <3>1. CASE Begins(c)
        BY <3>1, NoStatement DEF Begins, Sealing
      <3>2. CASE Skipped(c) \/ Looked(c)
        <4>1. Done(c) = 0
          BY <3>2 DEF Skipped, Looked
        <4>2. Done(c) # 1 /\ Done(c) # 2
          BY <4>1, ZeroOne
        <4> QED  BY <4>2 DEF Sealing
      <3> QED  BY <1>6, <3>1, <3>2
    <2>3. Seen(c)'.unsealed = {}
      BY <1>2, <2>1, <2>2 DEF Loose
    <2> QED  BY <1>4, <1>5, <2>1, <2>3
  <1>7. CASE Ended(c)
    <2>1. db' = db /\ Apart(c) /\ SameView(c)
      BY <1>7 DEF Ended
    <2>2. Seen(c)'.unsealed = {}
      <3>1. CASE Undone(c)
        BY <1>2, <3>1 DEF Undone
      <3>2. CASE LeftOpen(c)
        <4>1. ~ Sealing(c) /\ Seen(c)' = Seen(c)
          BY <3>2, LeftSealed
        <4> QED  BY <1>2, <4>1 DEF Loose
      <3> QED  BY <1>7, <3>1, <3>2 DEF Ended
    <2> QED  BY <1>4, <1>5, <2>1, <2>2
  <1>8. CASE Wrote(c)
    <2>1. db' = db /\ Apart(c) /\ SameView(c)
      BY <1>8 DEF Wrote
    <2> QED  BY <1>2, <1>5, <1>8, <2>1, WroteSeals
  <1>9. CASE Put(c)
    <2>1. /\ Sql(c) = "COMMIT" /\ Underway(c) /\ Apart(c)
          /\ db' = db \/ db' = Seen(c)
          /\ Seen(c)' = db'
          /\ \A d \in Conn \ {c} : Seen(d)' = IF HasView(d) THEN Seen(d) ELSE db'
      BY <1>9 DEF Put
    <2>2. ~ Sealing(c)
      BY <2>1, HalfSealed
    <2>3. db'.unsealed = {} /\ Seen(c)'.unsealed = {}
      BY <1>2, <2>1, <2>2 DEF Loose
    <2>4. ASSUME NEW d \in Conn \ {c}
          PROVE  SealsNext(d)
      <3>1. call'[d] = call[d] /\ Seen(d)' = IF HasView(d) THEN Seen(d) ELSE db'
        BY <2>1 DEF Apart
      <3>2. CASE HasView(d)
        BY <1>3, <3>1, <3>2
      <3>3. CASE ~ HasView(d)
        BY <1>4, <2>3, <3>1, <3>3
      <3> QED  BY <3>2, <3>3
    <2>5. SealsNext(c)
      BY <1>4, <2>3
    <2> QED  BY <2>3, <2>4, <2>5, StampedOnward
  <1> QED  BY <1>1, <1>6, <1>7, <1>8, <1>9

LEMMA TxnStamped == Spec => []Stamped
  <1>1. Init => Stamped
    <2> SUFFICES ASSUME Init
                 PROVE  Stamped
      OBVIOUS
    <2>1. db.unsealed = {} /\ \A c \in Conn : Seen(c) = db
      BY NoTxFields DEF Init, Seen
    <2> QED  BY <2>1 DEF Stamped
  <1>2. TxTypes /\ CallsOK /\ Openings /\ Stamped /\ [Next]_vars => Stamped'
    <2>1. ASSUME Stamped, UNCHANGED vars
          PROVE  Stamped'
      <3> SUFFICES ASSUME ~ partial'
                   PROVE  Stamped'
        BY DEF Stamped
      <3>1. db' = db /\ partial' = partial /\ \A c \in Conn : call'[c] = call[c] /\ Seen(c)' = Seen(c)
        BY <2>1 DEF vars, Seen
      <3>2. db.unsealed = {} /\ \A c \in Conn : Seen(c).unsealed \subseteq Loose(c)
        BY <2>1, <3>1 DEF Stamped
      <3>3. \A c \in Conn : SealsNext(c)
        BY <3>1, <3>2, SameLoose DEF SealsNext
      <3> QED  BY <3>1, <3>2, <3>3, StampedOnward
    <2> QED  BY <2>1, StampedStep
  <1> QED  BY <1>1, <1>2, TxnTypes, TxnOpenings, PTL DEF Spec

------------------------------------------------------------------------------
LEMMA TxnSelects == Spec => []Selects
  <1>1. CallsOK => Selects
    <2> SUFFICES ASSUME CallsOK, NEW c \in Conn, Sql(c) \in Second
                 PROVE  /\ Sql(c) = "SELECT latest" => call[c].op = "active" /\ Done(c) = 1
                        /\ Sql(c) = "SELECT inits" => call[c].op = "initialized" /\ Done(c) = 1
      BY DEF Selects, Second
    <2>1. Underway(c)
      BY NoStatement DEF CallsOK, Second
    <2> QED  BY <2>1, Meaning
  <1> QED  BY <1>1, TxnTypes, PTL

SeeingNext(c) ==
    /\ Sql(c)' = "SELECT latest" /\ ~ mixed'[c] => call'[c].saw = Active(Seen(c)')
    /\ Sql(c)' = "SELECT inits" /\ ~ mixed'[c] => call'[c].saw = Marked(Seen(c)')

LEMMA SeeingSame ==
    ASSUME NEW c \in Conn, SeeingOf(c), call'[c] = call[c],
           \/ Seen(c)' = Seen(c) /\ (mixed[c] => mixed'[c])
           \/ Sql(c) \in Second => mixed'[c]
    PROVE  SeeingNext(c)
  <1>1. Sql(c)' = Sql(c)
    BY SameCallDone
  <1> QED  BY <1>1 DEF SeeingOf, SeeingNext, Second

(* Only a call of the two reading operations comes to a second SELECT.     *)
LEMMA SeeingOther ==
    ASSUME NEW c \in Conn, Selects', call'[c].op \in WriteOp \cup {"none"} \/ Done(c)' = 0
    PROVE  SeeingNext(c)
  <1>1. CASE call'[c].op \in WriteOp \cup {"none"}
    BY <1>1 DEF Selects, SeeingNext, WriteOp
  <1>2. CASE Done(c)' = 0
    <2>1. Done(c)' # 1
      BY <1>2, ZeroOne
    <2> QED  BY <2>1 DEF Selects, SeeingNext
  <1> QED  BY <1>1, <1>2

LEMMA SeeingStill ==
    ASSUME NEW c \in Conn, Seeing, Apart(c), SameView(c),
           \A d \in Conn \ {c} : mixed'[d] = mixed[d], SeeingNext(c)
    PROVE  \A d \in Conn : SeeingNext(d)
  <1>1. ASSUME NEW d \in Conn, d # c
        PROVE  SeeingNext(d)
    <2>1. call'[d] = call[d] /\ Seen(d)' = Seen(d) /\ mixed'[d] = mixed[d] /\ SeeingOf(d)
      BY <1>1 DEF Apart, SameView, Seeing
    <2> QED  BY <2>1, SeeingSame
  <1> QED  BY <1>1

LEMMA SeeingLooked ==
    ASSUME NEW c \in Conn, Selects', Looked(c)
    PROVE  SeeingNext(c)
  <1>1. Underway(c) /\ call'[c].op = call[c].op /\ Seen(c)' = Seen(c)
    BY DEF Looked, SameCall
  <1>2. CASE Sql(c) = "SELECT active"
    <2>1. call'[c].op = "active" /\ call'[c].saw = Active(Seen(c)')
      BY <1>1, <1>2, Meaning DEF Looked, Active
    <2> QED  BY <2>1 DEF Selects, SeeingNext
  <1>3. CASE Sql(c) = "SELECT marker"
    <2>1. call'[c].op = "initialized" /\ call'[c].saw = Marked(Seen(c)')
      BY <1>1, <1>3, Meaning DEF Looked, Marked
    <2> QED  BY <2>1 DEF Selects, SeeingNext
  <1>4. CASE Sql(c) = "SELECT counter"
    <2>1. call'[c].op \in WriteOp
      BY <1>1, <1>4, Meaning DEF WriteOp
    <2> QED  BY <2>1, SeeingOther
  <1> QED  BY <1>2, <1>3, <1>4 DEF Looked

LEMMA SeeingStep ==
    ASSUME TxTypes, CallsOK, Seeing, Selects', Next
    PROVE  Seeing'
  <1> SUFFICES \A d \in Conn : SeeingNext(d)
    BY DEF Seeing, SeeingOf, SeeingNext
  <1>1. PICK c \in Conn : \/ \E k \in Calls : Call(c, k[1], k[2])
                          \/ Write(c) \/ RefusedCall(c) \/ RefusedStep(c) \/ RefusedRow(c)
                          \/ Commit(c) \/ FirstSelect(c) \/ SecondSelect(c) \/ SealSelect(c)
                          \/ Raise(c) \/ Crash(c)
    BY DEF Next
  <1>2. CASE \E k \in Calls : Call(c, k[1], k[2])
    <2>1. Begins(c) /\ mixed' = [mixed EXCEPT ![c] = FALSE]
      BY <1>2, CallStep DEF Call
    <2>2. \A d \in Conn \ {c} : mixed'[d] = mixed[d]
      BY <2>1 DEF TxTypes
    <2>3. Apart(c) /\ SameView(c) /\ SeeingNext(c)
      BY <2>1, SeeingOther DEF Begins
    <2> QED  BY <2>2, <2>3, SeeingStill
  <1>3. CASE Write(c)
    <2>1. Wrote(c) /\ mixed' = mixed
      BY <1>3, WriteStep DEF Write
    <2>2. call'[c].op \in WriteOp
      BY <2>1, Meaning DEF Wrote, SameCall
    <2>3. Apart(c) /\ SameView(c) /\ SeeingNext(c)
      BY <2>1, <2>2, SeeingOther DEF Wrote
    <2> QED  BY <2>1, <2>3, SeeingStill
  <1>4. CASE RefusedStep(c)
    <2>1. Skipped(c) /\ mixed' = mixed
      BY <1>4, RefusedStepStep DEF RefusedStep
    <2>2. call'[c].op \in WriteOp
      BY <2>1, Meaning DEF Skipped, SameCall, Skipping, WriteOp
    <2>3. Apart(c) /\ SameView(c) /\ SeeingNext(c)
      BY <2>1, <2>2, SeeingOther DEF Skipped
    <2> QED  BY <2>1, <2>3, SeeingStill
  <1>5. ASSUME Looked(c), mixed' = mixed
        PROVE  \A d \in Conn : SeeingNext(d)
    <2>2. Apart(c) /\ SameView(c) /\ SeeingNext(c)
      BY <1>5, SeeingLooked DEF Looked
    <2> QED  BY <1>5, <2>2, SeeingStill
  <1>6. ASSUME Ended(c), mixed' = mixed
        PROVE  \A d \in Conn : SeeingNext(d)
    <2>2. call'[c].op = "none"
      BY <1>6 DEF Ended, NoCall
    <2>3. Apart(c) /\ SameView(c) /\ SeeingNext(c)
      BY <1>6, <2>2, SeeingOther DEF Ended
    <2> QED  BY <1>6, <2>3, SeeingStill
  <1>7. CASE FirstSelect(c) \/ SealSelect(c)
    <2>1. (Looked(c) \/ Ended(c)) /\ mixed' = mixed
      BY <1>7, FirstSelectStep, SealSelectStep DEF FirstSelect, SealSelect
    <2> QED  BY <2>1, <1>5, <1>6
  <1>8. CASE RefusedCall(c) \/ RefusedRow(c) \/ SecondSelect(c) \/ Raise(c) \/ Crash(c)
    <2>1. Ended(c) /\ mixed' = mixed
      BY <1>8, RefusedCallStep, RefusedRowStep, SecondSelectStep, RaiseStep, CrashStep
         DEF RefusedCall, RefusedRow, SecondSelect, Raise, Crash
    <2> QED  BY <1>6, <2>1
  <1>9. CASE Commit(c)
    <2>1. Put(c)
      BY <1>9, CommitStep
    <2>2. \A d \in Conn : mixed'[d] = (mixed[d] \/ (db' # db /\ Sql(d) \in Second))
      BY <1>9 DEF Commit, Committed, Second
    <2>3. SeeingNext(c)
      <3>1. call'[c].op = "none"
        BY <2>1 DEF Put, NoCall
      <3> QED  BY <3>1, SeeingOther
    <2>4. ASSUME NEW d \in Conn, d # c
          PROVE  SeeingNext(d)
      <3>1. call'[d] = call[d] /\ Seen(d)' = (IF HasView(d) THEN Seen(d) ELSE db') /\ SeeingOf(d)
        BY <2>1, <2>4 DEF Put, Apart, Seeing
      <3>2. ~ HasView(d) => Seen(d) = db
        BY DEF HasView, Seen
      <3>3. mixed[d] => mixed'[d]
        BY <2>2
      <3>4. CASE HasView(d) \/ db' = db
        BY <3>1, <3>2, <3>3, <3>4, SeeingSame
      <3>5. CASE db' # db
        <4>1. Sql(d) \in Second => mixed'[d]
          BY <2>2, <3>5
        <4> QED  BY <3>1, <4>1, SeeingSame
      <3> QED  BY <3>4, <3>5
    <2> QED  BY <2>3, <2>4
  <1> QED  BY <1>1, <1>2, <1>3, <1>4, <1>7, <1>8, <1>9

LEMMA TxnSeeing == Spec => []Seeing
  <1>1. Init => Seeing
    <2> SUFFICES ASSUME Init, NEW c \in Conn
                 PROVE  SeeingOf(c)
      BY DEF Seeing
    <2>1. Sql(c) = "none"
      BY NoStatement DEF Init
    <2> QED  BY <2>1 DEF SeeingOf
  <1>2. TxTypes /\ CallsOK /\ Selects /\ Selects' /\ Seeing /\ [Next]_vars => Seeing'
    <2>1. ASSUME Seeing, UNCHANGED vars
          PROVE  Seeing'
      <3>1. \A c \in Conn : call'[c] = call[c] /\ Seen(c)' = Seen(c) /\ mixed'[c] = mixed[c]
        BY <2>1 DEF vars, Seen
      <3>2. \A c \in Conn : SeeingNext(c)
        BY <2>1, <3>1, SeeingSame DEF Seeing
      <3> QED  BY <3>2 DEF Seeing, SeeingOf, SeeingNext
    <2> QED  BY <2>1, SeeingStep
  <1> QED  BY <1>1, <1>2, TxnTypes, TxnSelects, PTL DEF Spec

(* What the two SELECTs of an untouched file say agrees, unless they come  *)
(* from either side of a sibling's commit.                                 *)
LEMMA NoAlarm ==
    ASSUME TxTypes, CallsOK, Listed, Filled, Seeing,
           NEW c \in Conn, Sql(c) \in Second, ~ mixed[c], ~ partial
    PROVE  ~ Disagrees(c)
  <1>1. Underway(c) /\ Seen(c) \in Database
    BY NoStatement, SeenType DEF CallsOK, Second
  <1>2. CASE Sql(c) = "SELECT latest"
    <2>1. ~ Moving(c)
      BY <1>1, <1>2, Meaning DEF Moving
    <2>2. ListedBut(Seen(c), {})
      BY <2>1 DEF Listed, ListedBy
    <2>3. call[c].saw = Active(Seen(c))
      BY <1>2 DEF Seeing, SeeingOf
    <2>4. \A i \in DOMAIN Seen(c).ledger : Seen(c).ledger[i].rid \in Rid
      BY <1>1, LedgerRids
    <2>5. ~ LedgerDisagrees(c)
      BY <2>2, <2>3, <2>4 DEF LedgerDisagrees, ListedBut, Active
    <2> QED  BY <1>2, <2>5 DEF Disagrees
  <1>3. CASE Sql(c) = "SELECT inits"
    <2>1. ~ Filling(c)
      BY <1>1, <1>3, Meaning DEF Filling, Long
    <2>2. Settled(Seen(c))
      BY <2>1, NotFilling DEF Filled
    <2>3. call[c].saw = Marked(Seen(c))
      BY <1>3 DEF Seeing, SeeingOf
    <2>4. Seen(c).inits \in BOOLEAN /\ Seen(c).marker \in BOOLEAN /\ Seen(c).marker = Seen(c).inits
      BY <1>1, <2>2 DEF Settled, Database
    <2>5. ~ MarkerDisagrees(c)
      BY <2>3, <2>4 DEF MarkerDisagrees, Marked
    <2> QED  BY <1>3, <2>5 DEF Disagrees
  <1> QED  BY <1>2, <1>3 DEF Second

LEMMA NoBadSeal ==
    ASSUME CallsOK, Stamped, NEW c \in Conn, Sql(c) \in {"SELECT rows", "SELECT counter"}, ~ partial
    PROVE  Sealed(c)
  <1>1. Underway(c)
    BY NoStatement DEF CallsOK
  <1>2. Seen(c).unsealed = {}
    BY <1>1, HalfSealed DEF Stamped, Loose
  <1> QED  BY <1>2 DEF Sealed

(* RowIntegrityError, the tamper alarm of active_restrictions,             *)
(* is_authority_initialized, get_live_authority_rows and                   *)
(* increment_step_counter, is raised on an untouched file only when a      *)
(* sibling has committed between the two SELECTs of a cross-check, or the  *)
(* halves of a failed call have been let in: for any number of             *)
(* connections, calls, restrictions and failures.                          *)
THEOREM AlarmsAreExplained == Spec => AlarmIsExplained
  <1>1. TxTypes /\ CallsOK /\ Listed /\ Filled /\ Stamped /\ Seeing /\ [Next]_vars
            => [\A c \in Conn : alarm'[c] /\ ~ alarm[c] => mixed[c] \/ partial]_vars
    <2> SUFFICES ASSUME TxTypes, CallsOK, Listed, Filled, Stamped, Seeing, Next,
                        NEW c \in Conn, alarm'[c], ~ alarm[c], ~ mixed[c], ~ partial
                 PROVE  FALSE
      OBVIOUS
    <2>0. alarm \in [Conn -> BOOLEAN]
      BY DEF TxTypes
    <2>1. PICK e \in Conn : \/ \E k \in Calls : Call(e, k[1], k[2])
                            \/ Write(e) \/ RefusedCall(e) \/ RefusedStep(e) \/ RefusedRow(e)
                            \/ Commit(e) \/ FirstSelect(e) \/ SecondSelect(e) \/ SealSelect(e)
                            \/ Raise(e) \/ Crash(e)
      BY DEF Next
    <2>2. alarm' # alarm
      OBVIOUS
    <2>3. (\E k \in Calls : Call(e, k[1], k[2])) \/ SecondSelect(e) \/ SealSelect(e)
      BY <2>1, <2>2 DEF Write, RefusedCall, RefusedStep, RefusedRow, Commit, FirstSelect, Raise, Crash
    <2>4. CASE \E k \in Calls : Call(e, k[1], k[2])
      <3>1. alarm' = [alarm EXCEPT ![e] = FALSE]
        BY <2>4 DEF Call
      <3> QED  BY <2>0, <3>1
    <2>5. CASE SecondSelect(e)
      <3>1. alarm' = [alarm EXCEPT ![e] = Disagrees(e)] /\ Sql(e) \in Second
        BY <2>5 DEF SecondSelect, Second
      <3>2. c = e /\ Disagrees(e)
        BY <2>0, <3>1
      <3> QED  BY <3>1, <3>2, NoAlarm
    <2>6. CASE SealSelect(e)
      <3>1. alarm' = [alarm EXCEPT ![e] = ~ Sealed(e)] /\ Sql(e) \in {"SELECT rows", "SELECT counter"}
        BY <2>6 DEF SealSelect
      <3>2. c = e /\ (~ Sealed(e))
        BY <2>0, <3>1
      <3> QED  BY <3>1, <3>2, NoBadSeal
    <2> QED  BY <2>3, <2>4, <2>5, <2>6
  <1> QED  BY <1>1, TxnTypes, TxnListed, TxnFilled, TxnStamped, TxnSeeing, PTL
           DEF Spec, AlarmIsExplained
==============================================================================
