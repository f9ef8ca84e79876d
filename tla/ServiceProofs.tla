----------------------------- MODULE ServiceProofs -----------------------------
(* What holds of the service for any clients, connections and workloads,   *)
(* of the governor it drives, which keeps everything in memory, and of the *)
(* quorum for any weights and any threshold.                               *)
EXTENDS Service, FiniteSetTheorems, SequenceTheorems, TLAPS

(* A larger share of the same total clears the threshold all the more.     *)
LEMMA ShareIsMonotone ==
    ASSUME NEW a \in Nat, NEW b \in Nat, a <= b
    PROVE  Den * a <= Den * b
  <1>1. PICK d \in Nat : b = a + d
    <2>1. b - a \in Nat /\ b = a + (b - a)
      OBVIOUS
    <2> QED  BY <2>1
  <1>2. Den * b = Den * a + Den * d
    BY <1>1, ThresholdAssumption
  <1>3. Den * d \in Nat /\ Den * a \in Nat
    BY <1>1, ThresholdAssumption
  <1> QED  BY <1>2, <1>3

(* Votes that lean to CONTINUE at least as much, and to HUMAN no more, make*)
(* CONTINUE of whatever does: by no weight and at no threshold does a more *)
(* cautious vote help an action through (QuorumAggregator.aggregate).      *)
THEOREM CautionNeverHelps ==
    ASSUME NEW v \in [Decision -> Nat], NEW w \in [Decision -> Nat],
           Total(v) = Total(w), Total(w) > 0,
           v["CONTINUE"] <= w["CONTINUE"], w["HUMAN"] <= v["HUMAN"],
           Outcome(v) = "CONTINUE"
    PROVE  Outcome(w) = "CONTINUE"
  <1> DEFINE T == Total(w)
  <1>1. /\ \A d \in Decision : v[d] \in Nat /\ w[d] \in Nat
        /\ "CONTINUE" \in Decision /\ "HUMAN" \in Decision
        /\ "RESTRICT" \in Decision /\ "RECHECK" \in Decision
        /\ T \in Nat
    BY DEF Decision, Total
  <1>2. v["HUMAN"] = 0 /\ w["HUMAN"] = 0
    BY <1>1 DEF Outcome
  <1>3. CASE \E d \in Decision : v[d] = Total(v)
    <2>1. v["CONTINUE"] = T
      BY <1>1, <1>2, <1>3 DEF Outcome
    <2>2. w["CONTINUE"] = T
      BY <1>1, <2>1 DEF Total
    <2>3. \A d \in Decision : w[d] = T => d = "CONTINUE"
      BY <1>1, <2>2 DEF Decision, Total
    <2> QED  BY <1>1, <1>2, <2>2, <2>3 DEF Outcome
  <1>4. CASE ~ \E d \in Decision : v[d] = Total(v)
    <2>1. MeetsThreshold(v, "CONTINUE") /\ ~ HumanOnDisagreement
      BY <1>1, <1>2, <1>4 DEF Outcome
    <2>2. Den * v["CONTINUE"] <= Den * w["CONTINUE"]
      BY <1>1, ShareIsMonotone
    <2>3. Num * T \in Nat /\ Den * v["CONTINUE"] \in Nat /\ Den * w["CONTINUE"] \in Nat
      BY <1>1, ThresholdAssumption
    <2>4. MeetsThreshold(w, "CONTINUE")
      BY <2>1, <2>2, <2>3 DEF MeetsThreshold
    <2>5. Num * T > 0
      BY <1>1, ThresholdAssumption
    <2>6. w["CONTINUE"] # 0
      BY <2>2, <2>3, <2>4, <2>5, <1>1, ThresholdAssumption DEF MeetsThreshold
    <2>7. \A d \in Decision : w[d] = T => d = "CONTINUE"
      <3>1. w["CONTINUE"] >= 1
        BY <1>1, <2>6
      <3> QED  BY <1>1, <3>1 DEF Decision, Total
    <2>8. CASE \E d \in Decision : w[d] = T
      BY <1>2, <2>7, <2>8 DEF Outcome
    <2>9. CASE ~ \E d \in Decision : w[d] = T
      BY <1>2, <2>1, <2>4, <2>9 DEF Outcome
    <2> QED  BY <2>8, <2>9
  <1> QED  BY <1>3, <1>4

(* Where disagreement is not tolerated, CONTINUE is unanimous.             *)
THEOREM StrictIsUnanimous ==
    ASSUME NEW w \in [Decision -> Nat], HumanOnDisagreement,
           Outcome(w) = "CONTINUE"
    PROVE  w["CONTINUE"] = Total(w)
  <1>1. CASE \E d \in Decision : w[d] = Total(w)
    BY <1>1 DEF Outcome
  <1>2. CASE ~ \E d \in Decision : w[d] = Total(w)
    BY <1>2 DEF Outcome
  <1> QED  BY <1>1, <1>2
------------------------------------------------------------------------------
(* The inductive invariant: what everything is,                            *)
Request == (UNION {w.requests : w \in Workload})
               \cup {[op |-> "auth", token |-> TokenOf[c]] : c \in Client}
Stage == {"none", "queued", "auth", "reading", "running", "closed"}
Incoming == [id : Nat, request : Request]
Outgoing == [id : Nat, ok : BOOLEAN]
Peer == {Identity[t] : t \in DOMAIN Identity} \cup {Unserved}
Connection == [pc : Stage, client : Client \cup {Nobody}, caller : Peer, open : BOOLEAN,
               in : Seq(Incoming), out : Seq(Outgoing)]
Pending == [id : Nat, op : {r.op : r \in Request} \cup {"none", "auth"},
            on : Conn \cup {NoConn}]

Sorts ==
    /\ work \in Workload
    /\ sock \in [Client -> Conn \cup {NoConn}]
    /\ lock \in [Client -> User \cup {Nobody}]
    /\ ids \in [Client -> Nat] /\ joining \subseteq User
    /\ waiting \in [User -> Pending]
    /\ conn \in [Conn -> Connection]
    /\ slots \in Int /\ leaked \in Nat
    /\ accepting \in BOOLEAN /\ stopped \in BOOLEAN
    /\ late \subseteq Conn /\ crossed \subseteq Conn
    /\ after \in [Conn -> Nat]

(* a thread that runs a boundary has a request to answer, and one that has *)
(* read after stop() is at its last;                                       *)
Owed == \A k \in Conn : conn[k].pc = "running" => conn[k].in # <<>>
LastRequest ==
    \A k \in Conn : after[k] = 0 \/ (/\ after[k] = 1 /\ stopped
                                     /\ conn[k].pc \in {"running", "closed"})

(* a call under way holds its client's lock, on a connection of its client;*)
Bound(u) ==
    waiting[u] = NoCall \/
        (/\ waiting[u].on \in Conn /\ lock[ClientOf[u]] = u
         /\ conn[waiting[u].on].client = ClientOf[u]
         /\ conn[waiting[u].on].pc # "none")
Callers == \A u \in User : Bound(u)
Sockets ==
    \A c \in Client : sock[c] # NoConn =>
        conn[sock[c]].client = c /\ conn[sock[c]].pc # "none"

(* and where no call has timed out, either nobody waits and nothing is on  *)
(* its way, or one call waits for the one frame that is, or for a thread   *)
(* that has ended.                                                         *)
Quiescent(k) ==
    /\ \A u \in User : waiting[u].on # k
    /\ conn[k].out = <<>> /\ (conn[k].pc # "closed" => conn[k].in = <<>>)
Asked(k, u) == /\ conn[k].out = <<>> /\ Len(conn[k].in) = 1
               /\ conn[k].in[1].id = waiting[u].id
Answered(k, u) == /\ conn[k].in = <<>> /\ Len(conn[k].out) = 1
                  /\ conn[k].out[1].id = waiting[u].id
Given(k, u) == conn[k].out = <<>> /\ conn[k].pc = "closed"
Matched(k) ==
    Quiescent(k) \/ \E u \in User : /\ waiting[u].on = k
                                    /\ Asked(k, u) \/ Answered(k, u) \/ Given(k, u)
Pairs == \A k \in Conn : conn[k].open /\ k \notin late => Matched(k)

Inv == Sorts /\ Owed /\ LastRequest /\ Callers /\ Sockets /\ Pairs
------------------------------------------------------------------------------
(* No step of the governor changes the workload.                           *)
LEMMA GovernorKeepsWork ==
    ASSUME NEW t, NEW p, NEW d,
           Unheeded(t, p) \/ Denied(t, p) \/ Refused(t, p, d) \/ Executing(t, p)
               \/ Executed(t, d)
    PROVE  work' = work
  BY DEF Unheeded, Denied, Refused, Executing, Executed, govVars

LEMMA DelegationKeepsWork ==
    ASSUME NEW t, NEW a, NEW b, NEW n,
           Delegate(t, a, b, n) \/ DelegationRefused(t, a, n) \/ RevokeDelegation(t, a)
    PROVE  work' = work
  BY DEF Delegate, DelegationRefused, RevokeDelegation, Publish

LEMMA OperatorKeepsWork == Operator => work' = work
  BY DEF Operator, AddKey, RevokeKey, RotateKey, RegistryChanges

(* What a thread does that answers a request,                              *)
Serving == {"auth", "reading", "running"}

Counted(k) ==
    after' = IF conn[k].pc = "reading" /\ stopped
             THEN [after EXCEPT ![k] = @ + 1] ELSE after

Served(k) ==
    /\ UNCHANGED <<work, clientVars, accepting, stopped, leaked>>
    /\ conn' \in [Conn -> Connection]
    /\ \A i \in Conn \ {k} : conn'[i] = conn[i]
    /\ conn'[k].client = conn[k].client /\ conn'[k].open = conn[k].open
    /\ conn[k].in # <<>> /\ conn'[k].in = Tail(conn[k].in)
    /\ conn[k].open =>
           \E b \in BOOLEAN :
               conn'[k].out = Append(conn[k].out, [id |-> Head(conn[k].in).id, ok |-> b])
    /\ conn[k].pc \in Serving /\ conn'[k].pc \in {"reading", "closed"}
    /\ stopped => conn'[k].pc = "closed"
    /\ slots' = IF conn'[k].pc = "closed" THEN slots + 1 ELSE slots
    /\ Counted(k)

(* and what a step does that only moves threads.                           *)
Onward(i) ==
    /\ conn'[i].in = conn[i].in /\ conn'[i].out = conn[i].out
    /\ conn'[i].client = conn[i].client /\ conn'[i].open = conn[i].open
    /\ conn[i].pc \in {"running", "closed"} => conn'[i].pc = conn[i].pc
    /\ conn[i].pc # "none" => conn'[i].pc # "none"
    /\ conn'[i].pc = "running" => conn[i].in # <<>>

Moved ==
    /\ UNCHANGED <<work, clientVars>>
    /\ conn' \in [Conn -> Connection] /\ \A i \in Conn : Onward(i)
    /\ slots' \in Int /\ leaked' \in Nat
    /\ accepting' \in BOOLEAN /\ stopped' \in BOOLEAN /\ (stopped => stopped')
    /\ \/ after' = after
       \/ \E k \in Conn : conn[k].pc = "reading" /\ conn'[k].pc = "running" /\ Counted(k)

(* A slot is kept for every thread that serves.                            *)
Threads == {k \in Conn : conn[k].pc \in Serving}
Accounted ==
    /\ accepting' => accepting /\ leaked' = leaked
    /\ \/ Threads' = Threads /\ slots' = slots /\ leaked' = leaked
       \/ Threads' = Threads /\ slots' = slots - 1 /\ leaked' = leaked + 1
       \/ /\ slots' = slots - 1 /\ leaked' = leaked
          /\ \E k \in Conn \ Threads : Threads' = Threads \cup {k}
       \/ /\ slots' = slots + 1 /\ leaked' = leaked
          /\ \E k \in Threads : Threads' = Threads \ {k}

LEMMA AnswersServe ==
    ASSUME Sorts, NEW k \in Conn, NEW ok \in BOOLEAN, NEW rest \in {"reading", "closed"},
           NEW caller \in Peer, conn[k].in # <<>>, conn[k].pc \in Serving,
           stopped => rest = "closed", Counted(k), work' = work,
           Answers(k, ok, rest, caller)
    PROVE  Served(k)
  <1> DEFINE f == Head(conn[k].in)
             pc == IF conn[k].open THEN rest ELSE "closed"
             out == IF conn[k].open THEN Append(conn[k].out, [id |-> f.id, ok |-> ok])
                    ELSE conn[k].out
  <1>1. conn[k] \in Connection /\ conn \in [Conn -> Connection]
    BY DEF Sorts
  <1>2. f \in Incoming /\ Tail(conn[k].in) \in Seq(Incoming)
    BY <1>1 DEF Connection
  <1>3. f.id \in Nat
    BY <1>2 DEF Incoming
  <1>4. [id |-> f.id, ok |-> ok] \in Outgoing
    BY <1>3 DEF Outgoing
  <1>5. out \in Seq(Outgoing)
    BY <1>1, <1>4 DEF Connection
  <1>6. conn' = [conn EXCEPT ![k] = [conn[k] EXCEPT !.in = Tail(conn[k].in),
                     !.caller = caller, !.pc = pc, !.out = out]]
    BY <1>1 DEF Answers, Connection
  <1>7. conn'[k] = [conn[k] EXCEPT !.in = Tail(conn[k].in),
                     !.caller = caller, !.pc = pc, !.out = out]
    BY <1>1, <1>6
  <1> HIDE DEF f, out
  <1>8. /\ conn'[k] \in Connection
        /\ conn'[k].client = conn[k].client /\ conn'[k].open = conn[k].open
        /\ conn'[k].in = Tail(conn[k].in) /\ conn'[k].pc = pc /\ conn'[k].out = out
    BY <1>1, <1>2, <1>5, <1>7 DEF Connection, Stage
  <1>9. \A i \in Conn \ {k} : conn'[i] = conn[i]
    BY <1>1, <1>6
  <1>10. conn' \in [Conn -> Connection]
    BY <1>1, <1>6, <1>8, <1>9
  <1>11. /\ UNCHANGED <<clientVars, accepting, stopped, leaked>>
         /\ slots' = IF pc = "closed" THEN slots + 1 ELSE slots
    BY DEF Answers, Released
  <1>12. conn[k].open => \E b \in BOOLEAN :
             conn'[k].out = Append(conn[k].out, [id |-> Head(conn[k].in).id, ok |-> b])
    BY <1>8 DEF out, f
  <1> QED  BY <1>8, <1>9, <1>10, <1>11, <1>12 DEF Served

LEMMA AuthenticateServes ==
    ASSUME Sorts, NEW k \in Conn, Authenticate(k)
    PROVE  Served(k)
  <1> DEFINE r == Head(conn[k].in).request
  <1>1. /\ conn[k].pc = "auth" /\ conn[k].in # <<>> /\ conn[k].pc \in Serving
        /\ work' = work /\ after' = after
    BY DEF Authenticate, govVars, Serving
  <1>2. Counted(k)
    BY <1>1 DEF Counted
  <1>3. CASE r.op = "auth" /\ r.token \in DOMAIN Identity
    <2>1. Answers(k, TRUE, NextRound, Identity[r.token])
      BY <1>3 DEF Authenticate
    <2>2. Identity[r.token] \in Peer
      BY <1>3 DEF Peer
    <2>3. NextRound \in {"reading", "closed"} /\ (stopped => NextRound = "closed")
      BY DEF NextRound
    <2> HIDE DEF r
    <2> QED  BY <1>1, <1>2, <2>1, <2>2, <2>3, AnswersServe
  <1>4. CASE ~ (r.op = "auth" /\ r.token \in DOMAIN Identity)
    <2>1. Answers(k, FALSE, "closed", Unserved)
      BY <1>4 DEF Authenticate
    <2> QED  BY <1>1, <1>2, <2>1, AnswersServe DEF Peer
  <1> QED  BY <1>3, <1>4

LEMMA RepliesServe ==
    ASSUME Sorts, NEW k \in Conn, NEW ok \in BOOLEAN,
           conn[k].in # <<>>, conn[k].pc \in {"reading", "running"}, Counted(k),
           work' = work, Replies(k, ok)
    PROVE  Served(k)
  <1>1. conn[k].caller \in Peer
    BY DEF Sorts, Connection
  <1>2. NextRound \in {"reading", "closed"} /\ (stopped => NextRound = "closed")
    BY DEF NextRound
  <1>3. conn[k].pc \in Serving
    BY DEF Serving
  <1> QED  BY <1>1, <1>2, <1>3, AnswersServe DEF Replies

LEMMA ReadsCount ==
    ASSUME NEW k \in Conn, NEW op, Reads(k, op)
    PROVE  conn[k].pc = "reading" /\ conn[k].in # <<>> /\ Counted(k)
  BY DEF Reads, Counted

LEMMA PingServes ==
    ASSUME Sorts, NEW k \in Conn, Ping(k)
    PROVE  Served(k)
  BY ReadsCount, RepliesServe DEF Ping, govVars

LEMMA DelegationServes ==
    ASSUME Sorts, NEW k \in Conn, RegisterDelegation(k)
    PROVE  Served(k)
  <1> DEFINE r == Head(conn[k].in).request.about
  <1>1. conn[k].pc = "reading" /\ conn[k].in # <<>> /\ Counted(k)
    BY ReadsCount DEF RegisterDelegation
  <1>2. \E ok \in BOOLEAN : Replies(k, ok)
    BY DEF RegisterDelegation
  <1>3. \/ Delegate(k, r.from, r.to, r.units) \/ DelegationRefused(k, r.from, r.units)
        \/ UNCHANGED govVars
    BY DEF RegisterDelegation
  <1> HIDE DEF r
  <1>4. work' = work
    BY <1>3, DelegationKeepsWork DEF govVars
  <1> QED  BY <1>1, <1>2, <1>4, RepliesServe

LEMMA RevokeServes ==
    ASSUME Sorts, NEW k \in Conn, Revoke(k)
    PROVE  Served(k)
  <1>1. conn[k].pc = "reading" /\ conn[k].in # <<>> /\ Counted(k)
    BY ReadsCount DEF Revoke
  <1>2. \E ok \in BOOLEAN : Replies(k, ok)
    BY DEF Revoke
  <1>3. RevokeDelegation(k, Head(conn[k].in).request.about) \/ UNCHANGED govVars
    BY DEF Revoke
  <1>4. work' = work
    BY <1>3, DelegationKeepsWork DEF govVars
  <1> QED  BY <1>1, <1>2, <1>4, RepliesServe

(* A thread that takes one step forward moves, and nothing else does.      *)
LEMMA StepMoves ==
    ASSUME Sorts, Owed, NEW k \in Conn, NEW stage \in Stage \ {"none"},
           conn' = [conn EXCEPT ![k].pc = stage],
           conn[k].pc \notin {"running", "closed"},
           stage = "running" => conn[k].in # <<>>
    PROVE  /\ conn' \in [Conn -> Connection] /\ conn'[k].pc = stage
           /\ \A i \in Conn \ {k} : conn'[i] = conn[i]
           /\ \A i \in Conn : Onward(i)
  <1>1. conn \in [Conn -> Connection] /\ conn[k] \in Connection
    BY DEF Sorts
  <1>2. [conn[k] EXCEPT !.pc = stage] \in Connection
    BY <1>1 DEF Connection
  <1>3. conn' = [conn EXCEPT ![k] = [conn[k] EXCEPT !.pc = stage]]
    OBVIOUS
  <1>4. conn'[k] = [conn[k] EXCEPT !.pc = stage] /\ conn' \in [Conn -> Connection]
        /\ \A i \in Conn \ {k} : conn'[i] = conn[i]
    BY <1>1, <1>2, <1>3
  <1>5. /\ conn'[k].pc = stage /\ conn'[k].in = conn[k].in /\ conn'[k].out = conn[k].out
        /\ conn'[k].client = conn[k].client /\ conn'[k].open = conn[k].open
    BY <1>1, <1>4 DEF Connection
  <1>6. Onward(k)
    BY <1>5 DEF Onward
  <1>7. \A i \in Conn \ {k} : Onward(i)
    BY <1>4 DEF Onward, Owed
  <1> QED  BY <1>4, <1>5, <1>6, <1>7

(* What stays as it is has moved too.                                      *)
LEMMA StillMoves ==
    ASSUME Sorts, Owed, conn' = conn
    PROVE  conn' \in [Conn -> Connection] /\ \A i \in Conn : Onward(i)
  BY DEF Sorts, Onward, Owed

(* An evaluation is answered, or its boundary starts to run.               *)
LEMMA EvaluateServes ==
    ASSUME Sorts, Owed, NEW k \in Conn, Evaluate(k)
    PROVE  Served(k) \/ (Moved /\ Accounted)
  <1> DEFINE p == Head(conn[k].in).request.about
  <1>1. conn[k].pc = "reading" /\ conn[k].in # <<>> /\ Counted(k)
    BY ReadsCount DEF Evaluate
  <1>2. CASE Decided(k, p) /\ Replies(k, TRUE)
    <2> HIDE DEF p
    <2>1. work' = work
      BY <1>2, GovernorKeepsWork DEF Decided
    <2> QED  BY <1>1, <1>2, <2>1, RepliesServe
  <1>3. CASE /\ Executing(k, p) /\ conn' = [conn EXCEPT ![k].pc = "running"]
             /\ UNCHANGED <<clientVars, slots, accepting, stopped, leaked>>
    <2> HIDE DEF p
    <2>1. work' = work
      BY <1>3, GovernorKeepsWork
    <2>2. /\ conn' \in [Conn -> Connection] /\ conn'[k].pc = "running"
          /\ \A i \in Conn \ {k} : conn'[i] = conn[i]
          /\ \A i \in Conn : Onward(i)
      BY <1>1, <1>3, StepMoves DEF Stage
    <2>3. Moved
      BY <1>1, <1>3, <2>1, <2>2 DEF Moved, Sorts
    <2>4. Threads' = Threads
      BY <1>1, <2>2 DEF Threads, Serving
    <2> QED  BY <1>3, <2>3, <2>4 DEF Accounted
  <1> QED  BY <1>2, <1>3 DEF Evaluate

(* The boundary evaluates something itself, and returns: it answers when   *)
(* it is the outermost.                                                    *)
LEMMA NestedMoves ==
    ASSUME Sorts, Owed, NEW k \in Conn, Nested(k)
    PROVE  Moved /\ Accounted
  <1>1. UNCHANGED <<clientVars, conn, serverVars>>
    BY DEF Nested
  <1>2. work' = work
    BY GovernorKeepsWork DEF Nested, Decided
  <1>3. Moved
    BY <1>1, <1>2, StillMoves DEF Moved, Sorts, serverVars
  <1>4. Threads' = Threads
    BY <1>1 DEF Threads
  <1> QED  BY <1>1, <1>3, <1>4 DEF Accounted, serverVars

LEMMA NestedGrantsMoves ==
    ASSUME Sorts, Owed, NEW k \in Conn, NestedGrants(k)
    PROVE  Moved /\ Accounted
  <1>1. UNCHANGED <<clientVars, conn, serverVars>>
    BY DEF NestedGrants
  <1>2. work' = work
    BY DelegationKeepsWork DEF NestedGrants
  <1>3. Moved
    BY <1>1, <1>2, StillMoves DEF Moved, Sorts, serverVars
  <1>4. Threads' = Threads
    BY <1>1 DEF Threads
  <1> QED  BY <1>1, <1>3, <1>4 DEF Accounted, serverVars

LEMMA ReturnsServes ==
    ASSUME Sorts, Owed, NEW k \in Conn, Returns(k)
    PROVE  Served(k) \/ (Moved /\ Accounted)
  <1>1. conn[k].pc = "running" /\ conn[k].in # <<>> /\ after' = after
    BY DEF Returns, Owed
  <1>2. work' = work
    BY GovernorKeepsWork DEF Returns
  <1>3. CASE UNCHANGED <<clientVars, conn, slots, accepting, stopped, leaked>>
    <2>1. Moved
      BY <1>1, <1>2, <1>3, StillMoves DEF Moved, Sorts
    <2>2. Threads' = Threads
      BY <1>3 DEF Threads
    <2> QED  BY <1>3, <2>1, <2>2 DEF Accounted
  <1>4. CASE Replies(k, TRUE)
    <2>1. Counted(k)
      BY <1>1 DEF Counted
    <2> QED  BY <1>1, <1>2, <1>4, <2>1, RepliesServe
  <1> QED  BY <1>3, <1>4 DEF Returns

LEMMA OperatorMoves ==
    ASSUME Sorts, Owed, Operator, UNCHANGED <<clientVars, conn, serverVars>>
    PROVE  Moved /\ Accounted
  <1>1. work' = work
    BY OperatorKeepsWork
  <1>2. Moved
    BY <1>1, StillMoves DEF Moved, Sorts, serverVars
  <1>3. Threads' = Threads
    BY DEF Threads
  <1> QED  BY <1>2, <1>3 DEF Accounted, serverVars

(* The accept loop.                                                        *)
LEMMA AcceptMoves ==
    ASSUME Sorts, Owed, NEW k \in Conn, Accept(k)
    PROVE  Moved /\ Accounted
  <1> DEFINE stage == IF slots > 0 THEN "auth" ELSE "closed"
  <1>1. /\ conn[k].pc = "queued" /\ conn' = [conn EXCEPT ![k].pc = stage]
        /\ UNCHANGED <<govVars, clientVars, accepting, stopped, leaked, after>>
        /\ slots' = IF slots > 0 THEN slots - 1 ELSE slots
    BY DEF Accept, NextInLine
  <1>2. stage \in Stage \ {"none"} /\ stage # "running"
    BY DEF Stage
  <1> HIDE DEF stage
  <1>3. /\ conn' \in [Conn -> Connection] /\ conn'[k].pc = stage
        /\ \A i \in Conn \ {k} : conn'[i] = conn[i]
        /\ \A i \in Conn : Onward(i)
    BY <1>1, <1>2, StepMoves
  <1>4. Moved
    BY <1>1, <1>3 DEF Moved, Sorts, govVars
  <1>5. k \in Conn \ Threads
    BY <1>1 DEF Threads, Serving
  <1>6. CASE slots > 0
    <2>1. Threads' = Threads \cup {k}
      BY <1>3, <1>6 DEF Threads, Serving, stage
    <2> QED  BY <1>1, <1>4, <1>5, <1>6, <2>1 DEF Accounted
  <1>7. CASE ~ (slots > 0)
    <2>1. Threads' = Threads
      BY <1>1, <1>3, <1>7 DEF Threads, Serving, stage
    <2> QED  BY <1>1, <1>4, <1>7, <2>1 DEF Accounted
  <1> QED  BY <1>6, <1>7

LEMMA ThreadFailsMoves ==
    ASSUME Sorts, Owed, NEW k \in Conn, ThreadFails(k)
    PROVE  Moved /\ Accounted
  <1>1. /\ conn[k].pc = "queued" /\ conn' = [conn EXCEPT ![k].pc = "closed"]
        /\ UNCHANGED <<govVars, clientVars, stopped, after>>
        /\ slots' = slots - 1 /\ leaked' = leaked + 1 /\ accepting' = FALSE
    BY DEF ThreadFails, NextInLine
  <1>2. /\ conn' \in [Conn -> Connection] /\ conn'[k].pc = "closed"
        /\ \A i \in Conn \ {k} : conn'[i] = conn[i]
        /\ \A i \in Conn : Onward(i)
    BY <1>1, StepMoves DEF Stage
  <1>3. slots' \in Int /\ leaked' \in Nat
    BY <1>1 DEF Sorts
  <1>4. Moved
    BY <1>1, <1>2, <1>3 DEF Moved, Sorts, govVars
  <1>5. Threads' = Threads
    BY <1>1, <1>2 DEF Threads, Serving
  <1> QED  BY <1>1, <1>3, <1>4, <1>5 DEF Accounted

LEMMA GivesUpMoves ==
    ASSUME Sorts, Owed, NEW k \in Conn, GivesUp(k)
    PROVE  Moved /\ Accounted
  <1>1. /\ conn[k].pc \in {"auth", "reading"} /\ conn' = [conn EXCEPT ![k].pc = "closed"]
        /\ UNCHANGED <<govVars, clientVars, accepting, stopped, leaked, after>>
        /\ slots' = slots + 1
    BY DEF GivesUp, Released
  <1>2. /\ conn' \in [Conn -> Connection] /\ conn'[k].pc = "closed"
        /\ \A i \in Conn \ {k} : conn'[i] = conn[i]
        /\ \A i \in Conn : Onward(i)
    BY <1>1, StepMoves DEF Stage
  <1>3. slots' \in Int
    BY <1>1 DEF Sorts
  <1>4. Moved
    BY <1>1, <1>2, <1>3 DEF Moved, Sorts, govVars
  <1>5. k \in Threads /\ Threads' = Threads \ {k}
    BY <1>1, <1>2 DEF Threads, Serving
  <1> QED  BY <1>1, <1>3, <1>4, <1>5 DEF Accounted

LEMMA LoopEndsMoves ==
    ASSUME Sorts, Owed, AcceptFails \/ Stop
    PROVE  Moved /\ Accounted
  <1>1. /\ UNCHANGED <<govVars, clientVars, conn, slots, leaked, after>>
        /\ accepting' \in BOOLEAN /\ (accepting' => accepting)
        /\ stopped' \in BOOLEAN /\ (stopped => stopped')
    <2>1. CASE AcceptFails
      BY <2>1 DEF AcceptFails, Sorts
    <2>2. CASE Stop
      BY <2>2 DEF Stop, Sorts
    <2> QED  BY <2>1, <2>2
  <1>2. Moved
    BY <1>1, StillMoves DEF Moved, Sorts, govVars
  <1>3. Threads' = Threads
    BY <1>1 DEF Threads
  <1> QED  BY <1>1, <1>2, <1>3 DEF Accounted

LEMMA StopListeningMoves ==
    ASSUME Sorts, Owed, StopListening
    PROVE  Moved /\ Accounted
  <1>1. /\ UNCHANGED <<govVars, clientVars, slots, stopped, leaked, after>>
        /\ accepting' = FALSE
        /\ conn' = [k \in Conn |-> IF conn[k].pc = "queued"
                                   THEN [conn[k] EXCEPT !.pc = "closed"] ELSE conn[k]]
    BY DEF StopListening
  <1>2. ASSUME NEW i \in Conn
        PROVE  /\ conn'[i] \in Connection /\ Onward(i)
               /\ conn'[i].pc \in Serving <=> conn[i].pc \in Serving
    <2>1. conn[i] \in Connection
      BY DEF Sorts
    <2>2. CASE conn[i].pc = "queued"
      <3>1. conn'[i] = [conn[i] EXCEPT !.pc = "closed"]
        BY <1>1, <2>2
      <3>2. /\ conn'[i] \in Connection /\ conn'[i].pc = "closed"
            /\ conn'[i].in = conn[i].in /\ conn'[i].out = conn[i].out
            /\ conn'[i].client = conn[i].client /\ conn'[i].open = conn[i].open
        BY <2>1, <3>1 DEF Connection, Stage
      <3> QED  BY <2>2, <3>2 DEF Onward, Serving
    <2>3. CASE conn[i].pc # "queued"
      <3>1. conn'[i] = conn[i]
        BY <1>1, <2>3
      <3> QED  BY <2>1, <3>1 DEF Onward, Owed
    <2> QED  BY <2>2, <2>3
  <1>3. conn' \in [Conn -> Connection]
    BY <1>1, <1>2
  <1>4. Moved
    BY <1>1, <1>2, <1>3 DEF Moved, Sorts, govVars
  <1>5. Threads' = Threads
    BY <1>2 DEF Threads
  <1> QED  BY <1>1, <1>4, <1>5 DEF Accounted

------------------------------------------------------------------------------
(* Each of the two keeps the invariant.                                    *)
LEMMA TailOfOne ==
    ASSUME NEW S, NEW s \in Seq(S), Len(s) = 1
    PROVE  Tail(s) = <<>>
  <1>1. Tail(s) \in Seq(S) /\ Len(Tail(s)) = 0
    OBVIOUS
  <1> QED  BY <1>1, EmptySeq

LEMMA MatchedStays ==
    ASSUME NEW i \in Conn, Matched(i), waiting' = waiting,
           conn'[i].in = conn[i].in, conn'[i].out = conn[i].out,
           conn[i].pc = "closed" => conn'[i].pc = "closed"
    PROVE  Matched(i)'
  <1>1. CASE Quiescent(i)
    BY <1>1 DEF Quiescent, Matched
  <1>2. CASE ~ Quiescent(i)
    <2>1. PICK u \in User : /\ waiting[u].on = i
                            /\ Asked(i, u) \/ Answered(i, u) \/ Given(i, u)
      BY <1>2 DEF Matched
    <2>2. waiting'[u].on = i
      BY <2>1
    <2>3. CASE Asked(i, u)
      BY <2>2, <2>3 DEF Matched, Asked
    <2>4. CASE Answered(i, u)
      BY <2>2, <2>4 DEF Matched, Answered
    <2>5. CASE Given(i, u)
      BY <2>2, <2>5 DEF Matched, Given
    <2> QED  BY <2>1, <2>3, <2>4, <2>5
  <1> QED  BY <1>1, <1>2

LEMMA CountKeepsType ==
    ASSUME Sorts, NEW k \in Conn, Counted(k)
    PROVE  /\ after' \in [Conn -> Nat]
           /\ \A i \in Conn \ {k} : after'[i] = after[i]
           /\ after'[k] = IF conn[k].pc = "reading" /\ stopped THEN after[k] + 1 ELSE after[k]
  BY DEF Sorts, Counted

LEMMA MovedKeeps == Inv /\ Moved => Inv'
  <1> SUFFICES ASSUME Inv, Moved  PROVE Inv'
    OBVIOUS
  <1>1. /\ Sorts /\ Owed /\ LastRequest /\ Callers /\ Sockets /\ Pairs
        /\ work' = work /\ sock' = sock /\ lock' = lock /\ ids' = ids /\ waiting' = waiting
        /\ joining' = joining
        /\ late' = late /\ crossed' = crossed
        /\ \A i \in Conn : Onward(i)
    BY DEF Inv, Moved, clientVars
  <1>2. after' \in [Conn -> Nat]
    BY <1>1, CountKeepsType DEF Moved, Sorts
  <1>3. Sorts'
    BY <1>1, <1>2 DEF Moved, Sorts
  <1>4. Owed'
    BY <1>1 DEF Owed, Onward
  <1>5. LastRequest'
    <2> SUFFICES ASSUME NEW i \in Conn
                 PROVE  after'[i] = 0 \/ (/\ after'[i] = 1 /\ stopped'
                                          /\ conn'[i].pc \in {"running", "closed"})
      BY DEF LastRequest
    <2>1. after[i] = 0 \/ (after[i] = 1 /\ stopped /\ conn[i].pc \in {"running", "closed"})
      BY <1>1 DEF LastRequest
    <2>2. CASE after'[i] = after[i]
      BY <1>1, <2>1, <2>2 DEF Moved, Onward
    <2>3. CASE after'[i] # after[i]
      <3>1. PICK k \in Conn :
                conn[k].pc = "reading" /\ conn'[k].pc = "running" /\ Counted(k)
        BY <2>3 DEF Moved
      <3>2. i = k /\ stopped /\ after'[i] = after[i] + 1
        BY <1>1, <2>3, <3>1, CountKeepsType
      <3> QED  BY <2>1, <3>1, <3>2 DEF Moved
    <2> QED  BY <2>2, <2>3
  <1>6. Callers'
    <2> SUFFICES ASSUME NEW u \in User, waiting'[u] # NoCall  PROVE Bound(u)'
      BY DEF Callers, Bound
    <2>1. Bound(u) /\ waiting[u] # NoCall
      BY <1>1 DEF Callers
    <2>2. waiting[u].on \in Conn
      BY <2>1 DEF Bound
    <2> QED  BY <1>1, <2>1, <2>2 DEF Bound, Onward
  <1>7. Sockets'
    BY <1>1, SMTT(30) DEF Sockets, Sorts, Onward
  <1>8. Pairs'
    <2> SUFFICES ASSUME NEW i \in Conn, conn'[i].open, i \notin late'  PROVE Matched(i)'
      BY DEF Pairs
    <2>1. Matched(i)
      BY <1>1 DEF Pairs, Onward
    <2> QED  BY <1>1, <2>1, MatchedStays DEF Onward
  <1> QED  BY <1>3, <1>4, <1>5, <1>6, <1>7, <1>8 DEF Inv

LEMMA ServedKeeps ==
    ASSUME Inv, NEW k \in Conn, Served(k)
    PROVE  Inv'
  <1>1. /\ Sorts /\ Owed /\ LastRequest /\ Callers /\ Sockets /\ Pairs
        /\ work' = work /\ sock' = sock /\ lock' = lock /\ ids' = ids /\ waiting' = waiting
        /\ joining' = joining
        /\ late' = late /\ crossed' = crossed /\ stopped' = stopped
        /\ accepting' = accepting /\ leaked' = leaked
    BY DEF Inv, Served, clientVars
  <1>2. /\ conn' \in [Conn -> Connection] /\ \A i \in Conn \ {k} : conn'[i] = conn[i]
        /\ conn'[k].client = conn[k].client /\ conn'[k].open = conn[k].open
        /\ conn[k].pc \in Serving /\ conn'[k].pc \in {"reading", "closed"}
    BY DEF Served
  <1>3. /\ after' \in [Conn -> Nat]
        /\ \A i \in Conn \ {k} : after'[i] = after[i]
        /\ after'[k] = IF conn[k].pc = "reading" /\ stopped THEN after[k] + 1 ELSE after[k]
    BY <1>1, CountKeepsType DEF Served
  <1>4. slots' \in Int
    BY <1>1 DEF Served, Sorts
  <1>5. Sorts'
    BY <1>1, <1>2, <1>3, <1>4 DEF Sorts
  <1>6. Owed'
    BY <1>1, <1>2 DEF Owed
  <1>7. LastRequest'
    <2>1. stopped => conn'[k].pc = "closed"
      BY DEF Served
    <2>2. after'[k] = 0 \/ (/\ after'[k] = 1 /\ stopped'
                            /\ conn'[k].pc \in {"running", "closed"})
      BY <1>1, <1>2, <1>3, <2>1 DEF LastRequest, Serving
    <2>3. \A i \in Conn \ {k} :
              after'[i] = 0 \/ (/\ after'[i] = 1 /\ stopped'
                                /\ conn'[i].pc \in {"running", "closed"})
      BY <1>1, <1>2, <1>3 DEF LastRequest
    <2> QED  BY <2>2, <2>3 DEF LastRequest
  <1>8. \A i \in Conn : conn'[i].client = conn[i].client
                        /\ (conn[i].pc # "none" => conn'[i].pc # "none")
    BY <1>2
  <1>9. Callers'
    <2> SUFFICES ASSUME NEW u \in User, waiting'[u] # NoCall  PROVE Bound(u)'
      BY DEF Callers, Bound
    <2>1. Bound(u) /\ waiting[u] # NoCall
      BY <1>1 DEF Callers
    <2>2. waiting[u].on \in Conn
      BY <2>1 DEF Bound
    <2> QED  BY <1>1, <1>8, <2>1, <2>2 DEF Bound
  <1>10. Sockets'
    BY <1>1, <1>8 DEF Sockets, Sorts
  <1>11. Pairs'
    <2> SUFFICES ASSUME NEW i \in Conn, conn'[i].open, i \notin late'  PROVE Matched(i)'
      BY DEF Pairs
    <2>1. Matched(i)
      BY <1>1, <1>2 DEF Pairs
    <2>2. CASE i # k
      BY <1>1, <1>2, <2>1, <2>2, MatchedStays
    <2>3. CASE i = k
      <3>1. conn[k].in # <<>> /\ conn[k].pc # "closed" /\ conn[k].open
        BY <1>2, <2>3 DEF Served, Serving
      <3>2. PICK u \in User : waiting[u].on = k /\ Asked(k, u)
        BY <2>1, <2>3, <3>1 DEF Matched, Quiescent, Answered, Given
      <3>3. PICK b \in BOOLEAN :
                conn'[k].out = Append(conn[k].out, [id |-> Head(conn[k].in).id, ok |-> b])
        BY <3>1 DEF Served
      <3>4. conn[k].in \in Seq(Incoming)
        BY <1>1 DEF Sorts, Connection
      <3>5. conn'[k].in = <<>>
        BY <3>2, <3>4, TailOfOne DEF Served, Asked
      <3>6. /\ Len(conn'[k].out) = 1
            /\ conn'[k].out[1] = [id |-> Head(conn[k].in).id, ok |-> b]
        BY <3>2, <3>3 DEF Asked
      <3>7. Head(conn[k].in).id = waiting[u].id
        BY <3>2, <3>4 DEF Asked
      <3>8. Answered(k, u)' /\ waiting'[u].on = k
        BY <1>1, <3>2, <3>5, <3>6, <3>7 DEF Answered
      <3> QED  BY <2>3, <3>8 DEF Matched
    <2> QED  BY <2>2, <2>3
  <1> QED  BY <1>5, <1>6, <1>7, <1>9, <1>10, <1>11 DEF Inv

------------------------------------------------------------------------------
(* The clients.  No two users wait on one connection: both would hold the  *)
(* lock of its client.                                                     *)
LEMMA OneWaits ==
    ASSUME Callers, NEW u \in User, NEW v \in User,
           waiting[u].on \in Conn, waiting[v].on = waiting[u].on
    PROVE  u = v
  <1>1. waiting[u] # NoCall /\ waiting[v] # NoCall
    BY ConnAssumption DEF NoCall
  <1>2. /\ lock[ClientOf[u]] = u /\ conn[waiting[u].on].client = ClientOf[u]
        /\ lock[ClientOf[v]] = v /\ conn[waiting[v].on].client = ClientOf[v]
    BY <1>1 DEF Callers, Bound
  <1> QED  BY <1>2

(* What one user does leaves the connections of the others as they are.    *)
LEMMA OthersMatched ==
    ASSUME NEW i \in Conn, NEW u \in User, Matched(i), conn'[i] = conn[i],
           \A v \in User \ {u} : waiting'[v] = waiting[v],
           waiting[u].on # i, waiting'[u].on # i
    PROVE  Matched(i)'
  <1>1. CASE Quiescent(i)
    BY <1>1 DEF Quiescent, Matched
  <1>2. CASE ~ Quiescent(i)
    <2>1. PICK v \in User : /\ waiting[v].on = i
                            /\ Asked(i, v) \/ Answered(i, v) \/ Given(i, v)
      BY <1>2 DEF Matched
    <2>2. waiting'[v] = waiting[v]
      BY <2>1
    <2>3. CASE Asked(i, v)
      BY <2>1, <2>2, <2>3 DEF Matched, Asked
    <2>4. CASE Answered(i, v)
      BY <2>1, <2>2, <2>4 DEF Matched, Answered
    <2>5. CASE Given(i, v)
      BY <2>1, <2>2, <2>5 DEF Matched, Given
    <2> QED  BY <2>1, <2>3, <2>4, <2>5
  <1> QED  BY <1>1, <1>2

(* A user that sends has its client's lock, and nobody had it before.      *)
LEMMA SendsBinds ==
    ASSUME Sorts, Callers, NEW u \in User, NEW k \in Conn, NEW op,
           op = "auth" \/ \E r \in Request : op = r.op,
           MayCall(u), Sends(u, k, op)
    PROVE  /\ waiting' \in [User -> Pending] /\ lock' \in [Client -> User \cup {Nobody}]
           /\ ids' \in [Client -> Nat] /\ work' = work
           /\ waiting'[u] = [id |-> ids[ClientOf[u]] + 1, op |-> op, on |-> k]
           /\ lock'[ClientOf[u]] = u /\ waiting[u].on = NoConn
           /\ \A v \in User \ {u} :
                  /\ waiting'[v] = waiting[v]
                  /\ waiting[v] # NoCall => /\ ClientOf[v] # ClientOf[u]
                                            /\ lock'[ClientOf[v]] = lock[ClientOf[v]]
           /\ UNCHANGED <<late, crossed, serverVars>>
  <1> DEFINE c == ClientOf[u]
             call == [id |-> ids[c] + 1, op |-> op, on |-> k]
  <1>1. /\ c \in Client /\ lock[c] = Nobody /\ waiting[u] = NoCall
        /\ ids' = [ids EXCEPT ![c] = @ + 1] /\ lock' = [lock EXCEPT ![c] = u]
        /\ waiting' = [waiting EXCEPT ![u] = call]
        /\ UNCHANGED <<govVars, late, crossed, serverVars>>
    BY ClientAssumption DEF Sends, MayCall, Locked
  <1>2. /\ ids \in [Client -> Nat] /\ lock \in [Client -> User \cup {Nobody}]
        /\ waiting \in [User -> Pending]
    BY DEF Sorts
  <1>3. op \in {r.op : r \in Request} \cup {"none", "auth"}
    OBVIOUS
  <1>4. call \in Pending
    BY <1>1, <1>2, <1>3 DEF Pending
  <1> HIDE DEF call
  <1>5. waiting' \in [User -> Pending] /\ waiting'[u] = call
        /\ \A v \in User \ {u} : waiting'[v] = waiting[v]
    BY <1>1, <1>2, <1>4
  <1>6. lock' \in [Client -> User \cup {Nobody}] /\ lock'[c] = u
        /\ \A d \in Client \ {c} : lock'[d] = lock[d]
    BY <1>1, <1>2
  <1>7. ASSUME NEW v \in User \ {u}, waiting[v] # NoCall
        PROVE  ClientOf[v] # c /\ lock'[ClientOf[v]] = lock[ClientOf[v]]
    <2>1. lock[ClientOf[v]] = v /\ ClientOf[v] \in Client
      BY <1>7, ClientAssumption DEF Callers, Bound
    <2>2. ClientOf[v] # c
      BY <1>1, <2>1, ClientAssumption
    <2> QED  BY <1>6, <2>1, <2>2
  <1>8. ids' \in [Client -> Nat]
    BY <1>1, <1>2
  <1>9. waiting[u].on = NoConn /\ work' = work
    BY <1>1 DEF NoCall, govVars
  <1> QED  BY <1>1, <1>5, <1>6, <1>7, <1>8, <1>9 DEF call

Opened(c) == [Unused EXCEPT !.pc = "queued", !.open = TRUE, !.client = c]

LEMMA NewConnection ==
    ASSUME NEW c \in Client
    PROVE  /\ Opened(c) \in Connection /\ Opened(c).pc = "queued"
           /\ Opened(c).client = c /\ Opened(c).caller = Unserved
           /\ Opened(c).in = <<>> /\ Opened(c).out = <<>>
  <1>1. /\ Unused \in Connection /\ Unused.in = <<>> /\ Unused.out = <<>>
        /\ Unused.caller = Unserved
    BY DEF Unused, Connection, Stage, Peer
  <1>2. Opened(c) \in Connection
    BY <1>1 DEF Connection, Stage, Opened
  <1> QED  BY <1>1, <1>2 DEF Connection, Opened

LEMMA ConnectOpens ==
    ASSUME Sorts, NEW u \in User, Connect(u)
    PROVE  \E k \in Conn :
               /\ conn[k].pc = "none"
               /\ sock' = [sock EXCEPT ![ClientOf[u]] = k]
               /\ conn' = [conn EXCEPT ![k] = Opened(ClientOf[u])]
  <1>1. PICK k \in Conn :
            /\ \A i \in Conn : conn[i].pc = "none" <=> i >= k
            /\ sock' = [sock EXCEPT ![ClientOf[u]] = k]
            /\ conn' = [conn EXCEPT ![k] = Opened(ClientOf[u])]
    BY DEF Connect, Opened
  <1>2. k >= k
    BY ConnAssumption
  <1> QED  BY <1>1, <1>2

LEMMA ConnectKeeps ==
    ASSUME Inv, NEW u \in User, Connect(u)
    PROVE  Inv' /\ UNCHANGED <<serverVars, late, crossed>> /\ Threads' = Threads
  <1> DEFINE c == ClientOf[u]
             new == Opened(c)
  <1>1. /\ Sorts /\ Owed /\ LastRequest /\ Callers /\ Sockets /\ Pairs
        /\ c \in Client
        /\ UNCHANGED <<govVars, lock, ids, waiting, late, crossed, serverVars>>
        /\ joining' \subseteq User
    BY ClientAssumption DEF Inv, Connect, Sorts
  <1>2. PICK k \in Conn :
            /\ conn[k].pc = "none"
            /\ sock' = [sock EXCEPT ![c] = k]
            /\ conn' = [conn EXCEPT ![k] = new]
    BY <1>1, ConnectOpens
  <1>5. /\ new \in Connection /\ new.pc = "queued" /\ new.client = c
        /\ new.in = <<>> /\ new.out = <<>>
    BY <1>1, NewConnection
  <1>6. conn \in [Conn -> Connection]
    BY <1>1 DEF Sorts
  <1> HIDE DEF new
  <1>7. /\ conn' \in [Conn -> Connection] /\ \A i \in Conn \ {k} : conn'[i] = conn[i]
        /\ conn'[k].pc = "queued" /\ conn'[k].client = c
        /\ conn'[k].in = <<>> /\ conn'[k].out = <<>>
    BY <1>5, <1>2, <1>6
  <1>8. Sorts'
    BY <1>1, <1>2, <1>7 DEF Sorts, serverVars, govVars
  <1>9. Owed'
    BY <1>1, <1>7 DEF Owed
  <1>10. LastRequest'
    BY <1>1, <1>2, <1>7 DEF LastRequest, serverVars
  <1>11. \A v \in User : waiting[v].on # k
    <2> SUFFICES ASSUME NEW v \in User, waiting[v].on = k  PROVE FALSE
      OBVIOUS
    <2>1. waiting[v] # NoCall
      BY ConnAssumption DEF NoCall
    <2> QED  BY <1>1, <1>2, <2>1 DEF Callers, Bound
  <1>12. Callers'
    <2> SUFFICES ASSUME NEW v \in User, waiting'[v] # NoCall  PROVE Bound(v)'
      BY DEF Callers, Bound
    <2>1. waiting'[v] = waiting[v] /\ lock' = lock /\ Bound(v)
      BY <1>1 DEF Callers
    <2>2. waiting[v].on \in Conn \ {k}
      BY <1>11, <2>1 DEF Bound
    <2>3. conn'[waiting[v].on] = conn[waiting[v].on]
      BY <1>7, <2>2
    <2> QED  BY <2>1, <2>2, <2>3 DEF Bound
  <1>13. Sockets'
    <2> SUFFICES ASSUME NEW d \in Client, sock'[d] # NoConn
                 PROVE  conn'[sock'[d]].client = d /\ conn'[sock'[d]].pc # "none"
      BY DEF Sockets
    <2>1. sock \in [Client -> Conn \cup {NoConn}]
      BY <1>1 DEF Sorts
    <2>2. CASE d = c
      <3>1. sock'[d] = k
        BY <1>2, <2>1, <2>2
      <3> QED  BY <1>7, <2>2, <3>1
    <2>3. CASE d # c
      <3>1. sock'[d] = sock[d] /\ sock[d] \in Conn
        BY <1>2, <2>1, <2>3
      <3>2. sock[d] # k
        BY <1>1, <1>2, <3>1 DEF Sockets
      <3> QED  BY <1>1, <1>7, <3>1, <3>2 DEF Sockets
    <2> QED  BY <2>2, <2>3
  <1>14. Pairs'
    <2> SUFFICES ASSUME NEW i \in Conn, conn'[i].open, i \notin late'  PROVE Matched(i)'
      BY DEF Pairs
    <2>1. CASE i = k
      <3>1. \A v \in User : waiting'[v].on # k
        BY <1>1, <1>11
      <3> QED  BY <1>7, <2>1, <3>1 DEF Matched, Quiescent
    <2>2. CASE i # k
      <3>1. Matched(i) /\ conn'[i] = conn[i]
        BY <1>1, <1>7, <2>2 DEF Pairs
      <3> QED  BY <1>1, <3>1, MatchedStays
    <2> QED  BY <2>1, <2>2
  <1>15. Threads' = Threads
    BY <1>2, <1>7 DEF Threads, Serving
  <1> QED  BY <1>1, <1>8, <1>9, <1>10, <1>12, <1>13, <1>14, <1>15 DEF Inv

LEMMA JoinFailsKeeps ==
    ASSUME Inv, NEW u \in User, JoinFails(u)
    PROVE  Inv' /\ UNCHANGED <<serverVars, late, crossed>> /\ Threads' = Threads
  <1>1. /\ Sorts /\ Owed /\ LastRequest /\ Callers /\ Sockets /\ Pairs
        /\ UNCHANGED <<govVars, sock, lock, ids, waiting, late, crossed, conn, serverVars>>
        /\ joining' \subseteq User
    BY DEF Inv, JoinFails, Sorts
  <1>2. Sorts' /\ Owed' /\ LastRequest' /\ Sockets'
    BY <1>1 DEF Sorts, Owed, LastRequest, Sockets, serverVars, govVars
  <1>3. Callers'
    BY <1>1 DEF Callers, Bound
  <1>4. Pairs'
    BY <1>1, MatchedStays DEF Pairs
  <1>5. Threads' = Threads
    BY <1>1 DEF Threads
  <1> QED  BY <1>1, <1>2, <1>3, <1>4, <1>5 DEF Inv

LEMMA AppendOne ==
    ASSUME NEW S, NEW s \in Seq(S), NEW e \in S
    PROVE  /\ Append(s, e) \in Seq(S) /\ Append(s, e) # <<>>
           /\ s = <<>> => Len(Append(s, e)) = 1 /\ Append(s, e)[1] = e
  BY AppendProperties

LEMMA WritesKeeps ==
    ASSUME Inv, NEW u \in User, NEW request \in Request,
           Writes(u, request), joining' \subseteq User
    PROVE  Inv' /\ UNCHANGED <<serverVars, late, crossed>> /\ Threads' = Threads
  <1> DEFINE c == ClientOf[u]
             frame == Frame(u, request)
  <1>1. /\ Sorts /\ Owed /\ LastRequest /\ Callers /\ Sockets /\ Pairs
        /\ c \in Client /\ MayCall(u) /\ lock[c] = Nobody
    BY ClientAssumption DEF Inv, Writes, MayCall, Locked
  <1>2. PICK k \in Conn :
            /\ conn[k].pc # "closed" /\ conn[k].pc # "none" /\ conn[k].client = c
            /\ conn' = [conn EXCEPT ![k].in = Append(@, frame)]
            /\ Sends(u, k, request.op) /\ sock' = sock
    <2>1. sock[c] \in Conn /\ conn[sock[c]].client = c /\ conn[sock[c]].pc # "none"
      BY <1>1 DEF Writes, Sockets, Sorts
    <2> QED  BY <2>1 DEF Writes
  <1>3. /\ waiting' \in [User -> Pending] /\ lock' \in [Client -> User \cup {Nobody}]
        /\ ids' \in [Client -> Nat] /\ work' = work
        /\ waiting'[u] = [id |-> ids[c] + 1, op |-> request.op, on |-> k]
        /\ lock'[c] = u /\ waiting[u].on = NoConn
        /\ \A v \in User \ {u} :
               /\ waiting'[v] = waiting[v]
               /\ waiting[v] # NoCall => /\ ClientOf[v] # c
                                         /\ lock'[ClientOf[v]] = lock[ClientOf[v]]
        /\ UNCHANGED <<late, crossed, serverVars>>
    BY <1>1, <1>2, SendsBinds
  <1>4. frame \in Incoming /\ frame.id = ids[c] + 1
    <2>1. ids[c] + 1 \in Nat
      BY <1>1 DEF Sorts
    <2> QED  BY <2>1 DEF Incoming, Frame
  <1> HIDE DEF frame
  <1>5. conn \in [Conn -> Connection] /\ conn[k] \in Connection
    BY <1>1, <1>2 DEF Sorts
  <1> DEFINE in == Append(conn[k].in, frame)
  <1>6. conn' = [conn EXCEPT ![k] = [conn[k] EXCEPT !.in = in]]
    BY <1>2
  <1>a. /\ in \in Seq(Incoming) /\ in # <<>>
        /\ conn[k].in = <<>> => Len(in) = 1 /\ in[1] = frame
    <2>1. conn[k].in \in Seq(Incoming)
      BY <1>5 DEF Connection
    <2> QED  BY <1>4, <2>1, AppendOne
  <1> HIDE DEF in
  <1>7. /\ conn' \in [Conn -> Connection] /\ \A i \in Conn \ {k} : conn'[i] = conn[i]
        /\ conn'[k].pc = conn[k].pc /\ conn'[k].client = conn[k].client
        /\ conn'[k].open = conn[k].open /\ conn'[k].out = conn[k].out
        /\ conn'[k].in = in
    <2>1. conn'[k] = [conn[k] EXCEPT !.in = in]
      BY <1>5, <1>6
    <2>2. /\ conn'[k] \in Connection /\ conn'[k].in = in
          /\ conn'[k].pc = conn[k].pc /\ conn'[k].client = conn[k].client
          /\ conn'[k].open = conn[k].open /\ conn'[k].out = conn[k].out
      BY <1>5, <1>a, <2>1 DEF Connection
    <2> QED  BY <1>5, <1>6, <2>2
  <1>8. Sorts'
    BY <1>1, <1>2, <1>3, <1>7 DEF Sorts, serverVars
  <1>9. Owed'
    BY <1>1, <1>7, <1>a DEF Owed
  <1>10. LastRequest'
    BY <1>1, <1>3, <1>7 DEF LastRequest, serverVars
  <1>11. Callers'
    <2>1. Bound(u)'
      BY <1>2, <1>3, <1>7 DEF Bound
    <2>2. ASSUME NEW v \in User \ {u}  PROVE Bound(v)'
      <3>1. Bound(v)
        BY <1>1 DEF Callers
      <3>2. CASE waiting[v] = NoCall
        BY <1>3, <3>2 DEF Bound
      <3>3. CASE waiting[v] # NoCall
        <4>1. waiting[v].on \in Conn
          BY <3>1, <3>3 DEF Bound
        <4>2. /\ conn'[waiting[v].on].client = conn[waiting[v].on].client
              /\ conn'[waiting[v].on].pc = conn[waiting[v].on].pc
          BY <1>7, <4>1
        <4> QED  BY <1>3, <3>1, <3>3, <4>1, <4>2 DEF Bound
      <3> QED  BY <3>2, <3>3
    <2> QED  BY <2>1, <2>2 DEF Callers
  <1>12. Sockets'
    BY <1>1, <1>2, <1>7 DEF Sockets, Sorts
  <1>13. Pairs'
    <2> SUFFICES ASSUME NEW i \in Conn, conn'[i].open, i \notin late'  PROVE Matched(i)'
      BY DEF Pairs
    <2>0. Matched(i)
      BY <1>1, <1>3, <1>7 DEF Pairs
    <2>1. CASE i = k
      <3>1. \A v \in User : waiting[v].on # k
        <4> SUFFICES ASSUME NEW v \in User, waiting[v].on = k  PROVE FALSE
          OBVIOUS
        <4>1. waiting[v] # NoCall
          BY <1>2, ConnAssumption DEF NoCall
        <4>2. lock[ClientOf[v]] = v /\ ClientOf[v] = c
          BY <1>1, <1>2, <4>1 DEF Callers, Bound
        <4> QED  BY <1>1, <4>2, ClientAssumption
      <3>2. conn[k].out = <<>> /\ conn[k].in = <<>>
        BY <1>2, <2>0, <2>1, <3>1 DEF Matched, Quiescent
      <3>3. Len(conn'[k].in) = 1 /\ conn'[k].in[1] = frame
        BY <1>7, <1>a, <3>2
      <3>4. Asked(k, u)' /\ waiting'[u].on = k
        BY <1>3, <1>4, <1>7, <3>2, <3>3 DEF Asked
      <3> QED  BY <2>1, <3>4 DEF Matched
    <2>2. CASE i # k
      <3>1. conn'[i] = conn[i]
        BY <1>7, <2>2
      <3>2. waiting[u].on # i /\ waiting'[u].on # i
        BY <1>3, <2>2, ConnAssumption
      <3> QED  BY <1>3, <2>0, <3>1, <3>2, OthersMatched
    <2> QED  BY <2>1, <2>2
  <1>14. Threads' = Threads
    BY <1>7 DEF Threads
  <1> QED  BY <1>3, <1>8, <1>9, <1>10, <1>11, <1>12, <1>13, <1>14 DEF Inv

(* A user that has its answer, or has lost it, lets go of the lock, and of *)
(* nobody else's.                                                          *)
LEMMA ReturnsUnbinds ==
    ASSUME Sorts, Callers, NEW u \in User, waiting[u] # NoCall,
           waiting' = [waiting EXCEPT ![u] = NoCall], Freed(u)
    PROVE  /\ waiting' \in [User -> Pending] /\ lock' \in [Client -> User \cup {Nobody}]
           /\ waiting'[u] = NoCall /\ waiting[u].on \in Conn
           /\ \A v \in User \ {u} :
                  /\ waiting'[v] = waiting[v]
                  /\ waiting[v] # NoCall => lock'[ClientOf[v]] = lock[ClientOf[v]]
  <1> DEFINE c == ClientOf[u]
  <1>1. c \in Client /\ lock[c] = u /\ waiting[u].on \in Conn
    BY ClientAssumption DEF Callers, Bound
  <1>2. lock' = [lock EXCEPT ![c] = Nobody]
    BY <1>1 DEF Freed, Sorts
  <1>3. lock' \in [Client -> User \cup {Nobody}] /\ \A d \in Client \ {c} : lock'[d] = lock[d]
    BY <1>1, <1>2 DEF Sorts
  <1>4. NoCall \in Pending
    BY DEF NoCall, Pending
  <1>5. waiting' \in [User -> Pending] /\ waiting'[u] = NoCall
        /\ \A v \in User \ {u} : waiting'[v] = waiting[v]
    BY <1>4 DEF Sorts
  <1>6. ASSUME NEW v \in User \ {u}, waiting[v] # NoCall
        PROVE  lock'[ClientOf[v]] = lock[ClientOf[v]]
    <2>1. lock[ClientOf[v]] = v /\ ClientOf[v] \in Client
      BY <1>6, ClientAssumption DEF Callers, Bound
    <2> QED  BY <1>1, <1>3, <2>1
  <1> QED  BY <1>1, <1>3, <1>5, <1>6

LEMMA ReceiveKeeps ==
    ASSUME Inv, NEW u \in User, Receive(u)
    PROVE  /\ Inv' /\ UNCHANGED <<serverVars, late>> /\ Threads' = Threads
           /\ crossed \subseteq late => crossed' \subseteq late
  <1> DEFINE c == ClientOf[u]
  <1>1. /\ Sorts /\ Owed /\ LastRequest /\ Callers /\ Sockets /\ Pairs /\ c \in Client
        /\ UNCHANGED <<govVars, ids, joining, late, serverVars>>
        /\ waiting[u] # NoCall /\ waiting' = [waiting EXCEPT ![u] = NoCall] /\ Freed(u)
    BY ClientAssumption DEF Inv, Receive
  <1>2. /\ waiting' \in [User -> Pending] /\ lock' \in [Client -> User \cup {Nobody}]
        /\ waiting'[u] = NoCall /\ waiting[u].on \in Conn
        /\ \A v \in User \ {u} :
               /\ waiting'[v] = waiting[v]
               /\ waiting[v] # NoCall => lock'[ClientOf[v]] = lock[ClientOf[v]]
    BY <1>1, ReturnsUnbinds
  <1>3. PICK k \in Conn : k = waiting[u].on
    BY <1>2
  <1>4. PICK refused \in BOOLEAN :
            /\ conn' = [conn EXCEPT ![k].out = Tail(@), ![k].open = ~ refused]
            /\ sock' = IF refused THEN [sock EXCEPT ![c] = NoConn] ELSE sock
    BY <1>3 DEF Receive, HungUp
  <1>5. /\ conn[k].open /\ conn[k].out # <<>>
        /\ crossed' = IF Head(conn[k].out).id = waiting[u].id THEN crossed
                      ELSE crossed \cup {k}
    BY <1>3 DEF Receive
  <1>6. conn \in [Conn -> Connection] /\ conn[k] \in Connection
    BY <1>1 DEF Sorts
  <1> DEFINE out == Tail(conn[k].out)
  <1>7. out \in Seq(Outgoing)
    BY <1>5, <1>6 DEF Connection
  <1> HIDE DEF out
  <1>8. conn' = [conn EXCEPT ![k] = [conn[k] EXCEPT !.out = out, !.open = ~ refused]]
    BY <1>4, <1>6 DEF Connection, out
  <1>9. /\ conn' \in [Conn -> Connection] /\ \A i \in Conn \ {k} : conn'[i] = conn[i]
        /\ \A i \in Conn : /\ conn'[i].pc = conn[i].pc /\ conn'[i].client = conn[i].client
                           /\ conn'[i].in = conn[i].in
        /\ conn'[k].out = out
    <2>1. conn'[k] = [conn[k] EXCEPT !.out = out, !.open = ~ refused]
      BY <1>6, <1>8
    <2>2. /\ conn'[k] \in Connection /\ conn'[k].out = out
          /\ conn'[k].pc = conn[k].pc /\ conn'[k].client = conn[k].client
          /\ conn'[k].in = conn[k].in
      BY <1>6, <1>7, <2>1 DEF Connection
    <2>3. \A i \in Conn \ {k} : conn'[i] = conn[i]
      BY <1>6, <1>8
    <2> QED  BY <1>6, <1>8, <2>2, <2>3
  <1>10. sock' \in [Client -> Conn \cup {NoConn}]
         /\ \A d \in Client : sock'[d] # NoConn => sock'[d] = sock[d]
    BY <1>1, <1>4 DEF Sorts
  <1>11. Sorts'
    <2>1. crossed' \subseteq Conn
      BY <1>1, <1>5 DEF Sorts
    <2> QED  BY <1>1, <1>2, <1>9, <1>10, <2>1 DEF Sorts, govVars, serverVars
  <1>12. Owed' /\ LastRequest'
    BY <1>1, <1>9 DEF Owed, LastRequest, serverVars
  <1>13. Callers'
    <2> SUFFICES ASSUME NEW v \in User, waiting'[v] # NoCall  PROVE Bound(v)'
      BY DEF Callers, Bound
    <2>1. v # u /\ waiting'[v] = waiting[v] /\ Bound(v)
      BY <1>1, <1>2 DEF Callers
    <2>2. waiting[v].on \in Conn
      BY <2>1 DEF Bound
    <2> QED  BY <1>2, <1>9, <2>1, <2>2 DEF Bound
  <1>14. Sockets'
    BY <1>1, <1>9, <1>10 DEF Sockets, Sorts
  <1>15. k \notin late =>
             /\ conn[k].in = <<>> /\ Len(conn[k].out) = 1
             /\ Head(conn[k].out).id = waiting[u].id
    <2> SUFFICES ASSUME k \notin late
                 PROVE  /\ conn[k].in = <<>> /\ Len(conn[k].out) = 1
                        /\ Head(conn[k].out).id = waiting[u].id
      OBVIOUS
    <2>1. PICK v \in User : waiting[v].on = k /\ Answered(k, v)
      BY <1>1, <1>5 DEF Pairs, Matched, Quiescent, Asked, Given
    <2>2. v = u
      BY <1>1, <1>3, <2>1, OneWaits
    <2> QED  BY <1>5, <1>6, <2>1, <2>2 DEF Answered, Connection
  <1>16. Pairs'
    <2> SUFFICES ASSUME NEW i \in Conn, conn'[i].open, i \notin late'  PROVE Matched(i)'
      BY DEF Pairs
    <2>1. CASE i = k
      <3>1. conn[k].in = <<>> /\ Len(conn[k].out) = 1
        BY <1>1, <1>15, <2>1
      <3>2. conn'[k].in = <<>> /\ conn'[k].out = <<>>
        BY <1>6, <1>9, <3>1, TailOfOne DEF Connection, out
      <3>3. \A v \in User : waiting'[v].on # k
        BY <1>1, <1>2, <1>3, OneWaits, ConnAssumption DEF NoCall
      <3> QED  BY <2>1, <3>2, <3>3 DEF Matched, Quiescent
    <2>2. CASE i # k
      <3>1. conn'[i] = conn[i] /\ Matched(i)
        BY <1>1, <1>9, <2>2 DEF Pairs
      <3>2. waiting[u].on # i /\ waiting'[u].on # i
        BY <1>2, <1>3, <2>2, ConnAssumption DEF NoCall
      <3> QED  BY <1>2, <3>1, <3>2, OthersMatched
    <2> QED  BY <2>1, <2>2
  <1>17. Threads' = Threads
    BY <1>9 DEF Threads
  <1>18. crossed \subseteq late => crossed' \subseteq late
    BY <1>5, <1>15
  <1> QED  BY <1>1, <1>11, <1>12, <1>13, <1>14, <1>16, <1>17, <1>18 DEF Inv

LEMMA LostKeeps ==
    ASSUME Inv, NEW u \in User, Lost(u)
    PROVE  Inv' /\ UNCHANGED <<serverVars, crossed>> /\ Threads' = Threads /\ late \subseteq late'
  <1>1. /\ Sorts /\ Owed /\ LastRequest /\ Callers /\ Sockets /\ Pairs
        /\ UNCHANGED <<govVars, sock, ids, joining, crossed, conn, serverVars>>
        /\ waiting[u] # NoCall /\ waiting' = [waiting EXCEPT ![u] = NoCall] /\ Freed(u)
    BY DEF Inv, Lost
  <1>2. /\ waiting' \in [User -> Pending] /\ lock' \in [Client -> User \cup {Nobody}]
        /\ waiting'[u] = NoCall /\ waiting[u].on \in Conn
        /\ \A v \in User \ {u} :
               /\ waiting'[v] = waiting[v]
               /\ waiting[v] # NoCall => lock'[ClientOf[v]] = lock[ClientOf[v]]
    BY <1>1, ReturnsUnbinds
  <1>3. PICK k \in Conn : k = waiting[u].on
    BY <1>2
  <1>4. \/ ~ conn[k].open /\ late' = late
        \/ conn[k].out = <<>> /\ conn[k].pc = "closed" /\ late' = late
        \/ late' = late \cup {k}
    BY <1>3 DEF Lost
  <1>5. Sorts'
    BY <1>1, <1>2, <1>4 DEF Sorts, govVars, serverVars
  <1>6. Owed' /\ LastRequest' /\ Sockets'
    BY <1>1 DEF Owed, LastRequest, Sockets, serverVars
  <1>7. Callers'
    <2> SUFFICES ASSUME NEW v \in User, waiting'[v] # NoCall  PROVE Bound(v)'
      BY DEF Callers, Bound
    <2>1. v # u /\ waiting'[v] = waiting[v] /\ Bound(v)
      BY <1>1, <1>2 DEF Callers
    <2> QED  BY <1>1, <1>2, <2>1 DEF Bound
  <1>8. Pairs'
    <2> SUFFICES ASSUME NEW i \in Conn, conn'[i].open, i \notin late'  PROVE Matched(i)'
      BY DEF Pairs
    <2>1. CASE i = k
      <3>1. conn[k].out = <<>> /\ conn[k].pc = "closed"
        BY <1>1, <1>4, <2>1
      <3>2. \A v \in User : waiting'[v].on # k
        BY <1>1, <1>2, <1>3, OneWaits, ConnAssumption DEF NoCall
      <3> QED  BY <1>1, <2>1, <3>1, <3>2 DEF Matched, Quiescent
    <2>2. CASE i # k
      <3>1. conn'[i] = conn[i] /\ Matched(i)
        BY <1>1, <1>4, <2>2 DEF Pairs
      <3>2. waiting[u].on # i /\ waiting'[u].on # i
        BY <1>2, <1>3, <2>2, ConnAssumption DEF NoCall
      <3> QED  BY <1>2, <3>1, <3>2, OthersMatched
    <2> QED  BY <2>1, <2>2
  <1>9. Threads' = Threads
    BY <1>1 DEF Threads
  <1> QED  BY <1>1, <1>4, <1>5, <1>6, <1>7, <1>8, <1>9 DEF Inv

LEMMA CloseKeeps ==
    ASSUME Inv, NEW u \in User, Close(u)
    PROVE  Inv' /\ UNCHANGED <<serverVars, late, crossed>> /\ Threads' = Threads
  <1> DEFINE c == ClientOf[u]
  <1>1. /\ Sorts /\ Owed /\ LastRequest /\ Callers /\ Sockets /\ Pairs /\ c \in Client
        /\ UNCHANGED <<govVars, lock, ids, joining, waiting, late, crossed, serverVars>>
        /\ sock' = [sock EXCEPT ![c] = NoConn]
    BY ClientAssumption DEF Inv, Close, HungUp
  <1>2. PICK k \in Conn :
            conn' = [conn EXCEPT ![k].open = FALSE, ![k].out = <<>>]
    BY <1>1 DEF Close, Sorts
  <1>3. conn \in [Conn -> Connection] /\ conn[k] \in Connection
    BY <1>1 DEF Sorts
  <1> DEFINE left == [conn[k] EXCEPT !.open = FALSE, !.out = <<>>]
  <1>4. conn' = [conn EXCEPT ![k] = left]
    BY <1>2, <1>3 DEF Connection
  <1>5. /\ conn' \in [Conn -> Connection] /\ \A i \in Conn \ {k} : conn'[i] = conn[i]
        /\ \A i \in Conn : /\ conn'[i].pc = conn[i].pc /\ conn'[i].client = conn[i].client
                           /\ conn'[i].in = conn[i].in
        /\ ~ conn'[k].open
    <2>a. <<>> \in Seq(Outgoing)
      OBVIOUS
    <2>b. left \in Connection
      BY <1>3, <2>a DEF Connection
    <2>c. left.open = FALSE
      BY <1>3 DEF Connection
    <2>1. /\ left.pc = conn[k].pc /\ left.client = conn[k].client
          /\ left.in = conn[k].in
      BY <1>3 DEF Connection
    <2> HIDE DEF left
    <2>2. conn'[k] = left
      BY <1>3, <1>4
    <2>3. \A i \in Conn \ {k} : conn'[i] = conn[i]
      BY <1>3, <1>4
    <2> QED  BY <1>3, <1>4, <2>b, <2>c, <2>1, <2>2, <2>3
  <1>6. sock' \in [Client -> Conn \cup {NoConn}]
         /\ \A d \in Client : sock'[d] # NoConn => sock'[d] = sock[d]
    BY <1>1 DEF Sorts
  <1>7. Sorts'
    BY <1>1, <1>5, <1>6 DEF Sorts, govVars, serverVars
  <1>8. Owed' /\ LastRequest'
    BY <1>1, <1>5 DEF Owed, LastRequest, serverVars
  <1>9. Callers'
    <2> SUFFICES ASSUME NEW v \in User, waiting'[v] # NoCall  PROVE Bound(v)'
      BY DEF Callers, Bound
    <2>1. waiting'[v] = waiting[v] /\ Bound(v)
      BY <1>1 DEF Callers
    <2>2. waiting[v].on \in Conn
      BY <2>1 DEF Bound
    <2> QED  BY <1>1, <1>5, <2>1, <2>2 DEF Bound
  <1>10. Sockets'
    BY <1>1, <1>5, <1>6 DEF Sockets, Sorts
  <1>11. Pairs'
    <2> SUFFICES ASSUME NEW i \in Conn, conn'[i].open, i \notin late'  PROVE Matched(i)'
      BY DEF Pairs
    <2>1. i # k /\ conn'[i] = conn[i] /\ Matched(i)
      BY <1>1, <1>5 DEF Pairs
    <2> QED  BY <1>1, <2>1, MatchedStays
  <1>12. Threads' = Threads
    BY <1>5 DEF Threads
  <1> QED  BY <1>1, <1>7, <1>8, <1>9, <1>10, <1>11, <1>12 DEF Inv
------------------------------------------------------------------------------
(* What the steps come to: a client's, an answer, or a thread that moves.  *)
LEMMA ServedAccounts ==
    ASSUME Sorts, NEW k \in Conn, Served(k)
    PROVE  Accounted
  <1>1. /\ conn[k].pc \in Serving /\ conn'[k].pc \in {"reading", "closed"}
        /\ \A i \in Conn \ {k} : conn'[i] = conn[i]
        /\ slots' = (IF conn'[k].pc = "closed" THEN slots + 1 ELSE slots)
        /\ leaked' = leaked /\ accepting' = accepting
    BY DEF Served
  <1>2. k \in Threads
    BY <1>1 DEF Threads
  <1>3. CASE conn'[k].pc = "closed"
    <2>1. Threads' = Threads \ {k}
      BY <1>1, <1>3 DEF Threads, Serving
    <2> QED  BY <1>1, <1>2, <1>3, <2>1 DEF Accounted
  <1>4. CASE conn'[k].pc = "reading"
    <2>1. Threads' = Threads
      BY <1>1, <1>4 DEF Threads, Serving
    <2> QED  BY <1>1, <1>4, <2>1 DEF Accounted
  <1> QED  BY <1>1, <1>3, <1>4

Clients(u) ==
    \/ Connect(u) \/ JoinFails(u) \/ Receive(u) \/ Lost(u) \/ Close(u)
    \/ \E r \in Request : Writes(u, r) /\ joining' \subseteq User

LEMMA StepKinds ==
    ASSUME Inv, Next
    PROVE  \/ \E u \in User : Clients(u)
           \/ \E k \in Conn : Served(k)
           \/ Moved /\ Accounted
  <1>1. Sorts /\ Owed /\ work \in Workload /\ joining \subseteq User
    BY DEF Inv, Sorts
  <1>2. ASSUME NEW u \in work.users,
               \/ Connect(u) \/ SendToken(u) \/ JoinFails(u)
               \/ Receive(u) \/ Lost(u) \/ Close(u)
               \/ \E r \in work.requests : Call(u, r)
        PROVE  u \in User /\ Clients(u)
    <2>1. u \in User
      BY <1>1, WorkloadAssumption
    <2>2. CASE SendToken(u)
      <3>1. [op |-> "auth", token |-> TokenOf[ClientOf[u]]] \in Request
        BY <2>1, ClientAssumption DEF Request
      <3> QED  BY <1>1, <2>1, <2>2, <3>1 DEF SendToken, Clients
    <2>3. CASE \E r \in work.requests : Call(u, r)
      <3>1. \A r \in work.requests : r \in Request
        BY <1>1 DEF Request
      <3> QED  BY <1>1, <2>1, <2>3, <3>1 DEF Call, Clients
    <2> QED  BY <1>2, <2>1, <2>2, <2>3 DEF Clients
  <1>3. ASSUME NEW k \in Conn,
               \/ Accept(k) \/ ThreadFails(k) \/ Authenticate(k) \/ GivesUp(k)
               \/ Ping(k) \/ Evaluate(k) \/ Nested(k) \/ NestedGrants(k) \/ Returns(k)
               \/ RegisterDelegation(k) \/ Revoke(k)
        PROVE  Served(k) \/ (Moved /\ Accounted)
    BY <1>1, <1>3, AcceptMoves, ThreadFailsMoves, AuthenticateServes, GivesUpMoves,
       PingServes, EvaluateServes, NestedMoves, NestedGrantsMoves, ReturnsServes,
       DelegationServes, RevokeServes
  <1>4. CASE AcceptFails \/ Stop \/ StopListening
    BY <1>1, <1>4, LoopEndsMoves, StopListeningMoves
  <1>5. CASE Operator /\ UNCHANGED <<clientVars, conn, serverVars>>
    BY <1>1, <1>5, OperatorMoves
  <1> QED  BY <1>2, <1>3, <1>4, <1>5 DEF Next

LEMMA InitInv == Init => Inv
  <1> SUFFICES ASSUME Init  PROVE Inv
    OBVIOUS
  <1> USE DEF Init
  <1>1. \A k \in Conn : conn[k] = Unused
    OBVIOUS
  <1>2. Unused \in Connection /\ Unused.pc = "none" /\ Unused.out = <<>> /\ Unused.in = <<>>
        /\ Unused.open = FALSE
    BY DEF Unused, Connection, Stage, Peer
  <1>3. NoCall \in Pending /\ NoCall.on = NoConn
    BY DEF NoCall, Pending
  <1>4. MaxConnections \in Int
    BY LimitAssumption
  <1>5. Sorts
    BY <1>2, <1>3, <1>4 DEF Sorts, GovInit
  <1>6. Owed /\ LastRequest /\ Sockets
    BY <1>1, <1>2 DEF Owed, LastRequest, Sockets
  <1>7. Callers
    BY DEF Callers, Bound
  <1>8. Pairs
    BY <1>1, <1>2 DEF Pairs
  <1> QED  BY <1>5, <1>6, <1>7, <1>8 DEF Inv

(* The invariant is inductive.                                             *)
LEMMA NextInv == Inv /\ [Next]_vars => Inv'
  <1> SUFFICES ASSUME Inv, [Next]_vars  PROVE Inv'
    OBVIOUS
  <1>1. CASE Next
    <2>1. CASE \E u \in User : Clients(u)
      BY <2>1, ConnectKeeps, JoinFailsKeeps, ReceiveKeeps, LostKeeps, CloseKeeps, WritesKeeps
         DEF Clients
    <2>2. CASE \E k \in Conn : Served(k)
      BY <2>2, ServedKeeps
    <2>3. CASE Moved
      BY <2>3, MovedKeeps
    <2> QED  BY <1>1, <2>1, <2>2, <2>3, StepKinds
  <1>2. CASE UNCHANGED vars
    <2>1. Sorts /\ Owed
      BY DEF Inv
    <2>2. Moved
      BY <1>2, <2>1, StillMoves DEF Moved, Sorts, vars, govVars, serverVars
    <2> QED  BY <2>2, MovedKeeps
  <1> QED  BY <1>1, <1>2

(* Clients, server and connections keep the invariant on which the theorems*)
(* about them rest, whatever is requested and however calls interleave.    *)
THEOREM ServiceInvariant == Spec => []Inv
  BY InitInv, NextInv, PTL DEF Spec

(* A connection serves at most one request that it reads after stop(), for *)
(* any clients, connections and workloads (UnixSocketGovernorServer.stop). *)
THEOREM StopServesOneMore == Spec => []OneMoreAfterStop
  <1>1. Inv => OneMoreAfterStop
    BY DEF Inv, Sorts, LastRequest, OneMoreAfterStop
  <1> QED  BY <1>1, ServiceInvariant, PTL

(* A call takes the answer to another only on a connection on which a call *)
(* has timed out before, although ids are drawn and checked nowhere: the   *)
(* client's lock joins each request with its answer (_roundtrip).          *)
THEOREM OnlyLateAnswersCross == Spec => []AnswersBelong
  <1>1. Init => AnswersBelong
    BY DEF Init, AnswersBelong
  <1>2. Inv /\ AnswersBelong /\ [Next]_vars => AnswersBelong'
    <2> SUFFICES ASSUME Inv, AnswersBelong, [Next]_vars  PROVE AnswersBelong'
      OBVIOUS
    <2>1. CASE \E u \in User : Clients(u)
      <3>1. crossed \subseteq late
        BY DEF AnswersBelong
      <3>2. (crossed' \subseteq late /\ late' = late) \/ (crossed' = crossed /\ late \subseteq late')
        BY <2>1, <3>1, ConnectKeeps, JoinFailsKeeps, ReceiveKeeps, LostKeeps, CloseKeeps,
           WritesKeeps DEF Clients
      <3> QED  BY <3>1, <3>2 DEF AnswersBelong
    <2>2. CASE UNCHANGED <<late, crossed>>
      BY <2>2 DEF AnswersBelong
    <2>3. (\E k \in Conn : Served(k)) \/ Moved => UNCHANGED <<late, crossed>>
      BY DEF Served, Moved, clientVars
    <2>4. UNCHANGED vars => UNCHANGED <<late, crossed>>
      BY DEF vars, clientVars
    <2> QED  BY <2>1, <2>2, <2>3, <2>4, StepKinds
  <1> QED  BY <1>1, <1>2, ServiceInvariant, PTL DEF Spec

(* No slot of _conn_slots is lost or given back twice, whatever way a      *)
(* connection ends, unless the accept loop ends with it.                   *)
Count == Cardinality(Threads)
SlotsInv == slots + leaked + Count = MaxConnections /\ (accepting => leaked = 0)

LEMMA AccountedKeeps ==
    ASSUME Sorts, Sorts', SlotsInv, Accounted
    PROVE  SlotsInv'
  <1>1. IsFiniteSet(Threads) /\ IsFiniteSet(Threads')
    BY ConnAssumption, FS_Subset DEF Threads
  <1>2. /\ Count \in Int /\ Count' \in Int
        /\ slots \in Int /\ leaked \in Int /\ slots' \in Int /\ leaked' \in Int
        /\ MaxConnections \in Int
    BY <1>1, FS_CardinalityType, LimitAssumption DEF Sorts, Count
  <1>3. slots + leaked + Count = MaxConnections
    BY DEF SlotsInv
  <1>4. accepting' => leaked' = 0
    BY DEF SlotsInv, Accounted
  <1>5. \/ Count' = Count /\ slots' = slots /\ leaked' = leaked
        \/ Count' = Count /\ slots' = slots - 1 /\ leaked' = leaked + 1
        \/ Count' = Count + 1 /\ slots' = slots - 1 /\ leaked' = leaked
        \/ Count' = Count - 1 /\ slots' = slots + 1 /\ leaked' = leaked
    <2>1. Threads' = Threads => Count' = Count
      BY DEF Count
    <2>2. ASSUME NEW k \in Conn \ Threads, Threads' = Threads \cup {k}
          PROVE  Count' = Count + 1
      <3>1. Cardinality(Threads \cup {k}) = Cardinality(Threads) + 1
        BY <1>1, FS_AddElement
      <3> QED  BY <2>2, <3>1 DEF Count
    <2>3. ASSUME NEW k \in Threads, Threads' = Threads \ {k}
          PROVE  Count' = Count - 1
      <3>1. Cardinality(Threads \ {k}) = Cardinality(Threads) - 1
        BY <1>1, FS_RemoveElement
      <3> QED  BY <2>3, <3>1 DEF Count
    <2> QED  BY <2>1, <2>2, <2>3 DEF Accounted
  <1>6. slots' + leaked' + Count' = MaxConnections
    <2>1. CASE Count' = Count /\ slots' = slots /\ leaked' = leaked
      BY <1>2, <1>3, <2>1
    <2>2. CASE Count' = Count /\ slots' = slots - 1 /\ leaked' = leaked + 1
      BY <1>2, <1>3, <2>2
    <2>3. CASE Count' = Count + 1 /\ slots' = slots - 1 /\ leaked' = leaked
      BY <1>2, <1>3, <2>3
    <2>4. CASE Count' = Count - 1 /\ slots' = slots + 1 /\ leaked' = leaked
      BY <1>2, <1>3, <2>4
    <2> QED  BY <1>5, <2>1, <2>2, <2>3, <2>4
  <1> QED  BY <1>4, <1>6 DEF SlotsInv

(* Every slot is free, lost by a failing Thread.start, or held by a        *)
(* connection that is being served: each path out of _serve_connection     *)
(* gives it back, and none is lost while the accept loop runs.             *)
THEOREM SlotsAreConserved == Spec => []SlotsConserved
  <1>1. Init => SlotsInv
    <2> SUFFICES ASSUME Init  PROVE SlotsInv
      OBVIOUS
    <2>1. Threads = {}
      BY DEF Init, Threads, Serving, Unused
    <2> QED  BY <2>1, FS_EmptySet, LimitAssumption DEF Init, SlotsInv, Count
  <1>2. Inv /\ Inv' /\ SlotsInv /\ [Next]_vars => SlotsInv'
    <2> SUFFICES ASSUME Inv, Inv', SlotsInv, [Next]_vars  PROVE SlotsInv'
      OBVIOUS
    <2>1. Sorts /\ Sorts'
      BY DEF Inv
    <2>2. CASE Next
      <3>1. CASE \E u \in User : Clients(u)
        <4>1. UNCHANGED serverVars /\ Threads' = Threads
          BY <3>1, ConnectKeeps, JoinFailsKeeps, ReceiveKeeps, LostKeeps, CloseKeeps,
             WritesKeeps DEF Clients
        <4> QED  BY <4>1 DEF SlotsInv, Count, serverVars
      <3>2. CASE \E k \in Conn : Served(k)
        BY <2>1, <3>2, ServedAccounts, AccountedKeeps
      <3>3. CASE Accounted
        BY <2>1, <3>3, AccountedKeeps
      <3> QED  BY <2>2, <3>1, <3>2, <3>3, StepKinds
    <2>3. CASE UNCHANGED vars
      BY <2>3 DEF vars, serverVars, SlotsInv, Count, Threads
    <2> QED  BY <2>2, <2>3
  <1>3. SlotsInv => SlotsConserved
    BY DEF SlotsInv, Count, SlotsConserved, Threads, Serving
  <1> QED  BY <1>1, <1>2, <1>3, ServiceInvariant, PTL DEF Spec

------------------------------------------------------------------------------
(* Whom a connection serves: other frames may go ahead of its client's     *)
(* token, but a token that is on its way is the one this client owns, and  *)
(* what is read is read as from whom that one stands for.                  *)
FrameOf(c) == {f \in Incoming : f.request.op = "auth" => f.request.token = TokenOf[c]}
Session(k) ==
    /\ conn[k].in \in Seq(FrameOf(conn[k].client))
    /\ conn[k].pc \in {"reading", "running"} =>
           /\ TokenOf[conn[k].client] \in DOMAIN Identity
           /\ conn[k].caller = Identity[TokenOf[conn[k].client]]
Sessions == \A k \in Conn : Session(k)

(* Most steps go on with a session, or end it. *)
Stays(i) ==
    /\ conn'[i].client = conn[i].client
    /\ conn'[i].in = conn[i].in \/ (conn[i].in # <<>> /\ conn'[i].in = Tail(conn[i].in))
    /\ conn'[i].pc \in {"reading", "running"} =>
           conn[i].pc \in {"reading", "running"} /\ conn'[i].caller = conn[i].caller

LEMMA TailKeeps ==
    ASSUME NEW S, NEW s \in Seq(S), s # <<>>
    PROVE  Tail(s) \in Seq(S) /\ Head(s) \in S /\ Tail(s) # s
  <1>1. Len(Tail(s)) = Len(s) - 1 /\ Len(s) \in Nat
    OBVIOUS
  <1>2. Tail(s) # s
    <2> DEFINE n == Len(s)
               m == Len(Tail(s))
    <2>1. n \in Nat /\ m = n - 1
      BY <1>1
    <2> HIDE DEF n, m
    <2>2. m # n
      BY <2>1
    <2> QED  BY <2>2, Zenon DEF n, m
  <1>3. Tail(s) \in Seq(S) /\ Head(s) \in S
    OBVIOUS
  <1> QED  BY <1>2, <1>3

LEMMA StayingKeeps ==
    ASSUME NEW i \in Conn, Session(i), Stays(i)
    PROVE  Session(i)'
  <1> DEFINE S == FrameOf(conn[i].client)
  <1>1. S = FrameOf(conn'[i].client)
    BY DEF Stays
  <1>2. conn[i].in \in Seq(S)
    BY DEF Session
  <1> HIDE DEF S
  <1>3. conn'[i].in \in Seq(S)
    BY <1>2, TailKeeps DEF Stays
  <1> QED  BY <1>1, <1>3 DEF Session, Stays

LEMMA SameStays ==
    ASSUME NEW i \in Conn, conn'[i] = conn[i]
    PROVE  Stays(i)
  BY DEF Stays

(* What a client does, connecting and writing apart.                       *)
LEMMA ClientStays ==
    ASSUME Sorts, NEW u \in User,
           JoinFails(u) \/ Receive(u) \/ Lost(u) \/ Close(u)
    PROVE  \A i \in Conn : Stays(i)
  <1> SUFFICES ASSUME NEW i \in Conn  PROVE Stays(i)
    OBVIOUS
  <1>1. conn \in [Conn -> Connection] /\ conn[i] \in Connection
    BY DEF Sorts
  <1>2. CASE Receive(u)
    BY <1>1, <1>2 DEF Receive, Stays, Connection
  <1>3. CASE Lost(u) \/ JoinFails(u)
    BY <1>3, SameStays DEF Lost, JoinFails
  <1>4. CASE Close(u)
    BY <1>1, <1>4 DEF Close, Stays, Connection
  <1> QED  BY <1>2, <1>3, <1>4

(* A client's frames go out on a connection of its own.                    *)
LEMMA WritesSessions ==
    ASSUME Sorts, Sockets, Sessions, NEW u \in User, NEW r \in Request,
           r.op = "auth" => r.token = TokenOf[ClientOf[u]], Writes(u, r)
    PROVE  Sessions'
  <1> DEFINE c == ClientOf[u]
             f == Frame(u, r)
             S == FrameOf(c)
  <1>0. PICK k \in Conn : /\ c \in Client /\ conn[k].client = c
                         /\ conn' = [conn EXCEPT ![k].in = Append(@, f)]
    BY ClientAssumption DEF Writes, Sockets, Sorts
  <1> DEFINE in == Append(conn[k].in, f)
  <1>1. /\ c \in Client /\ conn[k].client = c
        /\ conn' = [conn EXCEPT ![k].in = in]
    BY <1>0
  <1>2. f \in S
    <2>1. ids[c] + 1 \in Nat
      BY <1>1 DEF Sorts
    <2>2. f = [id |-> ids[c] + 1, request |-> r]
      BY DEF Frame
    <2> HIDE DEF f
    <2>3. f \in Incoming /\ f.request = r
      BY <2>1, <2>2 DEF Incoming
    <2> QED  BY <2>3 DEF FrameOf
  <1>3. conn[k].in \in Seq(S)
    BY <1>1 DEF Sessions, Session
  <1>4. conn \in [Conn -> Connection] /\ conn[k] \in Connection
    BY <1>1 DEF Sorts
  <1>5. in \in Seq(S)
    <2> HIDE DEF S, f
    <2> QED  BY <1>2, <1>3, AppendOne
  <1> HIDE DEF in, S, f, c
  <1>6. conn' = [conn EXCEPT ![k] = [conn[k] EXCEPT !.in = in]]
    BY <1>1
  <1>7. /\ conn'[k].in = in /\ conn'[k].pc = conn[k].pc /\ conn'[k].client = c
        /\ conn'[k].caller = conn[k].caller
        /\ \A i \in Conn \ {k} : conn'[i] = conn[i]
    BY <1>1, <1>4, <1>6 DEF Connection
  <1>8. Session(k)'
    BY <1>1, <1>5, <1>7 DEF Sessions, Session, S
  <1>9. \A i \in Conn \ {k} : Session(i)'
    BY <1>7, SameStays, StayingKeeps DEF Sessions
  <1> QED  BY <1>8, <1>9 DEF Sessions

LEMMA AnswersFields ==
    ASSUME Sorts, NEW k \in Conn, NEW ok, NEW rest \in {"reading", "closed"}, NEW caller,
           Answers(k, ok, rest, caller)
    PROVE  /\ \A i \in Conn \ {k} : conn'[i] = conn[i]
           /\ conn'[k].client = conn[k].client /\ conn'[k].caller = caller
           /\ conn'[k].in = Tail(conn[k].in)
           /\ conn'[k].pc \in {rest, "closed"}
  BY DEF Answers, Sorts, Connection

LEMMA WelcomeFields ==
    ASSUME Sorts, NEW k \in Conn, NEW caller, Answers(k, TRUE, NextRound, caller)
    PROVE  /\ \A i \in Conn \ {k} : conn'[i] = conn[i]
           /\ conn'[k].client = conn[k].client /\ conn'[k].caller = caller
           /\ conn'[k].in = Tail(conn[k].in)
           /\ conn'[k].pc \in {NextRound, "closed"}
  BY DEF Answers, Sorts, Connection

(* The threads of the server, authentication apart.                        *)
LEMMA RepliesStays ==
    ASSUME Sorts, NEW k \in Conn, conn[k].pc \in {"reading", "running"},
           conn[k].in # <<>>, NEW ok, Replies(k, ok)
    PROVE  /\ \A i \in Conn : Stays(i)
           /\ conn'[k].in # conn[k].in
  <1>1. NextRound \in {"reading", "closed"}
    BY DEF NextRound
  <1>2. /\ \A i \in Conn \ {k} : conn'[i] = conn[i]
        /\ conn'[k].client = conn[k].client /\ conn'[k].caller = conn[k].caller
        /\ conn'[k].in = Tail(conn[k].in)
        /\ conn'[k].pc \in {"reading", "closed"}
    BY <1>1, AnswersFields DEF Replies
  <1>3. conn[k].in \in Seq(Incoming)
    BY DEF Sorts, Connection
  <1>4. Tail(conn[k].in) # conn[k].in
    BY <1>3, TailKeeps
  <1> QED  BY <1>2, <1>4, SameStays DEF Stays

LEMMA ServerStays ==
    ASSUME Sorts, Owed, NEW k \in Conn,
           \/ Accept(k) \/ ThreadFails(k) \/ GivesUp(k)
           \/ Ping(k) \/ Evaluate(k) \/ Nested(k) \/ NestedGrants(k) \/ Returns(k)
           \/ RegisterDelegation(k) \/ Revoke(k)
    PROVE  \A i \in Conn : Stays(i)
  <1>1. conn \in [Conn -> Connection] /\ \A i \in Conn : conn[i] \in Connection
    BY DEF Sorts
  <1>2. CASE Accept(k)
    BY <1>1, <1>2 DEF Accept, NextInLine, Stays, Connection
  <1>3. CASE ThreadFails(k)
    BY <1>1, <1>3 DEF ThreadFails, Stays, Connection
  <1>4. CASE GivesUp(k)
    BY <1>1, <1>4 DEF GivesUp, Stays, Connection
  <1>5. ASSUME \E ok : Replies(k, ok), conn[k].pc \in {"reading", "running"},
               conn[k].in # <<>>
        PROVE  \A i \in Conn : Stays(i)
    BY <1>5, RepliesStays
  <1>6. CASE Ping(k)
    BY <1>5, <1>6 DEF Ping, Reads
  <1>7. CASE Evaluate(k)
    <2>1. CASE \E ok : Replies(k, ok)
      BY <1>5, <1>7, <2>1 DEF Evaluate, Reads
    <2>2. CASE conn' = [conn EXCEPT ![k].pc = "running"]
      <3>1. conn[k].pc = "reading"
        BY <1>7 DEF Evaluate, Reads
      <3> QED  BY <1>1, <2>2, <3>1 DEF Stays, Connection
    <2> QED  BY <1>7, <2>1, <2>2 DEF Evaluate
  <1>8. CASE Nested(k) \/ NestedGrants(k)
    BY <1>8, SameStays DEF Nested, NestedGrants
  <1>9. CASE Returns(k)
    <2>1. CASE conn' = conn
      BY <2>1, SameStays
    <2> QED  BY <1>5, <1>9, <2>1 DEF Returns, Owed
  <1>10. CASE RegisterDelegation(k)
    BY <1>5, <1>10 DEF RegisterDelegation, Reads
  <1>11. CASE Revoke(k)
    BY <1>5, <1>11 DEF Revoke, Reads
  <1> QED  BY <1>2, <1>3, <1>4, <1>6, <1>7, <1>8, <1>9, <1>10, <1>11

(* A connection begins with nothing on its way,                            *)
LEMMA ConnectSessions ==
    ASSUME Sorts, Sessions, NEW u \in User, Connect(u)
    PROVE  Sessions'
  <1> DEFINE new == Opened(ClientOf[u])
  <1>1. PICK k \in Conn : conn' = [conn EXCEPT ![k] = new]
    BY ConnectOpens
  <1>2. new.pc = "queued" /\ new.in = <<>>
    BY ClientAssumption, NewConnection
  <1> HIDE DEF new
  <1>3. conn'[k] = new /\ \A i \in Conn \ {k} : conn'[i] = conn[i]
    BY <1>1 DEF Sorts
  <1>4. Session(k)'
    <2>1. <<>> \in Seq(FrameOf(conn'[k].client))
      OBVIOUS
    <2> QED  BY <1>2, <1>3, <2>1 DEF Session
  <1>5. \A i \in Conn \ {k} : Session(i)'
    BY <1>3, SameStays, StayingKeeps DEF Sessions
  <1> QED  BY <1>4, <1>5 DEF Sessions

(* and goes on as whom its client's token stands for.                      *)
LEMMA AuthenticateSessions ==
    ASSUME Sorts, Sessions, NEW k \in Conn, Authenticate(k)
    PROVE  Sessions'
  <1> DEFINE r == Head(conn[k].in).request
             S == FrameOf(conn[k].client)
  <1>1. conn[k].in # <<>> /\ conn[k].in \in Seq(S)
    BY DEF Authenticate, Sessions, Session
  <1>2. Tail(conn[k].in) \in Seq(S) /\ Head(conn[k].in) \in S
    <2> HIDE DEF S
    <2> QED  BY <1>1, TailKeeps
  <1>3. r.op = "auth" => r.token = TokenOf[conn[k].client]
    BY <1>2 DEF FrameOf
  <1>4. CASE r.op = "auth" /\ r.token \in DOMAIN Identity
    <2> DEFINE who == Identity[r.token]
    <2>1. Answers(k, TRUE, NextRound, who)
      BY <1>4 DEF Authenticate
    <2>2. who = Identity[TokenOf[conn[k].client]]
          /\ TokenOf[conn[k].client] \in DOMAIN Identity
      BY <1>3, <1>4
    <2> HIDE DEF who, r
    <2>3. /\ \A i \in Conn \ {k} : conn'[i] = conn[i]
          /\ conn'[k].client = conn[k].client /\ conn'[k].caller = who
          /\ conn'[k].in = Tail(conn[k].in)
      BY <2>1, WelcomeFields
    <2>4. Session(k)'
      BY <1>2, <2>2, <2>3 DEF Session
    <2>5. \A i \in Conn \ {k} : Session(i)'
      BY <2>3, SameStays, StayingKeeps DEF Sessions
    <2> QED  BY <2>4, <2>5 DEF Sessions
  <1>5. CASE ~ (r.op = "auth" /\ r.token \in DOMAIN Identity)
    <2>1. Answers(k, FALSE, "closed", Unserved)
      BY <1>5 DEF Authenticate
    <2> HIDE DEF r
    <2>2. /\ \A i \in Conn \ {k} : conn'[i] = conn[i]
          /\ conn'[k].client = conn[k].client /\ conn'[k].in = Tail(conn[k].in)
          /\ conn'[k].pc = "closed"
      BY <2>1, AnswersFields
    <2>3. Session(k)'
      BY <1>2, <2>2 DEF Session
    <2>4. \A i \in Conn \ {k} : Session(i)'
      BY <2>2, SameStays, StayingKeeps DEF Sessions
    <2> QED  BY <2>3, <2>4 DEF Sessions
  <1> QED  BY <1>4, <1>5

LEMMA SessionsStep == Inv /\ Sessions /\ [Next]_vars => Sessions'
  <1> SUFFICES ASSUME Inv, Sessions, [Next]_vars  PROVE Sessions'
    OBVIOUS
  <1>0. Sorts /\ Owed /\ Sockets
    BY DEF Inv
  <1>1. ASSUME \A i \in Conn : Stays(i)  PROVE Sessions'
    BY <1>1, StayingKeeps DEF Sessions
  <1>2. CASE conn' = conn
    BY <1>1, <1>2, SameStays
  <1>3. CASE UNCHANGED vars
    BY <1>2, <1>3 DEF vars
  <1>4. ASSUME NEW u \in work.users,
               \/ Connect(u) \/ SendToken(u) \/ JoinFails(u)
               \/ Receive(u) \/ Lost(u) \/ Close(u)
               \/ \E r \in work.requests : Call(u, r)
        PROVE  Sessions'
    <2>1. u \in User /\ \A r \in work.requests : r \in Request /\ r.op # "auth"
      BY <1>0, WorkloadAssumption, RequestAssumption DEF Sorts, Request
    <2>2. CASE SendToken(u)
      <3> DEFINE r == [op |-> "auth", token |-> TokenOf[ClientOf[u]]]
      <3>1. r \in Request /\ r.token = TokenOf[ClientOf[u]] /\ Writes(u, r)
        BY <2>1, <2>2, ClientAssumption DEF Request, SendToken
      <3> HIDE DEF r
      <3> QED  BY <1>0, <2>1, <3>1, WritesSessions
    <2>3. CASE \E r \in work.requests : Call(u, r)
      BY <1>0, <2>1, <2>3, WritesSessions DEF Call
    <2> QED  BY <1>0, <1>1, <1>4, <2>1, <2>2, <2>3, ConnectSessions, ClientStays
  <1>5. ASSUME NEW k \in Conn,
               \/ Accept(k) \/ ThreadFails(k) \/ Authenticate(k) \/ GivesUp(k)
               \/ Ping(k) \/ Evaluate(k) \/ Nested(k) \/ NestedGrants(k) \/ Returns(k)
               \/ RegisterDelegation(k) \/ Revoke(k)
        PROVE  Sessions'
    BY <1>0, <1>1, <1>5, AuthenticateSessions, ServerStays
  <1>6. CASE AcceptFails \/ Stop \/ (Operator /\ UNCHANGED <<clientVars, conn, serverVars>>)
    BY <1>2, <1>6 DEF AcceptFails, Stop
  <1>7. CASE StopListening
    <2>1. \A i \in Conn : Stays(i)
      BY <1>0, <1>7 DEF StopListening, Stays, Sorts, Connection
    <2> QED  BY <1>1, <2>1
  <1> QED  BY <1>3, <1>4, <1>5, <1>6, <1>7 DEF Next

(* At first nothing is on its way, and nobody is served.                   *)
THEOREM SessionsHold == Spec => []Sessions
  <1>1. Init => Sessions
    <2> SUFFICES ASSUME Init, NEW k \in Conn  PROVE Session(k)
      BY DEF Sessions
    <2>1. conn[k].in = <<>> /\ conn[k].pc = "none"
      BY DEF Init, Unused
    <2>2. <<>> \in Seq(FrameOf(conn[k].client))
      OBVIOUS
    <2> QED  BY <2>1, <2>2 DEF Session
  <1>2. Inv /\ Sessions /\ [Next]_vars => Sessions'
    BY SessionsStep
  <1> QED  BY <1>1, <1>2, ServiceInvariant, PTL DEF Spec

------------------------------------------------------------------------------
(* What the agents hold, and were last given, are units for each of them.  *)
Grants == live \in [Agent -> Nat] /\ DOMAIN published = Agent

LEMMA EvaluatingGivesNothing ==
    ASSUME NEW t, NEW p, Decided(t, p) \/ Executing(t, p)
    PROVE  UNCHANGED <<live, published, registry>>
  BY DEF Decided, Unheeded, Denied, Refused, Executing, govVars

LEMMA ExecutedTakes ==
    ASSUME Grants, NEW t, NEW d, Executed(t, d)
    PROVE  Grants' /\ UNCHANGED <<published, registry>>
  <1> DEFINE a == Last(stack).proposal.agent
  <1>1. UNCHANGED <<published, registry>>
    BY DEF Executed
  <1>2. live' = live \/ live' = [live EXCEPT ![a] = Taken(@)]
    BY DEF Executed
  <1> HIDE DEF a
  <1>3. live' \in [Agent -> Nat]
    BY <1>2 DEF Grants, Taken
  <1> QED  BY <1>1, <1>3 DEF Grants

(* A delegation gives no more than the delegator holds at that moment.     *)
LEMMA DelegateGives ==
    ASSUME Grants, NEW from \in Agent, NEW to \in Agent, NEW units \in Nat,
           NEW t, Delegate(t, from, to, units)
    PROVE  /\ Grants' /\ UNCHANGED registry
           /\ \A a \in Agent : published'[a] # published[a] =>
                  published'[a].units <= live[from]
  <1> DEFINE given == IF units < Ceiling[to] THEN units ELSE Ceiling[to]
  <1>1. units <= live[from] /\ live[from] \in Nat /\ Ceiling[to] \in Nat
    BY CeilingAssumption DEF Delegate, MayGive, Grants
  <1>2. given \in Nat /\ given <= live[from]
    BY <1>1
  <1>3. Publish(to, given) /\ UNCHANGED registry
    BY DEF Delegate, Publish
  <1> HIDE DEF given
  <1>4. live' = [live EXCEPT ![to] = given]
        /\ published' = [published EXCEPT ![to] = [units |-> given, since |-> stepCount]]
    BY <1>3 DEF Publish
  <1>5. Grants'
    BY <1>2, <1>4 DEF Grants
  <1>6. /\ \A a \in Agent \ {to} : published'[a] = published[a]
        /\ published'[to].units = given
    BY <1>4 DEF Grants
  <1> QED  BY <1>2, <1>3, <1>5, <1>6

LEMMA RevokeGives ==
    ASSUME Grants, NEW t, NEW to, RevokeDelegation(t, to)
    PROVE  Grants' /\ UNCHANGED registry
  <1>1. /\ live' = [live EXCEPT ![to] = Ceiling[to]]
        /\ published' = [published EXCEPT ![to] = [units |-> Ceiling[to],
                                                   since |-> stepCount]]
        /\ UNCHANGED registry
    BY DEF RevokeDelegation, Publish
  <1>2. live' \in [Agent -> Nat]
    BY <1>1, CeilingAssumption DEF Grants
  <1>3. DOMAIN published' = Agent
    BY <1>1 DEF Grants
  <1> QED  BY <1>1, <1>2, <1>3 DEF Grants

(* Whoever asks, it is for somebody to whom the token gives the right; or  *)
(* it is a boundary that runs, for nobody.                                 *)
Asks(k, units) ==
    /\ conn[k].pc = "reading" /\ conn'[k].in # conn[k].in
    /\ Entitled(k, units)
ByRight ==
    \A a \in Agent : published'[a] # published[a] =>
        \/ \E k \in Conn : Asks(k, published'[a].units)
        \/ conn' = conn /\ \E k \in Conn : conn[k].pc = "running"

LEMMA HeadIsRequest ==
    ASSUME Sorts, NEW k \in Conn, conn[k].in # <<>>
    PROVE  Head(conn[k].in).request \in Request
  <1>1. conn[k].in \in Seq(Incoming)
    BY DEF Sorts, Connection
  <1>2. Head(conn[k].in) \in Incoming
    BY <1>1, TailKeeps
  <1> QED  BY <1>2 DEF Incoming

LEMMA EvaluatedIsTyped ==
    ASSUME Sorts, NEW k \in Conn, conn[k].in # <<>>,
           Head(conn[k].in).request.op = "evaluate"
    PROVE  Head(conn[k].in).request.about \in Proposal
  <1>1. PICK r \in Request : r = Head(conn[k].in).request
    BY HeadIsRequest
  <1>2. r \notin {[op |-> "auth", token |-> TokenOf[c]] : c \in Client}
    BY <1>1
  <1> QED  BY <1>1, <1>2, RequestAssumption DEF Request

LEMMA GrantedIsTyped ==
    ASSUME Sorts, NEW r,
           r \in work.grants \/ \E k \in Conn : conn[k].in # <<>> /\ r = Head(conn[k].in).request
    PROVE  /\ r.op = "revoke" => r.about \in Agent
           /\ r.op = "delegate" =>
                  r.about.from \in Agent /\ r.about.to \in Agent /\ r.about.units \in Nat
  <1>1. r \in work.grants \/ r \in Request
    BY HeadIsRequest
  <1>2. CASE r \in {[op |-> "auth", token |-> TokenOf[c]] : c \in Client}
    BY <1>2
  <1>3. CASE \E w \in Workload : r \in w.requests \cup w.grants
    BY <1>3, GrantAssumption
  <1> QED  BY <1>1, <1>2, <1>3 DEF Request, Sorts

LEMMA RegisterDelegationGives ==
    ASSUME Sorts, Sessions, Grants, NEW k \in Conn, RegisterDelegation(k)
    PROVE  Grants' /\ ByRight /\ UNCHANGED registry
  <1> DEFINE q == Head(conn[k].in).request
             r == q.about
  <1>1. conn[k].pc = "reading" /\ conn[k].in # <<>> /\ q.op = "delegate"
    BY DEF RegisterDelegation, Reads
  <1>2. conn'[k].in # conn[k].in
    <2>1. \E ok : Replies(k, ok)
      BY DEF RegisterDelegation
    <2> QED  BY <1>1, <2>1, RepliesStays
  <1>3. r.from \in Agent /\ r.to \in Agent /\ r.units \in Nat
    BY <1>1, GrantedIsTyped
  <1>4. /\ TokenOf[conn[k].client] \in DOMAIN Identity
        /\ conn[k].caller = Identity[TokenOf[conn[k].client]]
    BY <1>1 DEF Sessions, Session
  <1>5. \/ ActsAs(conn[k].caller, r.from) /\ Delegate(k, r.from, r.to, r.units)
        \/ DelegationRefused(k, r.from, r.units)
        \/ UNCHANGED govVars
    BY DEF RegisterDelegation
  <1> HIDE DEF q, r
  <1>6. CASE ActsAs(conn[k].caller, r.from) /\ Delegate(k, r.from, r.to, r.units)
    <2>1. /\ Grants' /\ UNCHANGED registry
          /\ \A a \in Agent : published'[a] # published[a] =>
                 published'[a].units <= live[r.from]
      BY <1>3, <1>6, DelegateGives
    <2>2. conn[k].caller.admin \/ conn[k].caller.agent = r.from
      BY <1>6 DEF ActsAs
    <2>3. ByRight
      BY <1>1, <1>2, <1>4, <2>1, <2>2 DEF ByRight, Asks, Entitled
    <2> QED  BY <2>1, <2>3
  <1>7. CASE DelegationRefused(k, r.from, r.units) \/ UNCHANGED govVars
    BY <1>7 DEF DelegationRefused, govVars, Grants, ByRight
  <1> QED  BY <1>5, <1>6, <1>7

(* A boundary gives what it likes.                                         *)
LEMMA NestedGrantsGive ==
    ASSUME Sorts, Grants, NEW k \in Conn, NestedGrants(k)
    PROVE  Grants' /\ ByRight /\ UNCHANGED registry
  <1>1. conn[k].pc = "running" /\ conn' = conn
    BY DEF NestedGrants
  <1>2. PICK r \in work.grants :
            \/ /\ r.op = "delegate"
               /\ \/ Delegate(k, r.about.from, r.about.to, r.about.units)
                  \/ DelegationRefused(k, r.about.from, r.about.units)
            \/ r.op = "revoke" /\ RevokeDelegation(k, r.about)
    BY DEF NestedGrants
  <1>3. Grants' /\ UNCHANGED registry
    <2>1. CASE r.op = "delegate" /\ Delegate(k, r.about.from, r.about.to, r.about.units)
      BY <2>1, GrantedIsTyped, DelegateGives
    <2>2. CASE DelegationRefused(k, r.about.from, r.about.units)
      BY <2>2 DEF DelegationRefused, Grants
    <2>3. CASE RevokeDelegation(k, r.about)
      BY <2>3, RevokeGives
    <2> QED  BY <1>2, <2>1, <2>2, <2>3
  <1> QED  BY <1>1, <1>3 DEF ByRight

LEMMA RevokeIsEntitled ==
    ASSUME Sorts, Sessions, Grants, NEW k \in Conn, Revoke(k)
    PROVE  Grants' /\ ByRight /\ UNCHANGED registry
  <1>1. CASE conn[k].caller.admin
    <2>1. Grants' /\ UNCHANGED registry
      BY <1>1, RevokeGives DEF Revoke
    <2>2. conn[k].pc = "reading" /\ conn'[k].in # conn[k].in
      BY <1>1, RepliesStays DEF Revoke, Reads
    <2>3. ByRight
      BY <1>1, <2>2 DEF ByRight, Asks, Entitled, Sessions, Session
    <2> QED  BY <2>1, <2>3
  <1>2. CASE ~ conn[k].caller.admin
    BY <1>2 DEF Revoke, govVars, Grants, ByRight
  <1> QED  BY <1>1, <1>2

(* A step of the governor's clients and threads leaves the keys alone.     *)
LEMMA StepGives ==
    ASSUME Sorts, Sessions, Grants, [Next]_vars
    PROVE  /\ Grants' /\ ByRight
           /\ UNCHANGED registry \/ Operator
  <1>1. ASSUME UNCHANGED <<live, published>>  PROVE Grants' /\ ByRight
    BY <1>1 DEF Grants, ByRight
  <1>2. CASE UNCHANGED vars
    BY <1>1, <1>2 DEF vars, govVars
  <1>3. ASSUME NEW u \in work.users,
               \/ Connect(u) \/ SendToken(u) \/ JoinFails(u)
               \/ Receive(u) \/ Lost(u) \/ Close(u)
               \/ \E r \in work.requests : Call(u, r)
        PROVE  UNCHANGED govVars
    BY <1>3 DEF Connect, SendToken, JoinFails, Writes, Sends, Receive, Lost, Close, Call
  <1>4. ASSUME NEW k \in Conn,
               \/ Accept(k) \/ ThreadFails(k) \/ Authenticate(k) \/ GivesUp(k) \/ Ping(k)
        PROVE  UNCHANGED govVars
    BY <1>4 DEF Accept, ThreadFails, Authenticate, GivesUp, Ping
  <1>5. ASSUME NEW k \in Conn, Evaluate(k) \/ Nested(k)
        PROVE  UNCHANGED <<live, published, registry>>
    BY <1>5, EvaluatingGivesNothing DEF Evaluate, Nested
  <1>6. ASSUME NEW k \in Conn, Returns(k)
        PROVE  Grants' /\ ByRight /\ UNCHANGED registry
    <2>1. PICK d : Executed(k, d)
      BY <1>6 DEF Returns
    <2> QED  BY <2>1, ExecutedTakes DEF ByRight
  <1>7. CASE AcceptFails \/ Stop \/ StopListening
    BY <1>1, <1>7 DEF AcceptFails, Stop, StopListening, govVars
  <1>8. CASE Operator
    <2>1. UNCHANGED <<live, published>>
      BY <1>8 DEF Operator, AddKey, RevokeKey, RotateKey, RegistryChanges
    <2> QED  BY <1>1, <1>8, <2>1
  <1>9. CASE \E k \in Conn : RegisterDelegation(k) \/ Revoke(k) \/ NestedGrants(k)
    BY <1>9, RegisterDelegationGives, RevokeIsEntitled, NestedGrantsGive
  <1>10. CASE UNCHANGED <<live, published, registry>>
    BY <1>1, <1>10
  <1>11. UNCHANGED govVars => UNCHANGED <<live, published, registry>>
    BY DEF govVars
  <1> QED
    BY <1>2, <1>3, <1>4, <1>5, <1>6, <1>7, <1>8, <1>9, <1>10, <1>11 DEF Next

------------------------------------------------------------------------------
(* A key names its agent and says whether it was revoked.                  *)
KeyStays(r, s) ==
    \A kid \in DOMAIN r :
        /\ kid \in DOMAIN s
        /\ s[kid].agent = r[kid].agent
        /\ r[kid].revoked => s[kid].revoked
Typed(r) == \A kid \in DOMAIN r : r[kid] \in [agent : Agent, revoked : BOOLEAN]

LEMMA RevokedKeeps ==
    ASSUME NEW r, NEW kid \in DOMAIN r, Typed(r)
    PROVE  Typed(Revoked(r, kid)) /\ KeyStays(r, Revoked(r, kid))
  BY DEF Typed, Revoked, KeyStays

LEMMA WithKeyKeeps ==
    ASSUME NEW kid, kid \notin DOMAIN registry, NEW a \in Agent, Typed(registry)
    PROVE  Typed(WithKey(kid, a)) /\ KeyStays(registry, WithKey(kid, a))
  BY DEF Typed, WithKey, KeyStays

LEMMA OperatorKeeps ==
    ASSUME Typed(registry), Operator
    PROVE  Typed(registry)' /\ KeyStays(registry, registry')
  <1>1. PICK kid \in work.keys :
            \/ \E a \in Agent : AddKey(kid, a)
            \/ RevokeKey(kid)
            \/ \E new \in work.keys : RotateKey(kid, new)
    BY DEF Operator
  <1>2. CASE \E a \in Agent : AddKey(kid, a)
    <2>1. PICK a \in Agent : kid \notin DOMAIN registry /\ registry' = WithKey(kid, a)
      BY <1>2 DEF AddKey, RegistryChanges
    <2>2. Typed(registry')
      BY <2>1, WithKeyKeeps
    <2> QED  BY <2>1, <2>2, WithKeyKeeps DEF Typed
  <1>3. CASE RevokeKey(kid)
    <2>1. kid \in DOMAIN registry /\ registry' = Revoked(registry, kid)
      BY <1>3 DEF RevokeKey, RegistryChanges
    <2>2. Typed(registry')
      BY <2>1, RevokedKeeps
    <2> QED  BY <2>1, <2>2, RevokedKeeps DEF Typed
  <1>4. CASE \E new \in work.keys : RotateKey(kid, new)
    <2>1. PICK new \in work.keys :
              /\ kid \in DOMAIN registry /\ new \notin DOMAIN registry
              /\ registry' = Revoked(WithKey(new, registry[kid].agent), kid)
      BY <1>4 DEF RotateKey, RegistryChanges
    <2> DEFINE mid == WithKey(new, registry[kid].agent)
    <2>2. registry[kid].agent \in Agent
      BY <2>1 DEF Typed
    <2>3. Typed(mid) /\ KeyStays(registry, mid)
      BY <2>1, <2>2, WithKeyKeeps
    <2>4. registry' = Revoked(mid, kid)
      BY <2>1
    <2> HIDE DEF mid
    <2>5. kid \in DOMAIN mid
      BY <2>1, <2>3 DEF KeyStays
    <2>6. Typed(registry') /\ KeyStays(mid, registry')
      BY <2>3, <2>4, <2>5, RevokedKeeps
    <2>7. KeyStays(registry, registry')
      BY <2>3, <2>6 DEF KeyStays
    <2> QED  BY <2>6, <2>7 DEF Typed
  <1> QED  BY <1>1, <1>2, <1>3, <1>4

(* A revoked key never verifies again, and a kid never changes hands:      *)
(* whatever the operator adds, revokes or rotates, while calls are served. *)
THEOREM RevokedForGood == Spec => RevocationIsFinal
  <1>1. Init => Typed(registry) /\ Grants
    BY KeysAssumption, CeilingAssumption DEF Init, GovInit, KeyTable, Typed, Grants
  <1>2. Inv /\ Sessions /\ Grants /\ Typed(registry) /\ [Next]_vars =>
            Grants' /\ Typed(registry)' /\ [KeyStays(registry, registry')]_registry
    <2> SUFFICES ASSUME Inv, Sessions, Grants, Typed(registry), [Next]_vars
                 PROVE  Grants' /\ Typed(registry)' /\ [KeyStays(registry, registry')]_registry
      OBVIOUS
    <2>1. Grants' /\ (UNCHANGED registry \/ Operator)
      BY StepGives DEF Inv
    <2>2. CASE UNCHANGED registry
      BY <2>1, <2>2 DEF Typed
    <2>3. CASE Operator
      BY <2>1, <2>3, OperatorKeeps
    <2> QED  BY <2>1, <2>2, <2>3
  <1>3. [KeyStays(registry, registry')]_registry =>
            [\A kid \in DOMAIN registry :
                 /\ kid \in DOMAIN registry'
                 /\ registry'[kid].agent = registry[kid].agent
                 /\ registry[kid].revoked => registry'[kid].revoked]_registry
    BY DEF KeyStays
  <1> QED
    BY <1>1, <1>2, <1>3, ServiceInvariant, SessionsHold, PTL DEF Spec, RevocationIsFinal

------------------------------------------------------------------------------
(* The governor in memory.  Every step of the service is a way through one *)
(* of its operations, or leaves what it remembers alone.                   *)
memoryVars == <<seenNonces, seenIds, stepCount, live, restricted, intent, stack,
                history, claimed, published>>
Operates ==
    \/ UNCHANGED memoryVars
    \/ \E t \in Conn, p \in Proposal :
           \/ Denied(t, p) \/ Executing(t, p)
           \/ \E d \in Decision : Refused(t, p, d)
    \/ \E t \in Conn, d \in Decision : Executed(t, d)
    \/ \E t \in Conn, from, to \in Agent, units \in Nat :
           Delegate(t, from, to, units) \/ DelegationRefused(t, from, units)
    \/ \E t \in Conn, a \in Agent : RevokeDelegation(t, a)

LEMMA DecidedOperates ==
    ASSUME NEW t \in Conn, NEW p \in Proposal, Decided(t, p) \/ Executing(t, p)
    PROVE  Operates
  BY DEF Operates, Decided, Unheeded, govVars, memoryVars

LEMMA NestedGrantsOperate ==
    ASSUME Sorts, NEW k \in Conn, NestedGrants(k)
    PROVE  Operates
  <1>1. PICK r \in work.grants :
            \/ /\ r.op = "delegate"
               /\ \/ Delegate(k, r.about.from, r.about.to, r.about.units)
                  \/ DelegationRefused(k, r.about.from, r.about.units)
            \/ r.op = "revoke" /\ RevokeDelegation(k, r.about)
    BY DEF NestedGrants
  <1>2. CASE r.op = "delegate"
    <2>1. r.about.from \in Agent /\ r.about.to \in Agent /\ r.about.units \in Nat
      BY <1>2, GrantedIsTyped
    <2> QED  BY <1>1, <1>2, <2>1 DEF Operates
  <1>3. CASE r.op = "revoke"
    <2>1. r.about \in Agent
      BY <1>3, GrantedIsTyped
    <2> QED  BY <1>1, <1>3, <2>1 DEF Operates
  <1> QED  BY <1>1, <1>2, <1>3

LEMMA ServiceOperates ==
    ASSUME Sorts, [Next]_vars
    PROVE  Operates
  <1>1. CASE UNCHANGED vars
    BY <1>1 DEF vars, govVars, memoryVars, Operates
  <1>2. ASSUME NEW u \in work.users,
               \/ Connect(u) \/ SendToken(u) \/ JoinFails(u)
               \/ Receive(u) \/ Lost(u) \/ Close(u)
               \/ \E r \in work.requests : Call(u, r)
        PROVE  UNCHANGED govVars
    BY <1>2 DEF Connect, SendToken, JoinFails, Writes, Sends, Receive, Lost, Close, Call
  <1>3. ASSUME NEW k \in Conn,
               \/ Accept(k) \/ ThreadFails(k) \/ Authenticate(k) \/ GivesUp(k) \/ Ping(k)
        PROVE  UNCHANGED govVars
    BY <1>3 DEF Accept, ThreadFails, Authenticate, GivesUp, Ping
  <1>4. CASE AcceptFails \/ Stop \/ StopListening
    BY <1>4 DEF AcceptFails, Stop, StopListening, Operates, govVars, memoryVars
  <1>5. CASE Operator
    BY <1>5 DEF Operator, AddKey, RevokeKey, RotateKey, RegistryChanges, Operates, memoryVars
  <1>6. ASSUME NEW k \in Conn, Evaluate(k)  PROVE Operates
    <2> DEFINE p == Head(conn[k].in).request.about
    <2>1. p \in Proposal
      BY <1>6, EvaluatedIsTyped DEF Evaluate, Reads
    <2>2. Decided(k, p) \/ Executing(k, p)
      BY <1>6 DEF Evaluate
    <2> HIDE DEF p
    <2> QED  BY <2>1, <2>2, DecidedOperates
  <1>7. ASSUME NEW k \in Conn, Nested(k)  PROVE Operates
    <2>1. PICK p \in work.proposals : Decided(k, p) \/ Executing(k, p)
      BY <1>7 DEF Nested
    <2>2. p \in Proposal
      BY HandledAssumption DEF Sorts
    <2> QED  BY <2>1, <2>2, DecidedOperates
  <1>8. ASSUME NEW k \in Conn, Returns(k)  PROVE Operates
    BY <1>8 DEF Returns, Operates
  <1>9. ASSUME NEW k \in Conn, RegisterDelegation(k)  PROVE Operates
    <2> DEFINE r == Head(conn[k].in).request.about
    <2>1. r.from \in Agent /\ r.to \in Agent /\ r.units \in Nat
      BY <1>9, GrantedIsTyped DEF RegisterDelegation, Reads
    <2>2. \/ Delegate(k, r.from, r.to, r.units) \/ DelegationRefused(k, r.from, r.units)
          \/ UNCHANGED govVars
      BY <1>9 DEF RegisterDelegation
    <2> HIDE DEF r
    <2> QED  BY <2>1, <2>2 DEF Operates, govVars, memoryVars
  <1>10. ASSUME NEW k \in Conn, Revoke(k)  PROVE Operates
    <2> DEFINE a == Head(conn[k].in).request.about
    <2>1. a \in Agent
      BY <1>10, GrantedIsTyped DEF Revoke, Reads
    <2>2. RevokeDelegation(k, a) \/ UNCHANGED govVars
      BY <1>10 DEF Revoke
    <2> HIDE DEF a
    <2> QED  BY <2>1, <2>2 DEF Operates, govVars, memoryVars
  <1>11. UNCHANGED govVars => Operates
    BY DEF govVars, memoryVars, Operates
  <1> QED
    BY <1>1, <1>2, <1>3, <1>4, <1>5, <1>6, <1>7, <1>8, <1>9, <1>10, <1>11,
       NestedGrantsOperate DEF Next

------------------------------------------------------------------------------
(* A bounded memory holds the last of all that was put in.                 *)
LEMMA LastNIs ==
    ASSUME NEW S, NEW s \in Seq(S), NEW n \in Nat
    PROVE  /\ LastN(s, n) \in Seq(S)
           /\ Len(LastN(s, n)) <= n
           /\ Len(LastN(s, n)) <= Len(s)
           /\ Len(s) <= n => LastN(s, n) = s
           /\ Len(s) > n => Len(LastN(s, n)) = n
           /\ \A i \in 1..Len(LastN(s, n)) :
                  /\ i + (Len(s) - Len(LastN(s, n))) \in 1..Len(s)
                  /\ LastN(s, n)[i] = s[i + (Len(s) - Len(LastN(s, n)))]
  <1>1. CASE Len(s) > n
    <2> DEFINE m == Len(s) - n + 1
    <2>1. m \in 1..Len(s)+1 /\ Len(s) \in Nat /\ Len(s) - m + 1 = n
      BY <1>1
    <2>2. LastN(s, n) = SubSeq(s, m, Len(s))
      BY <1>1 DEF LastN
    <2>3. /\ SubSeq(s, m, Len(s)) \in Seq(S)
          /\ Len(SubSeq(s, m, Len(s))) = n
          /\ \A i \in 1..n : SubSeq(s, m, Len(s))[i] = s[m + i - 1]
      BY <2>1
    <2>4. \A i \in 1..n : i + (Len(s) - n) \in 1..Len(s) /\ m + i - 1 = i + (Len(s) - n)
      BY <1>1
    <2> HIDE DEF m
    <2> QED  BY <1>1, <2>1, <2>2, <2>3, <2>4, SMTT(30)
  <1>2. CASE Len(s) <= n
    <2>1. LastN(s, n) = s
      BY <1>2 DEF LastN
    <2> QED  BY <1>2, <2>1
  <1> QED  BY <1>1, <1>2

LEMMA Among ==
    ASSUME NEW S, NEW s \in Seq(S), NEW n \in Nat, NEW i \in 1..Len(s), Len(s) - i < n
    PROVE  \E k \in DOMAIN LastN(s, n) : LastN(s, n)[k] = s[i]
  <1> DEFINE t == LastN(s, n)
             k == i - (Len(s) - Len(t))
  <1>1. /\ t \in Seq(S)
        /\ (Len(s) <= n => Len(t) = Len(s)) /\ (Len(s) > n => Len(t) = n)
        /\ \A j \in 1..Len(t) : t[j] = s[j + (Len(s) - Len(t))]
    BY LastNIs
  <1> HIDE DEF t
  <1>2. k \in 1..Len(t) /\ k + (Len(s) - Len(t)) = i
    BY <1>1
  <1>3. DOMAIN t = 1..Len(t)
    BY <1>1
  <1> HIDE DEF k
  <1>4. t[k] = s[i]
    BY <1>1, <1>2
  <1> QED  BY <1>2, <1>3, <1>4 DEF t

LEMMA LastNAppends ==
    ASSUME NEW S, NEW s \in Seq(S), NEW e \in S, NEW n \in Nat
    PROVE  LastN(Append(LastN(s, n), e), n) = LastN(Append(s, e), n)
  <1> DEFINE t == LastN(s, n)
             l == LastN(Append(t, e), n)
             r == LastN(Append(s, e), n)
  <1>1. /\ t \in Seq(S) /\ Len(t) <= n /\ Len(t) <= Len(s)
        /\ (Len(s) <= n => t = s) /\ (Len(s) > n => Len(t) = n)
        /\ \A i \in 1..Len(t) : t[i] = s[i + (Len(s) - Len(t))]
    BY LastNIs
  <1>2. CASE Len(s) <= n
    BY <1>1, <1>2
  <1>3. CASE Len(s) > n
    <2> HIDE DEF t
    <2>1. Len(t) = n
      BY <1>1, <1>3
    <2>2. /\ Append(t, e) \in Seq(S) /\ Len(Append(t, e)) = n + 1
          /\ Append(s, e) \in Seq(S) /\ Len(Append(s, e)) = Len(s) + 1
      BY <1>1, <2>1
    <2>3. /\ l \in Seq(S) /\ Len(l) = n
          /\ \A i \in 1..n : l[i] = Append(t, e)[i + 1]
      <3> DEFINE u == Append(t, e)
      <3>1. u \in Seq(S) /\ Len(u) > n /\ Len(u) - n = 1
        BY <2>2
      <3> HIDE DEF u, t
      <3>2. /\ LastN(u, n) \in Seq(S) /\ Len(LastN(u, n)) = n
            /\ \A i \in 1..n : LastN(u, n)[i] = u[i + 1]
        BY <3>1, LastNIs
      <3> QED  BY <3>2 DEF u
    <2>4. /\ r \in Seq(S) /\ Len(r) = n
          /\ \A i \in 1..n : r[i] = Append(s, e)[i + (Len(s) + 1 - n)]
      <3> DEFINE u == Append(s, e)
      <3>1. u \in Seq(S) /\ Len(u) > n /\ Len(u) = Len(s) + 1
        BY <1>3, <2>2
      <3> HIDE DEF u
      <3>2. /\ LastN(u, n) \in Seq(S) /\ Len(LastN(u, n)) = n
            /\ \A i \in 1..Len(LastN(u, n)) :
                   LastN(u, n)[i] = u[i + (Len(u) - Len(LastN(u, n)))]
        BY <3>1, LastNIs
      <3>3. \A i \in 1..n : LastN(u, n)[i] = u[i + (Len(s) + 1 - n)]
        BY <3>1, <3>2
      <3> QED  BY <3>2, <3>3 DEF u
    <2> HIDE DEF l, r
    <2>5. \A i \in 1..n : l[i] = r[i]
      <3> SUFFICES ASSUME NEW i \in 1..n  PROVE l[i] = r[i]
        OBVIOUS
      <3>1. CASE i = n
        <4>1. Append(t, e)[n + 1] = e
          BY <1>1, <2>1
        <4>2. Append(s, e)[Len(s) + 1] = e /\ n + (Len(s) + 1 - n) = Len(s) + 1
          OBVIOUS
        <4> QED  BY <2>3, <2>4, <3>1, <4>1, <4>2
      <3>2. CASE i < n
        <4>1. i + 1 \in 1..Len(t) /\ i + 1 + (Len(s) - Len(t)) = i + (Len(s) + 1 - n)
              /\ i + (Len(s) + 1 - n) \in 1..Len(s)
          BY <1>3, <2>1, <3>2
        <4>2. Append(t, e)[i + 1] = t[i + 1]
          BY <1>1, <4>1
        <4>3. Append(s, e)[i + (Len(s) + 1 - n)] = s[i + (Len(s) + 1 - n)]
          BY <4>1
        <4>4. t[i + 1] = s[i + 1 + (Len(s) - Len(t))]
          BY <1>1, <4>1
        <4>5. l[i] = Append(t, e)[i + 1] /\ r[i] = Append(s, e)[i + (Len(s) + 1 - n)]
          BY <2>3, <2>4
        <4> QED  BY <4>1, <4>2, <4>3, <4>4, <4>5
      <3> QED  BY <3>1, <3>2
    <2>6. l = r
      BY <2>3, <2>4, <2>5, SeqEqual
    <2> QED  BY <2>6 DEF l, r, t
  <1> QED  BY <1>2, <1>3

------------------------------------------------------------------------------
(* What the governor remembers, of what kind.                              *)
Nonces == {NonceKey(p) : p \in Proposal}
Topics == {p.topic : p \in Proposal}
Evaluation == [agent : Agent, topic : Topics, confidence : 0..100, decision : Decision,
               nested : BOOLEAN, judged : Nat, heard : Nat]
Execution == [thread : Conn, proposal : Proposal, judged : Nat, heard : Nat]

Remembered ==
    /\ stepCount \in Nat
    /\ live \in [Agent -> Nat]
    /\ restricted \in [Agent -> SUBSET Int]
    /\ stack \in Seq(Execution)
    /\ history \in Seq(Evaluation)
    /\ claimed \in Seq(Nonces)
    /\ published \in [Agent -> [units : Nat, since : Nat]]

LEMMA ClaimCounts ==
    ASSUME Remembered, NEW p \in Proposal, Claim(p)
    PROVE  /\ stepCount' = stepCount + 1 /\ stepCount' \in Nat
           /\ claimed' \in Seq(Nonces)
  <1>1. NonceKey(p) \in Nonces
    BY DEF Nonces
  <1>2. claimed' = claimed \/ claimed' = Append(claimed, NonceKey(p))
    BY DEF Claim
  <1>3. claimed \in Seq(Nonces) /\ stepCount \in Nat
    BY DEF Remembered
  <1>4. claimed' \in Seq(Nonces)
    BY <1>1, <1>2, <1>3
  <1>5. stepCount' = stepCount + 1
    BY DEF Claim
  <1> QED  BY <1>3, <1>4, <1>5

LEMMA PruneKeeps ==
    ASSUME Remembered, NEW a \in Agent, NEW n
    PROVE  /\ Prune(a, n) \in [Agent -> SUBSET Int]
           /\ Prune(a, n)[a] = StillRestricted(a, n)
           /\ \A b \in Agent \ {a} : Prune(a, n)[b] = restricted[b]
  BY DEF Remembered, Prune, StillRestricted

(* What Record writes into the history.                                    *)
Noted(t, p, decision, outer, judged, heard) ==
    [agent |-> p.agent, topic |-> p.topic, confidence |-> p.confidence,
     decision |-> decision, nested |-> \E i \in DOMAIN outer : outer[i].thread = t,
     judged |-> judged, heard |-> heard]

LEMMA NotedIs ==
    ASSUME NEW t, NEW p \in Proposal, NEW d \in Decision, NEW outer,
           NEW judged \in Nat, NEW heard \in Nat
    PROVE  Noted(t, p, d, outer, judged, heard) \in Evaluation
  <1>1. p.agent \in Agent /\ p.topic \in Topics /\ p.confidence \in 0..100
    BY ProposalAssumption DEF Topics
  <1>2. (\E i \in DOMAIN outer : outer[i].thread = t) \in BOOLEAN
    OBVIOUS
  <1> QED  BY <1>1, <1>2 DEF Noted, Evaluation

LEMMA RecordAppends ==
    ASSUME NEW t, NEW p \in Proposal, NEW d \in Decision, NEW outer, Remembered,
           NEW judged \in Nat, NEW heard \in Nat, Record(t, p, d, outer, judged, heard)
    PROVE  /\ history' = Append(history, Noted(t, p, d, outer, judged, heard))
           /\ Noted(t, p, d, outer, judged, heard) \in Evaluation
           /\ history' \in Seq(Evaluation)
  <1>1. history' = Append(history, Noted(t, p, d, outer, judged, heard))
    BY DEF Record, Noted
  <1>2. Noted(t, p, d, outer, judged, heard) \in Evaluation
    BY NotedIs
  <1> QED  BY <1>1, <1>2 DEF Remembered

LEMMA DeniedRemembers ==
    ASSUME Remembered, NEW t \in Conn, NEW p \in Proposal, Denied(t, p)
    PROVE  Remembered'
  <1>1. p.agent \in Agent
    BY ProposalAssumption
  <1>2. stepCount' \in Nat /\ claimed' \in Seq(Nonces)
    BY ClaimCounts DEF Denied
  <1>3. restricted' = restricted \/ restricted' = Prune(p.agent, stepCount')
    BY DEF Denied
  <1>4. restricted' \in [Agent -> SUBSET Int]
    BY <1>1, <1>3, PruneKeeps DEF Remembered
  <1>5. UNCHANGED <<live, stack, history, published>>
    BY DEF Denied
  <1> QED  BY <1>2, <1>4, <1>5 DEF Remembered

LEMMA RefusedRemembers ==
    ASSUME Remembered, NEW t \in Conn, NEW p \in Proposal, NEW d \in Decision,
           Refused(t, p, d)
    PROVE  Remembered'
  <1>1. p.agent \in Agent
    BY ProposalAssumption
  <1>2. stepCount' \in Nat /\ claimed' \in Seq(Nonces)
    BY ClaimCounts DEF Refused, Heard
  <1> DEFINE kept == Prune(p.agent, stepCount')
  <1>3. \/ restricted' = [kept EXCEPT ![p.agent] = @ \cup {stepCount' + RestrictTtlSteps}]
        \/ restricted' = kept
    BY DEF Refused
  <1>4. kept \in [Agent -> SUBSET Int]
    BY <1>1, PruneKeeps
  <1> HIDE DEF kept
  <1>5. stepCount' + RestrictTtlSteps \in Int
    BY <1>2, CapAssumption
  <1>6. restricted' \in [Agent -> SUBSET Int]
    BY <1>1, <1>3, <1>4, <1>5
  <1>7. Len(history) \in Nat
    BY DEF Remembered
  <1>8. Record(t, p, d, stack, Len(history), stepCount')
    BY DEF Refused
  <1>9. history' \in Seq(Evaluation)
    BY <1>2, <1>7, <1>8, RecordAppends
  <1>10. UNCHANGED <<live, stack, published>>
    BY DEF Refused
  <1> QED  BY <1>2, <1>6, <1>9, <1>10 DEF Remembered

LEMMA ExecutingRemembers ==
    ASSUME Remembered, NEW t \in Conn, NEW p \in Proposal, Executing(t, p)
    PROVE  Remembered'
  <1>1. p.agent \in Agent
    BY ProposalAssumption
  <1>2. stepCount' \in Nat /\ claimed' \in Seq(Nonces)
    BY ClaimCounts DEF Executing, Heard
  <1>3. restricted' \in [Agent -> SUBSET Int]
    BY <1>1, PruneKeeps DEF Executing
  <1>4. stack' = Append(stack, [thread |-> t, proposal |-> p,
                                judged |-> Len(history), heard |-> stepCount'])
    BY DEF Executing
  <1>5. stack' \in Seq(Execution)
    BY <1>2, <1>4 DEF Remembered, Execution
  <1>6. UNCHANGED <<live, history, published>>
    BY DEF Executing
  <1> QED  BY <1>2, <1>3, <1>5, <1>6 DEF Remembered

(* The innermost execution, and those around it.                           *)
LEMMA Innermost ==
    ASSUME Remembered, stack # <<>>
    PROVE  /\ Last(stack) \in Execution /\ Last(stack) = stack[Len(stack)]
           /\ Len(stack) \in Nat \ {0}
           /\ Front(stack) \in Seq(Execution) /\ Len(Front(stack)) = Len(stack) - 1
           /\ \A i \in 1..(Len(stack) - 1) : Front(stack)[i] = stack[i]
  <1>1. stack \in Seq(Execution)
    BY DEF Remembered
  <1>2. Len(stack) \in Nat \ {0} /\ stack[Len(stack)] \in Execution
    BY <1>1
  <1>3. /\ SubSeq(stack, 1, Len(stack) - 1) \in Seq(Execution)
        /\ Len(SubSeq(stack, 1, Len(stack) - 1)) = Len(stack) - 1
        /\ \A i \in 1..(Len(stack) - 1) : SubSeq(stack, 1, Len(stack) - 1)[i] = stack[i]
    <2> DEFINE m == Len(stack) - 1
    <2>1. m \in Nat /\ \A i \in 1..m : stack[i] \in Execution
      BY <1>1, <1>2
    <2> HIDE DEF m
    <2>2. /\ SubSeq(stack, 1, m) \in Seq(Execution)
          /\ Len(SubSeq(stack, 1, m)) = IF 1 <= m THEN m - 1 + 1 ELSE 0
          /\ \A i \in 1..(m - 1 + 1) : SubSeq(stack, 1, m)[i] = stack[1 + i - 1]
      BY <2>1, SubSeqProperties
    <2>3. /\ Len(SubSeq(stack, 1, m)) = m
          /\ \A i \in 1..m : SubSeq(stack, 1, m)[i] = stack[i]
      BY <2>1, <2>2
    <2> QED  BY <2>2, <2>3 DEF m
  <1> QED  BY <1>2, <1>3 DEF Last, Front

LEMMA ExecutedRecords ==
    ASSUME Remembered, NEW t \in Conn, NEW d \in Decision, Executed(t, d)
    PROVE  LET e == Last(stack)
               now == Noted(t, e.proposal, d, Front(stack), e.judged, e.heard)
           IN  /\ stack # <<>> /\ e \in Execution
               /\ e.proposal \in Proposal /\ e.judged \in Nat /\ e.heard \in Nat
               /\ e.proposal.agent \in Agent /\ e.thread = t
               /\ d \in {"CONTINUE", "HUMAN"}
               /\ history' = Append(history, now) /\ now \in Evaluation
               /\ history' \in Seq(Evaluation) /\ stack' = Front(stack)
               /\ live' = IF d = "CONTINUE" /\ published[e.proposal.agent].since < e.heard
                          THEN [live EXCEPT ![e.proposal.agent] = Taken(@)] ELSE live
               /\ UNCHANGED <<stepCount, restricted, claimed, published, seenNonces, seenIds>>
  <1> DEFINE e == Last(stack)
  <1>1. stack # <<>> /\ e.thread = t /\ d \in {"CONTINUE", "HUMAN"}
    BY DEF Executed
  <1>2. e \in Execution
    BY <1>1, Innermost
  <1>3. e.proposal \in Proposal /\ e.judged \in Nat /\ e.heard \in Nat
    BY <1>2 DEF Execution
  <1>4. e.proposal.agent \in Agent
    BY <1>3, ProposalAssumption
  <1>5. /\ Record(t, e.proposal, d, Front(stack), e.judged, e.heard)
        /\ stack' = Front(stack)
        /\ live' = IF d = "CONTINUE" /\ published[e.proposal.agent].since < e.heard
                   THEN [live EXCEPT ![e.proposal.agent] = Taken(@)] ELSE live
        /\ UNCHANGED <<stepCount, restricted, claimed, published, seenNonces, seenIds>>
    BY DEF Executed
  <1> HIDE DEF e
  <1>6. /\ history' = Append(history, Noted(t, e.proposal, d, Front(stack), e.judged, e.heard))
        /\ Noted(t, e.proposal, d, Front(stack), e.judged, e.heard) \in Evaluation
        /\ history' \in Seq(Evaluation)
    BY <1>3, <1>5, RecordAppends
  <1> QED  BY <1>1, <1>2, <1>3, <1>4, <1>5, <1>6 DEF e

LEMMA ExecutedRemembers ==
    ASSUME Remembered, NEW t \in Conn, NEW d \in Decision, Executed(t, d)
    PROVE  Remembered'
  <1> DEFINE a == Last(stack).proposal.agent
  <1>1. /\ a \in Agent /\ stack # <<>> /\ stack' = Front(stack)
        /\ history' \in Seq(Evaluation)
        /\ live' = live \/ live' = [live EXCEPT ![a] = Taken(@)]
        /\ UNCHANGED <<stepCount, restricted, claimed, published>>
    BY ExecutedRecords
  <1> HIDE DEF a
  <1>2. live' \in [Agent -> Nat]
    <2>1. live \in [Agent -> Nat] /\ a \in Agent
      BY <1>1 DEF Remembered
    <2>2. live' = live \/ live' = [live EXCEPT ![a] = Taken(@)]
      BY <1>1
    <2> QED  BY <2>1, <2>2 DEF Taken
  <1>3. stack # <<>> => Front(stack) \in Seq(Execution)
    BY Innermost
  <1>4. stack' \in Seq(Execution)
    BY <1>1, <1>3, Zenon
  <1> QED  BY <1>1, <1>2, <1>4 DEF Remembered

(* A delegation puts new units in place of the old and starts the count    *)
(* of what is run afresh.                                                  *)
Grant(to, units) ==
    /\ live' = [live EXCEPT ![to] = units]
    /\ published' = [published EXCEPT ![to] = [units |-> units, since |-> stepCount]]

LEMMA DelegationIs ==
    ASSUME Remembered,
           \/ \E t \in Conn, from, to \in Agent, units \in Nat : Delegate(t, from, to, units)
           \/ \E t \in Conn, to \in Agent : RevokeDelegation(t, to)
    PROVE  /\ UNCHANGED <<stepCount, stack, history, claimed, intent,
                        seenNonces, seenIds>>
           /\ \/ restricted' = restricted
              \/ \E from \in Agent : restricted' = Prune(from, stepCount)
           /\ \E to \in Agent : \E n \in Nat : n <= Ceiling[to] /\ Grant(to, n)
  <1>1. ASSUME NEW t \in Conn, NEW from \in Agent, NEW to \in Agent, NEW units \in Nat,
               Delegate(t, from, to, units)
        PROVE  \E n \in Nat : n <= Ceiling[to] /\ Grant(to, n)
    <2> DEFINE n == IF units < Ceiling[to] THEN units ELSE Ceiling[to]
    <2>1. n \in Nat /\ n <= Ceiling[to]
      BY CeilingAssumption
    <2>2. Grant(to, n)
      BY <1>1 DEF Delegate, Publish, Grant
    <2> HIDE DEF n
    <2> QED  BY <2>1, <2>2
  <1>2. ASSUME NEW t \in Conn, NEW to \in Agent, RevokeDelegation(t, to)
        PROVE  \E n \in Nat : n <= Ceiling[to] /\ Grant(to, n)
    <2>1. Grant(to, Ceiling[to])
      BY <1>2 DEF RevokeDelegation, Publish, Grant
    <2>2. Ceiling[to] \in Nat
      BY CeilingAssumption
    <2> QED  BY <2>1, <2>2
  <1> QED  BY <1>1, <1>2 DEF Delegate, RevokeDelegation, Publish

LEMMA DelegationRemembers ==
    ASSUME Remembered,
           \/ \E t \in Conn, from, to \in Agent, units \in Nat :
                  Delegate(t, from, to, units) \/ DelegationRefused(t, from, units)
           \/ \E t \in Conn, to \in Agent : RevokeDelegation(t, to)
    PROVE  Remembered'
  <1>1. CASE \/ \E t \in Conn, from, to \in Agent, units \in Nat : Delegate(t, from, to, units)
             \/ \E t \in Conn, to \in Agent : RevokeDelegation(t, to)
    <2>1. /\ UNCHANGED <<stepCount, stack, history, claimed>>
          /\ \/ restricted' = restricted
             \/ \E from \in Agent : restricted' = Prune(from, stepCount)
      BY <1>1, DelegationIs
    <2>2. PICK to \in Agent, n \in Nat : Grant(to, n)
      BY <1>1, DelegationIs
    <2>3. live' \in [Agent -> Nat] /\ published' \in [Agent -> [units : Nat, since : Nat]]
      BY <2>2 DEF Grant, Remembered
    <2>4. restricted' \in [Agent -> SUBSET Int]
      BY <2>1, PruneKeeps DEF Remembered
    <2> QED  BY <2>1, <2>3, <2>4 DEF Remembered
  <1>2. CASE \E t \in Conn, from \in Agent, units \in Nat : DelegationRefused(t, from, units)
    BY <1>2, PruneKeeps, SMTT(30) DEF DelegationRefused, Remembered
  <1> QED  BY <1>1, <1>2

LEMMA OperatesRemembers == Remembered /\ Operates => Remembered'
  <1>1. CASE UNCHANGED memoryVars
    BY <1>1 DEF memoryVars, Remembered
  <1> QED
    BY <1>1, DeniedRemembers, RefusedRemembers, ExecutingRemembers, ExecutedRemembers,
       DelegationRemembers DEF Operates

LEMMA InitRemembers == Init => Remembered
  BY CeilingAssumption DEF Init, GovInit, Remembered

------------------------------------------------------------------------------
(* The cache of nonces is the last max_seen_nonces claims, in their order. *)
Apart(s, n) == \A i, j \in DOMAIN s : i < j /\ s[i] = s[j] => j - i > n
Cached ==
    /\ seenNonces = LastN(claimed, MaxSeenNonces)
    /\ Apart(claimed, MaxSeenNonces)

LEMMA FreshIsApart ==
    ASSUME NEW S, NEW s \in Seq(S), NEW e \in S, NEW n \in Nat, Apart(s, n),
           e \notin ToSet(LastN(s, n))
    PROVE  Apart(Append(s, e), n)
  <1> DEFINE t == Append(s, e)
  <1>1. /\ Len(s) \in Nat /\ DOMAIN s = 1..Len(s) /\ DOMAIN t = 1..(Len(s) + 1)
        /\ \A i \in 1..Len(s) : t[i] = s[i]
        /\ t[Len(s) + 1] = e
    OBVIOUS
  <1>2. \A k \in DOMAIN LastN(s, n) : LastN(s, n)[k] # e
    BY DEF ToSet
  <1> HIDE DEF t
  <1> SUFFICES ASSUME NEW i \in DOMAIN t, NEW j \in DOMAIN t, i < j, t[i] = t[j]
               PROVE  j - i > n
    BY DEF Apart, t
  <1>3. i \in 1..Len(s) /\ t[i] = s[i]
    BY <1>1
  <1>4. CASE j \in 1..Len(s)
    BY <1>1, <1>3, <1>4 DEF Apart
  <1>5. CASE j = Len(s) + 1
    <2>1. s[i] = e
      BY <1>1, <1>3, <1>5
    <2>2. ~ (Len(s) - i < n)
      BY <1>2, <1>3, <2>1, Among
    <2> QED  BY <1>1, <1>3, <1>5, <2>2
  <1> QED  BY <1>1, <1>4, <1>5

LEMMA ClaimCaches ==
    ASSUME Remembered, Cached, NEW p \in Proposal, ~ Unheard(p), Claim(p)
    PROVE  Cached'
  <1>1. CASE p.nonce = NoNonce
    BY <1>1 DEF Claim, Cached
  <1>2. CASE p.nonce # NoNonce
    <2> DEFINE e == NonceKey(p)
    <2>1. /\ claimed \in Seq(Nonces) /\ e \in Nonces /\ MaxSeenNonces \in Nat
      BY CapAssumption DEF Remembered, Nonces
    <2>2. /\ seenNonces' = LastN(Append(seenNonces, e), MaxSeenNonces)
          /\ claimed' = Append(claimed, e)
      BY <1>2 DEF Claim, Remember
    <2>3. e \notin ToSet(LastN(claimed, MaxSeenNonces))
      BY <1>2 DEF Unheard, Cached
    <2>4. Apart(claimed, MaxSeenNonces) /\ seenNonces = LastN(claimed, MaxSeenNonces)
      BY DEF Cached
    <2> HIDE DEF e
    <2>5. Apart(claimed', MaxSeenNonces)
      BY <2>1, <2>2, <2>3, <2>4, FreshIsApart
    <2>6. seenNonces' = LastN(claimed', MaxSeenNonces)
      BY <2>1, <2>2, <2>4, LastNAppends
    <2> QED  BY <2>5, <2>6 DEF Cached
  <1> QED  BY <1>1, <1>2

LEMMA OperatesCaches ==
    ASSUME Remembered, Cached, Operates
    PROVE  Cached'
  <1>1. CASE UNCHANGED <<seenNonces, claimed>>
    BY <1>1 DEF Cached
  <1>2. ASSUME NEW t \in Conn, NEW p \in Proposal, NEW d \in Decision,
               Denied(t, p) \/ Executing(t, p) \/ Refused(t, p, d)
        PROVE  Cached'
    <2>1. ~ Unheard(p) /\ Claim(p)
      BY <1>2 DEF Denied, Executing, Refused, Heard
    <2> QED  BY <2>1, ClaimCaches
  <1>3. ASSUME NEW t \in Conn, NEW p \in Proposal, Denied(t, p) \/ Executing(t, p)
        PROVE  Cached'
    BY <1>2, <1>3 DEF Decision
  <1>4. ASSUME NEW t \in Conn, NEW d \in Decision, Executed(t, d)
        PROVE  Cached'
    <2>1. UNCHANGED <<seenNonces, claimed>>
      BY <1>4 DEF Executed
    <2> QED  BY <1>1, <2>1
  <1>5. CASE \/ \E t \in Conn, from, to \in Agent, units \in Nat :
                    Delegate(t, from, to, units) \/ DelegationRefused(t, from, units)
             \/ \E t \in Conn, a \in Agent : RevokeDelegation(t, a)
    BY <1>1, <1>5 DEF Delegate, DelegationRefused, RevokeDelegation, Publish
  <1>6. UNCHANGED memoryVars => UNCHANGED <<seenNonces, claimed>>
    BY DEF memoryVars
  <1> QED  BY <1>1, <1>2, <1>3, <1>4, <1>5, <1>6 DEF Operates

(* What the governor remembers is of its kind in every state of the service,*)
(* and the cache of nonces forgets in the order of the claims.             *)
THEOREM MemoryInvariant == Spec => [](Remembered /\ Cached)
  <1>1. Init => Remembered /\ Cached
    <2> SUFFICES ASSUME Init  PROVE Cached
      BY InitRemembers
    <2>1. seenNonces = <<>> /\ claimed = <<>>
      BY DEF Init, GovInit
    <2>2. <<>> \in Seq(Nonces) /\ Len(<<>>) <= MaxSeenNonces
      BY CapAssumption
    <2>3. LastN(<<>>, MaxSeenNonces) = <<>>
      BY <2>2, CapAssumption, LastNIs
    <2> QED  BY <2>1, <2>3 DEF Cached, Apart
  <1>2. Inv /\ Remembered /\ Cached /\ [Next]_vars => Remembered' /\ Cached'
    BY ServiceOperates, OperatesRemembers, OperatesCaches DEF Inv
  <1> QED  BY <1>1, <1>2, ServiceInvariant, PTL DEF Spec

(* A nonce is accepted a second time only when max_seen_nonces others were *)
(* claimed in between: the cache forgets in the order of the claims and is *)
(* asked before each, under the lock, for any load and any interleaving    *)
(* (_claim_replay_identifiers, _remember).                                 *)
THEOREM ReplaysNeedEviction == Spec => []ReplayNeedsEviction
  <1>1. Cached => ReplayNeedsEviction
    BY DEF Cached, Apart, ReplayNeedsEviction
  <1> QED  BY <1>1, MemoryInvariant, PTL

------------------------------------------------------------------------------
(* What an agent was refused is on record in three places: the history,    *)
(* the restrictions and the intent graph.                                  *)
Restricts(x) == x.decision = "RESTRICT"
Refuses(x) == Refusal(x.decision)
Runs(x) == x.decision = "CONTINUE"
Expiry(x) == x.heard + RestrictTtlSteps

(* Of what was decided up to an evaluation's judgement, each restriction   *)
(* is over when it is heard, and each refusal of the like was forgotten;   *)
Lapsed(h, a, judged, heard) ==
    \A i \in DOMAIN h :
        i <= judged /\ h[i].agent = a /\ Restricts(h[i]) => Expiry(h[i]) <= heard
Like(q, topic) == Weight(q, topic) >= 100 * ReentryMedium
Unlike(h, a, q, judged) ==
    \A i \in DOMAIN h :
        i <= judged /\ h[i].agent = a /\ Refuses(h[i]) /\ Like(q, h[i].topic)
        => judged - i >= IntentGraphMax
Clean(h, a, q, judged, heard) ==
    judged <= Len(h) /\ Lapsed(h, a, judged, heard) /\ Unlike(h, a, q, judged)

(* so it is of all that run or have run, while a restriction whose step    *)
(* has not come is listed, and the graph is the end of the history.        *)
CleanRun(h, j) ==
    /\ h[j].judged < j
    /\ Runs(h[j]) => Clean(h, h[j].agent, h[j], h[j].judged, h[j].heard)
CleanRuns(h) == \A j \in DOMAIN h : CleanRun(h, j)
CleanStack(h, s) ==
    \A k \in DOMAIN s :
        Clean(h, s[k].proposal.agent, s[k].proposal, s[k].judged, s[k].heard)
InForce(h, r, n) ==
    \A i \in DOMAIN h :
        Restricts(h[i]) => Expiry(h[i]) \in r[h[i].agent] \/ Expiry(h[i]) <= n
EntryOf(x) == [agent |-> x.agent, topic |-> x.topic, refused |-> Refuses(x)]
Entries(h) == [i \in DOMAIN h |-> EntryOf(h[i])]
Graph(g, h) == g = LastN(Entries(h), IntentGraphMax)

Caution ==
    /\ CleanRuns(history) /\ CleanStack(history, stack)
    /\ InForce(history, restricted, stepCount)
    /\ Graph(intent, history)

LEMMA HasFields ==
    ASSUME NEW x \in Evaluation
    PROVE  /\ x.agent \in Agent /\ x.judged \in Nat /\ x.heard \in Nat
           /\ x.topic \in Topics /\ x.decision \in Decision
           /\ Expiry(x) \in Nat
  <1>1. /\ x.agent \in Agent /\ x.judged \in Nat /\ x.heard \in Nat
        /\ x.topic \in Topics /\ x.decision \in Decision
    BY DEF Evaluation
  <1>2. x.heard + RestrictTtlSteps \in Nat
    BY <1>1, CapAssumption
  <1> QED  BY <1>1, <1>2 DEF Expiry

LEMMA FrameFields ==
    ASSUME NEW x \in Execution
    PROVE  /\ x.thread \in Conn /\ x.proposal \in Proposal /\ x.judged \in Nat
           /\ x.heard \in Nat /\ x.proposal.agent \in Agent
           /\ x.proposal.topic \in Topics
  BY ProposalAssumption DEF Execution, Topics

(* A decision that follows changes nothing for those before it.            *)
LEMMA AppendIs ==
    ASSUME NEW S, NEW h \in Seq(S), NEW x \in S
    PROVE  /\ DOMAIN h = 1..Len(h) /\ Len(h) \in Nat
           /\ DOMAIN Append(h, x) = 1..(Len(h) + 1) /\ Len(Append(h, x)) = Len(h) + 1
           /\ Append(h, x)[Len(h) + 1] = x
           /\ \A i \in 1..Len(h) : Append(h, x)[i] = h[i]
  OBVIOUS

LEMMA StaysClean ==
    ASSUME NEW h \in Seq(Evaluation), NEW x \in Evaluation, NEW a, NEW q,
           NEW judged \in Nat, NEW heard \in Nat, Clean(h, a, q, judged, heard)
    PROVE  Clean(Append(h, x), a, q, judged, heard)
  <1> DEFINE t == Append(h, x)
  <1>1. judged <= Len(h) /\ Lapsed(h, a, judged, heard) /\ Unlike(h, a, q, judged)
    BY DEF Clean
  <1>2. /\ Len(h) \in Nat /\ DOMAIN h = 1..Len(h) /\ DOMAIN t = 1..(Len(h) + 1)
        /\ Len(t) = Len(h) + 1 /\ \A i \in 1..Len(h) : t[i] = h[i]
    BY AppendIs
  <1> HIDE DEF t
  <1>3. \A i \in DOMAIN t : i <= judged => i \in DOMAIN h /\ t[i] = h[i]
    BY <1>1, <1>2
  <1>4. judged <= Len(t)
    BY <1>1, <1>2
  <1>5. Lapsed(t, a, judged, heard)
    BY <1>1, <1>3 DEF Lapsed
  <1>6. Unlike(t, a, q, judged)
    BY <1>1, <1>3 DEF Unlike
  <1> QED  BY <1>4, <1>5, <1>6 DEF Clean, t

LEMMA StackStaysClean ==
    ASSUME NEW h \in Seq(Evaluation), NEW x \in Evaluation, NEW s \in Seq(Execution),
           CleanStack(h, s)
    PROVE  CleanStack(Append(h, x), s)
  <1> SUFFICES ASSUME NEW k \in DOMAIN s
               PROVE  Clean(Append(h, x), s[k].proposal.agent, s[k].proposal,
                            s[k].judged, s[k].heard)
    BY DEF CleanStack
  <1>1. s[k] \in Execution
    OBVIOUS
  <1>2. s[k].judged \in Nat /\ s[k].heard \in Nat
    BY <1>1, FrameFields
  <1>3. Clean(h, s[k].proposal.agent, s[k].proposal, s[k].judged, s[k].heard)
    BY DEF CleanStack
  <1> QED  BY <1>2, <1>3, StaysClean

LEMMA RunsStayClean ==
    ASSUME NEW h \in Seq(Evaluation), NEW x \in Evaluation, CleanRuns(h),
           x.judged <= Len(h),
           Runs(x) => Clean(h, x.agent, x, x.judged, x.heard)
    PROVE  CleanRuns(Append(h, x))
  <1> DEFINE t == Append(h, x)
  <1>1. /\ Len(h) \in Nat /\ DOMAIN h = 1..Len(h) /\ DOMAIN t = 1..(Len(h) + 1)
        /\ t[Len(h) + 1] = x /\ \A i \in 1..Len(h) : t[i] = h[i]
    BY AppendIs
  <1>2. \A a, q : \A judged, heard \in Nat :
            Clean(h, a, q, judged, heard) => Clean(t, a, q, judged, heard)
    BY StaysClean
  <1> HIDE DEF t
  <1>3. ASSUME NEW j \in 1..Len(h)  PROVE CleanRun(t, j)
    <2>1. h[j] \in Evaluation /\ t[j] = h[j]
      BY <1>1
    <2>2. h[j].judged \in Nat /\ h[j].heard \in Nat
      BY <2>1, HasFields
    <2>3. CleanRun(h, j)
      BY <1>1 DEF CleanRuns
    <2> QED  BY <1>2, <2>1, <2>2, <2>3 DEF CleanRun
  <1>4. CleanRun(t, Len(h) + 1)
    <2>1. x.judged \in Nat /\ x.heard \in Nat
      BY HasFields
    <2>2. x.judged < Len(h) + 1
      BY <1>1, <2>1
    <2> QED  BY <1>1, <1>2, <2>1, <2>2 DEF CleanRun
  <1>5. \A j \in DOMAIN t : j \in 1..Len(h) \/ j = Len(h) + 1
    BY <1>1
  <1> QED  BY <1>3, <1>4, <1>5 DEF CleanRuns, t

LEMMA GraphFollows ==
    ASSUME NEW h \in Seq(Evaluation), NEW x \in Evaluation, NEW g, Graph(g, h)
    PROVE  Graph(LastN(Append(g, EntryOf(x)), IntentGraphMax), Append(h, x))
  <1> DEFINE E == {EntryOf(y) : y \in Evaluation}
             t == Append(h, x)
  <1>1. /\ Len(h) \in Nat /\ DOMAIN h = 1..Len(h) /\ DOMAIN t = 1..(Len(h) + 1)
        /\ t[Len(h) + 1] = x /\ \A i \in 1..Len(h) : t[i] = h[i]
        /\ \A i \in 1..Len(h) : h[i] \in Evaluation
    BY AppendIs
  <1> HIDE DEF t
  <1> DEFINE u == Entries(h)
             v == Entries(t)
  <1>2. u = [i \in 1..Len(h) |-> EntryOf(h[i])] /\ v = [i \in 1..(Len(h) + 1) |-> EntryOf(t[i])]
    BY <1>1 DEF Entries
  <1>3. EntryOf(x) \in E /\ \A i \in 1..Len(h) : EntryOf(h[i]) \in E
    BY <1>1
  <1> HIDE DEF E, u, v
  <1>4. u \in Seq(E) /\ Len(u) = Len(h) /\ \A i \in 1..Len(h) : u[i] = EntryOf(h[i])
    BY <1>1, <1>2, <1>3
  <1>5. Append(u, EntryOf(x)) = v
    <2> DEFINE w == Append(u, EntryOf(x))
    <2>1. /\ w \in Seq(E) /\ Len(w) = Len(h) + 1
          /\ w[Len(h) + 1] = EntryOf(x) /\ \A i \in 1..Len(h) : w[i] = u[i]
      BY <1>3, <1>4, AppendIs
    <2> HIDE DEF w
    <2>2. w = [i \in 1..(Len(h) + 1) |-> w[i]]
      BY <2>1
    <2>3. \A i \in 1..(Len(h) + 1) : w[i] = EntryOf(t[i])
      BY <1>1, <1>4, <2>1
    <2>4. w = v
      BY <1>2, <2>2, <2>3
    <2> QED  BY <2>4 DEF w
  <1>6. g = LastN(u, IntentGraphMax)
    BY DEF Graph, u
  <1>7. LastN(Append(g, EntryOf(x)), IntentGraphMax) = LastN(v, IntentGraphMax)
    <2> DEFINE e == EntryOf(x)
    <2>1. e \in E /\ u \in Seq(E) /\ IntentGraphMax \in Nat
      BY <1>3, <1>4, CapAssumption
    <2>2. Append(u, e) = v
      BY <1>5
    <2> HIDE DEF e
    <2>3. LastN(Append(LastN(u, IntentGraphMax), e), IntentGraphMax)
              = LastN(Append(u, e), IntentGraphMax)
      BY <2>1, LastNAppends
    <2>4. LastN(Append(g, e), IntentGraphMax) = LastN(v, IntentGraphMax)
      BY <1>6, <2>2, <2>3
    <2> QED  BY <2>4 DEF e
  <1> QED  BY <1>7 DEF Graph, v, t

(* What is in the reach of the graph is on it.                             *)
LEMMA GraphReaches ==
    ASSUME NEW h \in Seq(Evaluation), NEW g, Graph(g, h), NEW i \in DOMAIN h,
           Len(h) - i < IntentGraphMax
    PROVE  \E k \in DOMAIN g : g[k] = EntryOf(h[i])
  <1> DEFINE E == {EntryOf(y) : y \in Evaluation}
             u == Entries(h)
  <1>1. /\ Len(h) \in Nat /\ DOMAIN h = 1..Len(h)
        /\ \A j \in 1..Len(h) : EntryOf(h[j]) \in E
    OBVIOUS
  <1>2. u = [j \in 1..Len(h) |-> EntryOf(h[j])]
    BY <1>1 DEF Entries
  <1> HIDE DEF E, u
  <1>3. u \in Seq(E) /\ Len(u) = Len(h) /\ u[i] = EntryOf(h[i]) /\ i \in 1..Len(u)
    BY <1>1, <1>2
  <1>4. g = LastN(u, IntentGraphMax)
    BY DEF Graph, u
  <1> QED  BY <1>3, <1>4, Among, CapAssumption

------------------------------------------------------------------------------
LEMMA StaysInForce ==
    ASSUME Remembered, InForce(history, restricted, stepCount),
           NEW a \in Agent, NEW n \in Nat, stepCount <= n
    PROVE  InForce(history, Prune(a, n), n) /\ InForce(history, restricted, n)
  <1> SUFFICES ASSUME NEW i \in DOMAIN history, Restricts(history[i])
               PROVE  /\ Expiry(history[i]) \in Prune(a, n)[history[i].agent]
                             \/ Expiry(history[i]) <= n
                      /\ Expiry(history[i]) \in restricted[history[i].agent]
                             \/ Expiry(history[i]) <= n
    BY DEF InForce
  <1> DEFINE b == history[i].agent
             e == Expiry(history[i])
  <1>1. stepCount \in Nat /\ e \in Nat /\ b \in Agent
    <2>1. history[i] \in Evaluation /\ stepCount \in Nat
      BY DEF Remembered
    <2> QED  BY <2>1, HasFields
  <1>2. e \in restricted[b] \/ e <= stepCount
    BY DEF InForce
  <1> HIDE DEF b, e
  <1>3. e \in restricted[b] \/ e <= n
    BY <1>1, <1>2
  <1>4. e \in restricted[b] => e \in Prune(a, n)[b] \/ e <= n
    <2>1. Prune(a, n)[b] = restricted[b] \/ Prune(a, n)[b] = StillRestricted(b, n)
      BY <1>1, PruneKeeps
    <2>2. e \in restricted[b] /\ e > n => e \in StillRestricted(b, n)
      BY DEF StillRestricted
    <2>3. e > n \/ e <= n
      BY <1>1
    <2> QED  BY <2>1, <2>2, <2>3
  <1> QED  BY <1>3, <1>4 DEF b, e

(* A new decision enters the history: what is in force then is what was,   *)
(* and the restriction the decision may be.                                *)
LEMMA NewInForce ==
    ASSUME NEW h \in Seq(Evaluation), NEW x \in Evaluation, NEW r, NEW n,
           InForce(h, r, n), Restricts(x) => Expiry(x) \in r[x.agent]
    PROVE  InForce(Append(h, x), r, n)
  <1> DEFINE t == Append(h, x)
  <1>1. /\ Len(h) \in Nat /\ DOMAIN h = 1..Len(h) /\ DOMAIN t = 1..(Len(h) + 1)
        /\ t[Len(h) + 1] = x /\ \A i \in 1..Len(h) : t[i] = h[i]
    BY AppendIs
  <1> HIDE DEF t
  <1>2. \A i \in DOMAIN t : (i \in DOMAIN h /\ t[i] = h[i]) \/ t[i] = x
    BY <1>1
  <1>3. InForce(t, r, n)
    BY <1>2 DEF InForce
  <1> QED  BY <1>3 DEF t

LEMMA DeniedIsCautious ==
    ASSUME Remembered, Caution, NEW t \in Conn, NEW p \in Proposal, Denied(t, p)
    PROVE  Caution'
  <1>1. p.agent \in Agent
    BY ProposalAssumption
  <1>2. UNCHANGED <<history, stack, intent>>
    BY DEF Denied
  <1>3. restricted' = restricted \/ restricted' = Prune(p.agent, stepCount')
    BY DEF Denied
  <1>4. stepCount' \in Nat /\ stepCount <= stepCount'
    <2>1. stepCount' = stepCount + 1 /\ stepCount \in Nat
      BY ClaimCounts DEF Denied, Remembered
    <2> QED  BY <2>1
  <1>5. InForce(history, restricted', stepCount')
    BY <1>1, <1>3, <1>4, StaysInForce DEF Caution
  <1> QED  BY <1>2, <1>5 DEF Caution

LEMMA RefusedIsCautious ==
    ASSUME Remembered, Caution, NEW t \in Conn, NEW p \in Proposal, NEW d \in Decision,
           Refused(t, p, d)
    PROVE  Caution'
  <1> DEFINE x == Noted(t, p, d, stack, Len(history), stepCount')
             n == stepCount'
             kept == Prune(p.agent, n)
             a == p.agent
  <1>1. /\ a \in Agent /\ history \in Seq(Evaluation) /\ stack \in Seq(Execution)
        /\ Len(history) \in Nat
    BY ProposalAssumption DEF Remembered
  <1>2. stepCount \in Nat /\ n \in Nat /\ stepCount <= n
    <2>1. n = stepCount + 1 /\ stepCount \in Nat
      BY ClaimCounts DEF Refused, Heard, Remembered
    <2> QED  BY <2>1
  <1>3. Record(t, p, d, stack, Len(history), n)
    BY DEF Refused
  <1>4. history' = Append(history, x) /\ x \in Evaluation
    BY <1>1, <1>2, <1>3, RecordAppends
  <1>5. intent' = LastN(Append(intent, EntryOf(x)), IntentGraphMax)
    BY <1>3 DEF Record, EntryOf, Refuses, Noted
  <1>6. /\ x.agent = a /\ x.judged = Len(history) /\ x.heard = n /\ x.decision = d
    BY DEF Noted
  <1>7. ~ Runs(x)
    BY <1>6 DEF Refused, Runs
  <1>8. stack' = stack
    BY DEF Refused
  <1>9. InForce(history', restricted', n)
    <2>1. InForce(history, kept, n)
      BY <1>1, <1>2, StaysInForce DEF Caution
    <2>2. kept \in [Agent -> SUBSET Int]
      BY <1>1, PruneKeeps
    <2>3. CASE d = "RESTRICT"
      <3>1. restricted' = [kept EXCEPT ![a] = @ \cup {n + RestrictTtlSteps}]
        BY <2>3 DEF Refused
      <3> HIDE DEF kept, x, n, a
      <3>2. \A b \in Agent : kept[b] \subseteq restricted'[b]
        BY <2>2, <3>1
      <3>3. n + RestrictTtlSteps \in restricted'[a]
        BY <1>1, <2>2, <3>1
      <3>4. Expiry(x) \in restricted'[x.agent]
        BY <1>6, <3>3 DEF Expiry
      <3>5. InForce(history, restricted', n)
        <4> SUFFICES ASSUME NEW i \in DOMAIN history, Restricts(history[i])
                     PROVE  \/ Expiry(history[i]) \in restricted'[history[i].agent]
                            \/ Expiry(history[i]) <= n
          BY DEF InForce
        <4>1. history[i] \in Evaluation
          BY <1>1
        <4>2. history[i].agent \in Agent
          BY <4>1, HasFields
        <4>3. Expiry(history[i]) \in kept[history[i].agent] \/ Expiry(history[i]) <= n
          BY <2>1 DEF InForce
        <4> QED  BY <3>2, <4>2, <4>3
      <3>6. InForce(Append(history, x), restricted', n)
        BY <1>1, <1>4, <3>4, <3>5, NewInForce
      <3> QED  BY <1>4, <3>6
    <2>4. CASE d # "RESTRICT"
      <3>1. restricted' = kept
        BY <2>4 DEF Refused
      <3>2. ~ Restricts(x)
        BY <1>6, <2>4 DEF Restricts
      <3> HIDE DEF kept, x, n
      <3>3. InForce(Append(history, x), kept, n)
        BY <1>1, <1>4, <2>1, <3>2, NewInForce
      <3> QED  BY <1>4, <3>1, <3>3
    <2> QED  BY <2>3, <2>4
  <1> HIDE DEF x, n, a
  <1>10. CleanRuns(history')
    <2>1. x.judged <= Len(history)
      BY <1>1, <1>6
    <2> QED  BY <1>1, <1>4, <1>7, <2>1, RunsStayClean DEF Caution
  <1>11. CleanStack(history', stack')
    BY <1>1, <1>4, <1>8, StackStaysClean DEF Caution
  <1>12. Graph(intent', history')
    BY <1>1, <1>4, <1>5, GraphFollows DEF Caution
  <1> QED  BY <1>9, <1>10, <1>11, <1>12 DEF Caution, n

(* What goes on to the boundary is neither restricted nor like anything    *)
(* that the graph remembers as refused.                                    *)
LEMMA HeardIsClean ==
    ASSUME Remembered, Caution, NEW t \in Conn, NEW p \in Proposal, Executing(t, p)
    PROVE  Clean(history, p.agent, p, Len(history), stepCount')
  <1>1. /\ p.agent \in Agent /\ history \in Seq(Evaluation)
        /\ Len(history) \in Nat /\ DOMAIN history = 1..Len(history)
    BY ProposalAssumption DEF Remembered
  <1>2. stepCount' \in Nat /\ stepCount \in Nat /\ stepCount <= stepCount'
    <2>1. stepCount' = stepCount + 1 /\ stepCount \in Nat
      BY ClaimCounts DEF Executing, Heard, Remembered
    <2> QED  BY <2>1
  <1>3. StillRestricted(p.agent, stepCount') = {}
    BY DEF Executing, Heard, Barred
  <1>4. ~ Reenters(p, ReentryMedium)
    <2>1. PICK signal, ballot : AfterQuorum(Verdict(p, signal), ballot) = "CONTINUE"
      BY DEF Executing
    <2>2. Verdict(p, signal) = "CONTINUE"
      BY <2>1 DEF AfterQuorum
    <2> QED  BY <2>2 DEF Verdict
  <1>5. Lapsed(history, p.agent, Len(history), stepCount')
    <2> SUFFICES ASSUME NEW i \in DOMAIN history, history[i].agent = p.agent,
                        Restricts(history[i])
                 PROVE  Expiry(history[i]) <= stepCount'
      BY DEF Lapsed
    <2> DEFINE e == Expiry(history[i])
    <2>1. history[i] \in Evaluation
      BY <1>1
    <2>2. e \in Nat
      BY <2>1, HasFields
    <2>3. e \in restricted[p.agent] \/ e <= stepCount
      BY DEF Caution, InForce
    <2> HIDE DEF e
    <2>4. e \in restricted[p.agent] => ~ (e > stepCount')
      BY <1>3 DEF StillRestricted
    <2>5. e <= stepCount'
      BY <1>2, <2>2, <2>3, <2>4
    <2> QED  BY <2>5 DEF e
  <1>6. Unlike(history, p.agent, p, Len(history))
    <2> SUFFICES ASSUME NEW i \in DOMAIN history, history[i].agent = p.agent,
                        Refuses(history[i]), Like(p, history[i].topic)
                 PROVE  Len(history) - i >= IntentGraphMax
      BY DEF Unlike
    <2>1. ~ (Len(history) - i < IntentGraphMax)
      <3> SUFFICES ASSUME Len(history) - i < IntentGraphMax  PROVE FALSE
        OBVIOUS
      <3>1. PICK k \in DOMAIN intent : intent[k] = EntryOf(history[i])
        BY <1>1, GraphReaches DEF Caution
      <3>2. /\ intent[k].agent = history[i].agent /\ intent[k].topic = history[i].topic
            /\ intent[k].refused = Refuses(history[i])
        BY <3>1 DEF EntryOf
      <3> QED  BY <1>4, <3>2 DEF Reenters, Like
    <2> QED  BY <1>1, <2>1, CapAssumption
  <1> QED  BY <1>1, <1>5, <1>6 DEF Clean

LEMMA ExecutingIsCautious ==
    ASSUME Remembered, Caution, NEW t \in Conn, NEW p \in Proposal, Executing(t, p)
    PROVE  Caution'
  <1> DEFINE f == [thread |-> t, proposal |-> p, judged |-> Len(history),
                   heard |-> stepCount']
             n == stepCount'
  <1>1. p.agent \in Agent /\ stack \in Seq(Execution) /\ Len(history) \in Nat
    BY ProposalAssumption DEF Remembered
  <1>2. stepCount \in Nat /\ n \in Nat /\ stepCount <= n
    <2>1. n = stepCount + 1 /\ stepCount \in Nat
      BY ClaimCounts DEF Executing, Heard, Remembered
    <2> QED  BY <2>1
  <1>3. /\ UNCHANGED <<history, intent>> /\ restricted' = Prune(p.agent, n)
        /\ stack' = Append(stack, f)
    BY DEF Executing
  <1>4. f \in Execution
    BY <1>1, <1>2 DEF Execution
  <1>5. Clean(history, f.proposal.agent, f.proposal, f.judged, f.heard)
    BY HeardIsClean
  <1>6. InForce(history, restricted', n)
    BY <1>1, <1>2, <1>3, StaysInForce DEF Caution
  <1> HIDE DEF f, n
  <1>7. CleanStack(history, stack')
    <2>1. \A k \in DOMAIN stack' : (k \in DOMAIN stack /\ stack'[k] = stack[k]) \/ stack'[k] = f
      BY <1>1, <1>3, <1>4
    <2>2. CleanStack(history, stack)
      BY DEF Caution
    <2> QED  BY <1>5, <2>1, <2>2 DEF CleanStack
  <1> QED  BY <1>3, <1>6, <1>7 DEF Caution, n

LEMMA ExecutedIsCautious ==
    ASSUME Remembered, Caution, NEW t \in Conn, NEW d \in Decision, Executed(t, d)
    PROVE  Caution'
  <1> DEFINE e == Last(stack)
             x == Noted(t, e.proposal, d, Front(stack), e.judged, e.heard)
  <1>1. history \in Seq(Evaluation) /\ stack \in Seq(Execution)
    BY DEF Remembered
  <1>2. /\ stack # <<>> /\ e \in Execution /\ e.judged \in Nat /\ e.heard \in Nat
        /\ d \in {"CONTINUE", "HUMAN"}
        /\ history' = Append(history, x) /\ x \in Evaluation /\ stack' = Front(stack)
        /\ UNCHANGED <<stepCount, restricted>>
    BY ExecutedRecords
  <1>3. /\ x.agent = e.proposal.agent /\ x.topic = e.proposal.topic
        /\ x.confidence = e.proposal.confidence
        /\ x.judged = e.judged /\ x.heard = e.heard /\ x.decision = d
    BY DEF Noted
  <1>4. intent' = LastN(Append(intent, EntryOf(x)), IntentGraphMax)
    BY DEF Executed, Record, EntryOf, Refuses, Noted
  <1>5. ~ Restricts(x)
    BY <1>2, <1>3 DEF Restricts
  <1>6. Front(stack) \in Seq(Execution) /\ \A k \in DOMAIN Front(stack) :
            k \in DOMAIN stack /\ Front(stack)[k] = stack[k]
    <2> DEFINE m == Len(stack) - 1
    <2>1. /\ Front(stack) \in Seq(Execution) /\ Len(Front(stack)) = m /\ m \in Nat
          /\ \A i \in 1..m : Front(stack)[i] = stack[i]
      BY <1>2, Innermost
    <2>2. DOMAIN Front(stack) = 1..m /\ DOMAIN stack = 1..Len(stack)
          /\ \A i \in 1..m : i \in 1..Len(stack)
      BY <1>1, <2>1
    <2> QED  BY <2>1, <2>2
  <1>7. e = stack[Len(stack)] /\ Len(stack) \in DOMAIN stack
    <2>1. e = stack[Len(stack)] /\ Len(stack) \in Nat \ {0}
      BY <1>2, Innermost
    <2> QED  BY <1>1, <2>1
  <1> HIDE DEF e, x
  <1>8. Clean(history, x.agent, x, x.judged, x.heard)
    <2>1. CleanStack(history, stack)
      BY DEF Caution
    <2>2. Clean(history, e.proposal.agent, e.proposal, e.judged, e.heard)
      BY <1>7, <2>1 DEF CleanStack
    <2>3. \A topic : Like(x, topic) <=> Like(e.proposal, topic)
      BY <1>3 DEF Like, Weight
    <2> QED  BY <1>3, <2>2, <2>3 DEF Clean, Unlike
  <1>9. CleanRuns(history')
    <2>1. x.judged <= Len(history)
      BY <1>8 DEF Clean
    <2> QED  BY <1>1, <1>2, <1>8, <2>1, RunsStayClean DEF Caution
  <1>10. CleanStack(history', stack')
    <2>1. CleanStack(history, Front(stack))
      BY <1>6 DEF Caution, CleanStack
    <2> QED  BY <1>1, <1>2, <1>6, <2>1, StackStaysClean
  <1>11. Graph(intent', history')
    BY <1>1, <1>2, <1>4, GraphFollows DEF Caution
  <1>12. InForce(history', restricted', stepCount')
    BY <1>1, <1>2, <1>5, NewInForce DEF Caution
  <1> QED  BY <1>9, <1>10, <1>11, <1>12 DEF Caution

LEMMA DelegationIsCautious ==
    ASSUME Remembered, Caution,
           \/ \E t \in Conn, from, to \in Agent, units \in Nat :
                  Delegate(t, from, to, units) \/ DelegationRefused(t, from, units)
           \/ \E t \in Conn, to \in Agent : RevokeDelegation(t, to)
    PROVE  Caution'
  <1>1. /\ UNCHANGED <<stepCount, stack, history, intent>>
        /\ \/ restricted' = restricted
           \/ \E from \in Agent : restricted' = Prune(from, stepCount)
    BY DelegationIs DEF DelegationRefused
  <1>2. stepCount \in Nat /\ stepCount <= stepCount
    BY DEF Remembered
  <1>3. InForce(history, restricted', stepCount)
    BY <1>1, <1>2, StaysInForce DEF Caution
  <1> QED  BY <1>1, <1>3 DEF Caution

LEMMA OperatesCautiously == Remembered /\ Caution /\ Operates => Caution'
  <1>1. CASE UNCHANGED memoryVars
    BY <1>1 DEF memoryVars, Caution
  <1> QED
    BY <1>1, DeniedIsCautious, RefusedIsCautious, ExecutingIsCautious, ExecutedIsCautious,
       DelegationIsCautious DEF Operates

(* In every state of the service no execution was judged, or is under way, *)
(* against a restriction or a refusal that the governor still remembered.  *)
THEOREM CautionHolds == Spec => []Caution
  <1>1. Init => Caution
    <2> SUFFICES ASSUME Init  PROVE Caution
      OBVIOUS
    <2>1. history = <<>> /\ stack = <<>> /\ intent = <<>>
      BY DEF Init, GovInit
    <2>2. Entries(<<>>) = <<>>
      BY DEF Entries
    <2>3. LastN(<<>>, IntentGraphMax) = <<>>
      <3>1. <<>> \in Seq(Nat) /\ Len(<<>>) <= IntentGraphMax
        BY CapAssumption
      <3> QED  BY <3>1, CapAssumption, LastNIs
    <2> QED  BY <2>1, <2>2, <2>3 DEF Caution, CleanRuns, CleanStack, InForce, Graph
  <1>2. Inv /\ Remembered /\ Caution /\ [Next]_vars => Caution'
    BY ServiceOperates, OperatesCautiously DEF Inv
  <1> QED  BY <1>1, <1>2, ServiceInvariant, MemoryInvariant, PTL DEF Spec

LEMMA CleanIs ==
    ASSUME Remembered, Caution, NEW j \in DOMAIN history, Runs(history[j]),
           NEW i \in DOMAIN history, history[i].agent = history[j].agent,
           i <= history[j].judged
    PROVE  /\ Restricts(history[i]) =>
                  history[j].heard - history[i].heard >= RestrictTtlSteps
           /\ Refuses(history[i]) /\ Like(history[j], history[i].topic) =>
                  history[j].judged - i >= IntentGraphMax
  <1>1. Clean(history, history[j].agent, history[j], history[j].judged, history[j].heard)
    BY DEF Caution, CleanRuns, CleanRun
  <1>2. history[i] \in Evaluation /\ history[j] \in Evaluation
    BY DEF Remembered
  <1>3. /\ history[i].heard \in Nat /\ history[j].heard \in Nat
        /\ RestrictTtlSteps \in Nat
    BY <1>2, HasFields, CapAssumption
  <1>4. Restricts(history[i]) => history[i].heard + RestrictTtlSteps <= history[j].heard
    BY <1>1 DEF Clean, Lapsed, Expiry
  <1>5. Refuses(history[i]) /\ Like(history[j], history[i].topic) =>
            history[j].judged - i >= IntentGraphMax
    BY <1>1 DEF Clean, Unlike
  <1>6. Restricts(history[i]) => history[j].heard - history[i].heard >= RestrictTtlSteps
    BY <1>3, <1>4
  <1> QED  BY <1>5, <1>6

(* What an agent was refused does not run later under other words while    *)
(* the intent graph may still hold the refusal and the confidence of the   *)
(* later proposal leaves its likeness at reentry_medium or more, whatever  *)
(* the signals and the votes say and whoever else is served meanwhile      *)
(* (reentry_risk, evaluate step (13)).                                     *)
THEOREM RefusalsStick == Spec => []RefusalSticks
  <1>1. Remembered /\ Caution => RefusalSticks
    <2> SUFFICES ASSUME Remembered, Caution, NEW i \in DOMAIN history, NEW j \in DOMAIN history,
                        history[i].decision \in {"RESTRICT", "HUMAN"},
                        history[j].decision = "CONTINUE",
                        history[i].agent = history[j].agent,
                        Weight(history[j], history[i].topic) >= 100 * ReentryMedium,
                        i <= history[j].judged
                 PROVE  history[j].judged - i >= IntentGraphMax
      BY DEF RefusalSticks
    <2>1. Runs(history[j]) /\ Refuses(history[i]) /\ Like(history[j], history[i].topic)
      BY DEF Runs, Refuses, Refusal, Like
    <2> QED  BY <2>1, CleanIs
  <1> QED  BY <1>1, MemoryInvariant, CautionHolds, PTL

(* After a RESTRICT the agent's permission executes nothing that is heard  *)
(* within restrict_ttl_steps evaluations (_active_restrictions).           *)
THEOREM RestrictionsLast == Spec => []RestrictionLasts
  <1>1. Remembered /\ Caution => RestrictionLasts
    <2> SUFFICES ASSUME Remembered, Caution, NEW i \in DOMAIN history, NEW j \in DOMAIN history,
                        history[i].decision = "RESTRICT", history[j].decision = "CONTINUE",
                        history[i].agent = history[j].agent, i <= history[j].judged
                 PROVE  history[j].heard - history[i].heard >= RestrictTtlSteps
      BY DEF RestrictionLasts
    <2>1. Runs(history[j]) /\ Restricts(history[i])
      BY DEF Runs, Restricts
    <2> QED  BY <2>1, CleanIs
  <1> QED  BY <1>1, MemoryInvariant, CautionHolds, PTL

------------------------------------------------------------------------------
(* The executions that no other contains, of those that were heard since   *)
(* an agent was given units.                                               *)
SoloIn(h, a, since) ==
    {i \in DOMAIN h :
        h[i].agent = a /\ h[i].heard > since /\ Runs(h[i]) /\ ~ h[i].nested}
Solo(a) == Cardinality(SoloIn(history, a, published[a].since))

(* All executions under way are of one thread; none was heard at a step    *)
(* that has not come; what ran by itself and what is left are covered by   *)
(* what was given, and so is, while it runs, the outermost execution, if   *)
(* nothing was given since it was heard.                                   *)
OneThread == \A i, j \in DOMAIN stack : stack[i].thread = stack[j].thread
Timely ==
    /\ \A i \in DOMAIN history : history[i].heard <= stepCount
    /\ \A i \in DOMAIN stack : stack[i].heard <= stepCount
Covered == \A a \in Agent : Solo(a) + live[a] <= published[a].units
OuterCovered ==
    stack # <<>> => LET a == stack[1].proposal.agent
                    IN  stack[1].heard > published[a].since => Solo(a) + 1 <= published[a].units
Spent == OneThread /\ Timely /\ Covered /\ OuterCovered

LEMMA SoloIsFinite ==
    ASSUME NEW h \in Seq(Evaluation), NEW a, NEW since
    PROVE  IsFiniteSet(SoloIn(h, a, since)) /\ Cardinality(SoloIn(h, a, since)) \in Nat
  <1>1. SoloIn(h, a, since) \subseteq 1..Len(h)
    BY DEF SoloIn
  <1>2. IsFiniteSet(1..Len(h))
    BY FS_Interval
  <1>3. IsFiniteSet(SoloIn(h, a, since))
    BY <1>1, <1>2, FS_Subset
  <1> QED  BY <1>3, FS_CardinalityType

LEMMA SoloGrows ==
    ASSUME NEW h \in Seq(Evaluation), NEW x \in Evaluation, NEW a, NEW since
    PROVE  Cardinality(SoloIn(Append(h, x), a, since)) =
               Cardinality(SoloIn(h, a, since))
                   + IF x.agent = a /\ x.heard > since /\ Runs(x) /\ ~ x.nested
                     THEN 1 ELSE 0
  <1> DEFINE t == Append(h, x)
             S == SoloIn(h, a, since)
             T == SoloIn(t, a, since)
             counts == x.agent = a /\ x.heard > since /\ Runs(x) /\ ~ x.nested
  <1>1. /\ Len(h) \in Nat /\ DOMAIN h = 1..Len(h) /\ DOMAIN t = 1..(Len(h) + 1)
        /\ t[Len(h) + 1] = x /\ \A i \in 1..Len(h) : t[i] = h[i]
    BY AppendIs
  <1>2. IsFiniteSet(S) /\ Cardinality(S) \in Nat
    BY SoloIsFinite
  <1> HIDE DEF t
  <1>3. \A i : i \in DOMAIN t <=> (i \in DOMAIN h \/ i = Len(h) + 1)
    BY <1>1
  <1>4. Len(h) + 1 \notin DOMAIN h
    BY <1>1
  <1>5. CASE counts
    <2>1. T = S \cup {Len(h) + 1}
      BY <1>1, <1>3, <1>4, <1>5 DEF SoloIn
    <2>2. Len(h) + 1 \notin S
      BY <1>4 DEF SoloIn
    <2> HIDE DEF S, T
    <2>3. Cardinality(T) = Cardinality(S) + 1
      BY <1>2, <2>1, <2>2, FS_AddElement
    <2> QED  BY <1>5, <2>3 DEF S, T, t
  <1>6. CASE ~ counts
    <2>1. T = S
      BY <1>1, <1>3, <1>6 DEF SoloIn
    <2> HIDE DEF S, T
    <2>2. Cardinality(T) = Cardinality(S) + 0
      BY <1>2, <2>1
    <2> QED  BY <1>6, <2>2 DEF S, T, t
  <1> QED  BY <1>5, <1>6

LEMMA SoloIsNat ==
    ASSUME Remembered, NEW a \in Agent
    PROVE  /\ Solo(a) \in Nat /\ live[a] \in Nat
           /\ published[a].units \in Nat /\ published[a].since \in Nat
  <1>1. live[a] \in Nat /\ published[a].units \in Nat /\ published[a].since \in Nat
        /\ history \in Seq(Evaluation)
    BY DEF Remembered
  <1> QED  BY <1>1, SoloIsFinite DEF Solo

(* A step counts on, and what it writes down was heard by now.             *)
LEMMA TimelyKeeps ==
    ASSUME Remembered, Timely, stepCount' \in Nat, stepCount <= stepCount',
           \/ history' = history
           \/ \E x \in Evaluation : history' = Append(history, x) /\ x.heard <= stepCount',
           \A i \in DOMAIN stack' :
               (i \in DOMAIN stack /\ stack'[i] = stack[i]) \/ stack'[i].heard <= stepCount'
    PROVE  Timely'
  <1>1. history \in Seq(Evaluation) /\ stack \in Seq(Execution) /\ stepCount \in Nat
    BY DEF Remembered
  <1>2. \A i \in DOMAIN history : history[i].heard <= stepCount'
    <2> SUFFICES ASSUME NEW i \in DOMAIN history  PROVE history[i].heard <= stepCount'
      OBVIOUS
    <2>1. history[i].heard \in Nat
      BY <1>1, HasFields
    <2> QED  BY <1>1, <2>1 DEF Timely
  <1>3. \A i \in DOMAIN stack : stack[i].heard <= stepCount'
    <2> SUFFICES ASSUME NEW i \in DOMAIN stack  PROVE stack[i].heard <= stepCount'
      OBVIOUS
    <2>1. stack[i].heard \in Nat
      BY <1>1, FrameFields
    <2> QED  BY <1>1, <2>1 DEF Timely
  <1>4. ASSUME NEW x \in Evaluation, history' = Append(history, x), x.heard <= stepCount'
        PROVE  \A i \in DOMAIN history' : history'[i].heard <= stepCount'
    <2>1. \A i \in DOMAIN history' :
              (i \in DOMAIN history /\ history'[i] = history[i]) \/ history'[i] = x
      BY <1>1, <1>4, AppendIs
    <2> QED  BY <1>2, <1>4, <2>1
  <1>5. \A i \in DOMAIN history' : history'[i].heard <= stepCount'
    BY <1>2, <1>4
  <1>6. \A i \in DOMAIN stack' : stack'[i].heard <= stepCount'
    BY <1>3
  <1> QED  BY <1>5, <1>6 DEF Timely

LEMMA DecidedIsCovered ==
    ASSUME Remembered, Spent, UNCHANGED <<stack, live, published>>,
           stepCount' \in Nat, stepCount <= stepCount',
           \/ history' = history
           \/ \E x \in Evaluation : /\ history' = Append(history, x)
                                    /\ x.heard <= stepCount' /\ ~ Runs(x)
    PROVE  Spent'
  <1>1. \A a \in Agent : Solo(a)' = Solo(a)
    <2> SUFFICES ASSUME NEW a \in Agent  PROVE Solo(a)' = Solo(a)
      OBVIOUS
    <2>1. history \in Seq(Evaluation) /\ Solo(a) \in Nat
      BY SoloIsNat DEF Remembered
    <2>2. CASE history' = history
      BY <2>2 DEF Solo
    <2>3. ASSUME NEW x \in Evaluation, history' = Append(history, x), ~ Runs(x)
          PROVE  Solo(a)' = Solo(a)
      <3>1. Cardinality(SoloIn(Append(history, x), a, published[a].since)) = Solo(a) + 0
        BY <2>1, <2>3, SoloGrows DEF Solo
      <3> QED  BY <2>1, <2>3, <3>1 DEF Solo
    <2> QED  BY <2>2, <2>3
  <1>2. OneThread' /\ Covered'
    BY <1>1 DEF Spent, OneThread, Covered
  <1>3. OuterCovered'
    <2> SUFFICES ASSUME stack # <<>>
                 PROVE  LET a == stack[1].proposal.agent
                        IN  stack[1].heard > published[a].since =>
                                Solo(a)' + 1 <= published[a].units
      BY DEF OuterCovered
    <2>1. stack[1] \in Execution
      BY DEF Remembered
    <2>2. stack[1].proposal.agent \in Agent
      BY <2>1, FrameFields
    <2> QED  BY <1>1, <2>2 DEF Spent, OuterCovered
  <1>4. Timely'
    <2>1. \A i \in DOMAIN stack' : i \in DOMAIN stack /\ stack'[i] = stack[i]
      OBVIOUS
    <2> QED  BY <2>1, TimelyKeeps DEF Spent
  <1> QED  BY <1>2, <1>3, <1>4 DEF Spent

LEMMA ExecutingIsCovered ==
    ASSUME Remembered, Spent, NEW t \in Conn, NEW p \in Proposal, Executing(t, p)
    PROVE  Spent'
  <1> DEFINE f == [thread |-> t, proposal |-> p, judged |-> Len(history),
                   heard |-> stepCount']
             a == p.agent
  <1>1. a \in Agent /\ stack \in Seq(Execution) /\ Len(history) \in Nat
        /\ DOMAIN stack = 1..Len(stack) /\ Len(stack) \in Nat
    BY ProposalAssumption DEF Remembered
  <1>2. stepCount' \in Nat /\ stepCount <= stepCount'
    <2>1. stepCount' = stepCount + 1 /\ stepCount \in Nat
      BY ClaimCounts DEF Executing, Heard, Remembered
    <2> QED  BY <2>1
  <1>3. f \in Execution /\ f.heard <= stepCount'
    BY <1>1, <1>2 DEF Execution
  <1>4. UNCHANGED <<live, history, published>> /\ stack' = Append(stack, f)
    BY DEF Executing
  <1>5. stack # <<>> => Last(stack).thread = t
    BY DEF Executing, Heard, MayEnter, HoldsLock
  <1>6. ~ (live[a] < 1)
    BY DEF Executing, Heard, Barred
  <1>7. f.thread = t /\ f.proposal.agent = a
    OBVIOUS
  <1> HIDE DEF f, a
  <1>8. /\ DOMAIN stack' = 1..(Len(stack) + 1) /\ stack'[Len(stack) + 1] = f
        /\ \A i \in 1..Len(stack) : stack'[i] = stack[i]
    BY <1>1, <1>3, <1>4, AppendIs
  <1>9. OneThread'
    <2>1. \A i \in DOMAIN stack : stack[i].thread = t
      <3> SUFFICES ASSUME NEW i \in DOMAIN stack  PROVE stack[i].thread = t
        OBVIOUS
      <3>1. stack # <<>> /\ Len(stack) \in DOMAIN stack
        BY <1>1
      <3>2. stack[Len(stack)].thread = t
        BY <1>5, <3>1 DEF Last
      <3> QED  BY <3>1, <3>2 DEF Spent, OneThread
    <2>2. \A i \in DOMAIN stack' : stack'[i].thread = t
      BY <1>1, <1>7, <1>8, <2>1
    <2> QED  BY <2>2 DEF OneThread
  <1>10. Covered'
    BY <1>4 DEF Spent, Covered, Solo
  <1>11. OuterCovered'
    <2>1. CASE stack = <<>>
      <3>1. stack'[1] = f
        BY <1>8, <2>1
      <3>2. Solo(a) + 1 <= published[a].units
        <4>1. Solo(a) + live[a] <= published[a].units
          BY <1>1 DEF Spent, Covered
        <4>2. /\ Solo(a) \in Nat /\ live[a] \in Nat /\ published[a].units \in Nat
          BY <1>1, SoloIsNat
        <4> QED  BY <1>6, <4>1, <4>2
      <3>3. stack'[1].proposal.agent = a
        BY <1>7, <3>1
      <3> QED  BY <1>4, <3>2, <3>3 DEF OuterCovered, Solo
    <2>2. CASE stack # <<>>
      <3>1. stack'[1] = stack[1]
        BY <1>1, <1>8, <2>2
      <3> QED  BY <1>4, <2>2, <3>1 DEF Spent, OuterCovered, Solo
    <2> QED  BY <2>1, <2>2
  <1>12. Timely'
    <2>1. \A i \in DOMAIN stack' :
              (i \in DOMAIN stack /\ stack'[i] = stack[i]) \/ stack'[i].heard <= stepCount'
      BY <1>1, <1>3, <1>8
    <2> QED  BY <1>2, <1>4, <2>1, TimelyKeeps DEF Spent
  <1> QED  BY <1>9, <1>10, <1>11, <1>12 DEF Spent

(* The unit an execution takes is there, or was spent inside it.           *)
LEMMA TakenCovers ==
    ASSUME NEW n \in Nat, NEW left \in Nat, NEW units \in Nat,
           n + left <= units, n + 1 <= units
    PROVE  n + 1 + Taken(left) <= units
  BY DEF Taken

LEMMA TakenIsLess ==
    ASSUME NEW left \in Nat
    PROVE  Taken(left) \in Nat /\ Taken(left) <= left
  BY DEF Taken

LEMMA ExecutedIsCovered ==
    ASSUME Remembered, Spent, NEW t \in Conn, NEW d \in Decision, Executed(t, d)
    PROVE  Spent'
  <1> DEFINE e == Last(stack)
             b == e.proposal.agent
             x == Noted(t, e.proposal, d, Front(stack), e.judged, e.heard)
             m == Len(stack) - 1
  <1>1. history \in Seq(Evaluation) /\ stack \in Seq(Execution)
        /\ live \in [Agent -> Nat] /\ DOMAIN stack = 1..Len(stack)
        /\ Len(history) \in Nat
    BY DEF Remembered
  <1>2. /\ stack # <<>> /\ e \in Execution /\ b \in Agent /\ e.thread = t
        /\ history' = Append(history, x) /\ x \in Evaluation /\ stack' = Front(stack)
        /\ live' = IF d = "CONTINUE" /\ published[b].since < e.heard
                   THEN [live EXCEPT ![b] = Taken(@)] ELSE live
        /\ published' = published /\ stepCount' = stepCount
    BY ExecutedRecords
  <1>3. /\ x.agent = b /\ x.heard = e.heard
        /\ Runs(x) <=> d = "CONTINUE"
        /\ x.nested <=> \E i \in DOMAIN Front(stack) : Front(stack)[i].thread = t
    BY DEF Noted, Runs
  <1>4. /\ m \in Nat /\ Len(stack) \in Nat \ {0} /\ DOMAIN Front(stack) = 1..m
        /\ e = stack[Len(stack)] /\ \A i \in 1..m : Front(stack)[i] = stack[i]
    <2>1. /\ Front(stack) \in Seq(Execution) /\ Len(Front(stack)) = m
          /\ e = stack[Len(stack)] /\ Len(stack) \in Nat \ {0}
          /\ \A i \in 1..m : Front(stack)[i] = stack[i]
      BY <1>2, Innermost
    <2> QED  BY <2>1
  <1>5. \A i \in DOMAIN stack : stack[i].thread = t
    <2>1. Len(stack) \in DOMAIN stack
      BY <1>1, <1>4
    <2> QED  BY <1>2, <1>4, <2>1 DEF Spent, OneThread
  <1>6. \A i \in 1..m : i \in DOMAIN stack
    BY <1>1, <1>4
  <1>7. x.nested <=> m >= 1
    <2>1. x.nested => m >= 1
      <3> SUFFICES ASSUME x.nested  PROVE m >= 1
        OBVIOUS
      <3>1. PICK i : i \in DOMAIN Front(stack)
        BY <1>3
      <3>2. i \in 1..m
        BY <1>4, <3>1
      <3> HIDE DEF m
      <3> QED  BY <1>4, <3>2
    <2>2. m >= 1 => x.nested
      <3> SUFFICES ASSUME m >= 1  PROVE x.nested
        OBVIOUS
      <3>1. 1 \in 1..m
        BY <1>4
      <3>2. Front(stack)[1].thread = t
        BY <1>4, <1>5, <1>6, <3>1
      <3> QED  BY <1>3, <1>4, <3>1, <3>2
    <2> QED  BY <2>1, <2>2
  <1> HIDE DEF e, b, x, m
  <1>15. e.heard \in Nat /\ published[b].since \in Nat /\ e.heard <= stepCount
    <2>1. Len(stack) \in DOMAIN stack
      BY <1>1, <1>4
    <2> QED  BY <1>2, <1>4, <2>1, FrameFields, SoloIsNat DEF Spent, Timely
  <1> DEFINE counts == Runs(x) /\ e.heard > published[b].since
  <1>16. counts <=> d = "CONTINUE" /\ published[b].since < e.heard
    BY <1>3, <1>15
  <1> HIDE DEF counts
  <1>8. OneThread' /\ Timely'
    <2>1. OneThread'
      BY <1>2, <1>4, <1>6 DEF Spent, OneThread
    <2>2. \A i \in DOMAIN stack' : i \in DOMAIN stack /\ stack'[i] = stack[i]
      BY <1>2, <1>4, <1>6
    <2>3. stepCount \in Nat /\ stepCount <= stepCount
      BY DEF Remembered
    <2> QED  BY <1>2, <1>3, <1>15, <2>1, <2>2, <2>3, TimelyKeeps DEF Spent
  <1>9. IF counts THEN live'[b] = Taken(live[b]) ELSE live'[b] = live[b]
    BY <1>1, <1>2, <1>16
  <1>10. \A a \in Agent \ {b} : live'[a] = live[a]
    BY <1>1, <1>2
  <1>11. \A a \in Agent : Solo(a)' = Solo(a) + IF a = b /\ counts /\ m = 0 THEN 1 ELSE 0
    <2> SUFFICES ASSUME NEW a \in Agent
                 PROVE  Solo(a)' = Solo(a) + IF a = b /\ counts /\ m = 0 THEN 1 ELSE 0
      OBVIOUS
    <2>1. Cardinality(SoloIn(Append(history, x), a, published[a].since)) =
              Solo(a) + IF x.agent = a /\ x.heard > published[a].since /\ Runs(x) /\ ~ x.nested
                        THEN 1 ELSE 0
      BY <1>1, <1>2, SoloGrows DEF Solo
    <2>2. Solo(a)' = Cardinality(SoloIn(Append(history, x), a, published[a].since))
      BY <1>2 DEF Solo
    <2>3. ~ x.nested <=> m = 0
      BY <1>4, <1>7
    <2>4. (x.agent = a /\ x.heard > published[a].since /\ Runs(x) /\ ~ x.nested)
              <=> (a = b /\ counts /\ m = 0)
      BY <1>3, <2>3 DEF counts
    <2> QED  BY <2>1, <2>2, <2>4
  <1>12. CASE m = 0
    <2>1. stack' = <<>>
      <3>1. Front(stack) \in Seq(Execution) /\ Len(Front(stack)) = 0
        BY <1>2, <1>12, Innermost DEF m
      <3> QED  BY <1>2, <3>1
    <2>2. OuterCovered'
      BY <2>1 DEF OuterCovered
    <2>3. e = stack[1]
      <3>1. Len(stack) = 1
        BY <1>4, <1>12 DEF m
      <3> QED  BY <1>4, <3>1
    <2>4. counts => Solo(b) + 1 <= published[b].units
      BY <1>2, <2>3 DEF Spent, OuterCovered, b, counts
    <2>5. Covered'
      <3> SUFFICES ASSUME NEW a \in Agent
                   PROVE  Solo(a)' + live'[a] <= published[a].units
        BY <1>2, <1>11 DEF Covered
      <3>1. Solo(a) + live[a] <= published[a].units
        BY DEF Spent, Covered
      <3>2. /\ Solo(a) \in Nat /\ live[a] \in Nat /\ published[a].units \in Nat
        BY SoloIsNat
      <3>3. CASE a # b
        <4>1. Solo(a)' = Solo(a) /\ live'[a] = live[a]
          BY <1>10, <1>11, <3>2, <3>3
        <4> QED  BY <3>1, <4>1
      <3>4. CASE a = b /\ counts
        <4>1. Solo(a)' = Solo(a) + 1
          BY <1>11, <1>12, <3>4
        <4>2. live'[a] = Taken(live[a])
          BY <1>9, <3>4
        <4>3. Solo(a) + 1 <= published[a].units
          BY <2>4, <3>4
        <4>4. Solo(a) + 1 + Taken(live[a]) <= published[a].units
          BY <3>1, <3>2, <4>3, TakenCovers
        <4> QED  BY <4>1, <4>2, <4>4
      <3>5. CASE a = b /\ ~ counts
        <4>1. Solo(a)' = Solo(a) /\ live'[a] = live[a]
          BY <1>9, <1>11, <3>2, <3>5
        <4> QED  BY <3>1, <4>1
      <3> QED  BY <3>3, <3>4, <3>5
    <2> QED  BY <1>8, <2>2, <2>5 DEF Spent
  <1>13. CASE m >= 1
    <2>1. \A a \in Agent : Solo(a)' = Solo(a)
      <3> SUFFICES ASSUME NEW a \in Agent  PROVE Solo(a)' = Solo(a)
        OBVIOUS
      <3>1. m # 0 /\ Solo(a) \in Nat
        BY <1>4, <1>13, SoloIsNat
      <3> QED  BY <1>11, <3>1
    <2>2. Covered'
      <3> SUFFICES ASSUME NEW a \in Agent
                   PROVE  Solo(a)' + live'[a] <= published[a].units
        BY <1>2, <1>11 DEF Covered
      <3>1. Solo(a) + live[a] <= published[a].units
        BY DEF Spent, Covered
      <3>2. /\ Solo(a) \in Nat /\ live[a] \in Nat /\ published[a].units \in Nat
        BY SoloIsNat
      <3>3. live'[a] = live[a] \/ live'[a] = Taken(live[a])
        BY <1>9, <1>10
      <3>4. live'[a] \in Nat /\ live'[a] <= live[a]
        BY <3>2, <3>3, TakenIsLess
      <3> QED  BY <2>1, <3>1, <3>2, <3>4
    <2>3. OuterCovered'
      <3>1. stack'[1] = stack[1]
        BY <1>2, <1>4, <1>13
      <3>2. stack[1] \in Execution
        BY <1>1, <1>2
      <3>3. stack[1].proposal.agent \in Agent
        BY <3>2, FrameFields
      <3> QED  BY <1>2, <2>1, <3>1, <3>3 DEF Spent, OuterCovered
    <2> QED  BY <1>8, <2>2, <2>3 DEF Spent
  <1>14. m = 0 \/ m >= 1
    BY <1>4
  <1> QED  BY <1>12, <1>13, <1>14

LEMMA GrantIsCovered ==
    ASSUME Remembered, Spent, UNCHANGED <<stepCount, stack, history>>,
           NEW to \in Agent, NEW n \in Nat, Grant(to, n)
    PROVE  Spent'
  <1>1. /\ live \in [Agent -> Nat] /\ history \in Seq(Evaluation) /\ stepCount \in Nat
        /\ stack \in Seq(Execution)
        /\ published \in [Agent -> [units : Nat, since : Nat]]
    BY DEF Remembered
  <1>2. /\ live'[to] = n /\ published'[to].units = n /\ published'[to].since = stepCount
        /\ \A a \in Agent \ {to} : live'[a] = live[a] /\ published'[a] = published[a]
    BY <1>1 DEF Grant
  <1>3. Solo(to)' = 0
    <2>1. \A i \in DOMAIN history : ~ (history[i].heard > stepCount)
      <3> SUFFICES ASSUME NEW i \in DOMAIN history  PROVE ~ (history[i].heard > stepCount)
        OBVIOUS
      <3>1. history[i].heard \in Nat /\ history[i].heard <= stepCount
        BY <1>1, HasFields DEF Spent, Timely
      <3> QED  BY <1>1, <3>1
    <2>2. SoloIn(history, to, stepCount) = {}
      BY <2>1 DEF SoloIn
    <2> QED  BY <1>2, <2>2, FS_EmptySet DEF Solo
  <1>4. \A a \in Agent \ {to} : Solo(a)' = Solo(a)
    BY <1>2 DEF Solo
  <1>5. Covered'
    <2> SUFFICES ASSUME NEW a \in Agent
                 PROVE  Solo(a)' + live'[a] <= published'[a].units
      BY DEF Covered
    <2>1. CASE a = to
      BY <1>1, <1>2, <1>3, <2>1
    <2>2. CASE a # to
      BY <1>2, <1>4, <2>2 DEF Spent, Covered
    <2> QED  BY <2>1, <2>2
  <1>6. OuterCovered'
    <2> SUFFICES ASSUME stack # <<>>,
                        stack[1].heard > published'[stack[1].proposal.agent].since
                 PROVE  Solo(stack[1].proposal.agent)' + 1
                            <= published'[stack[1].proposal.agent].units
      BY DEF OuterCovered
    <2> DEFINE a == stack[1].proposal.agent
    <2>1. stack[1] \in Execution /\ 1 \in DOMAIN stack
      BY <1>1
    <2>2. a \in Agent /\ stack[1].heard \in Nat /\ stack[1].heard <= stepCount
      BY <2>1, FrameFields DEF Spent, Timely
    <2>3. a # to
      BY <1>1, <1>2, <2>2
    <2> QED  BY <1>2, <1>4, <2>2, <2>3 DEF Spent, OuterCovered
  <1> QED  BY <1>5, <1>6 DEF Spent, OneThread, Timely

LEMMA OperatesCovered == Remembered /\ Spent /\ Operates => Spent'
  <1> SUFFICES ASSUME Remembered, Spent, Operates  PROVE Spent'
    OBVIOUS
  <1>0. stepCount \in Nat /\ stepCount <= stepCount
    BY DEF Remembered
  <1>1. CASE UNCHANGED memoryVars
    BY <1>0, <1>1, DecidedIsCovered DEF memoryVars
  <1>2. ASSUME NEW t \in Conn, NEW p \in Proposal, Denied(t, p)  PROVE Spent'
    <2>1. stepCount' \in Nat /\ stepCount <= stepCount'
      BY <1>0, <1>2, ClaimCounts DEF Denied
    <2>2. UNCHANGED <<stack, live, published, history>>
      BY <1>2 DEF Denied
    <2> QED  BY <2>1, <2>2, DecidedIsCovered
  <1>3. ASSUME NEW t \in Conn, NEW p \in Proposal, NEW d \in Decision, Refused(t, p, d)
        PROVE  Spent'
    <2> DEFINE x == Noted(t, p, d, stack, Len(history), stepCount')
    <2>1. stepCount' \in Nat /\ stepCount <= stepCount' /\ Len(history) \in Nat
      BY <1>0, <1>3, ClaimCounts DEF Refused, Heard, Remembered
    <2>2. Record(t, p, d, stack, Len(history), stepCount')
      BY <1>3 DEF Refused
    <2>3. history' = Append(history, x) /\ x \in Evaluation
      BY <2>1, <2>2, RecordAppends
    <2>4. ~ Runs(x) /\ x.heard <= stepCount'
      BY <1>3, <2>1 DEF Refused, Runs, Noted
    <2>5. UNCHANGED <<stack, live, published>>
      BY <1>3 DEF Refused
    <2> HIDE DEF x
    <2> QED  BY <2>1, <2>3, <2>4, <2>5, DecidedIsCovered
  <1>4. CASE \E t \in Conn, from \in Agent, units \in Nat : DelegationRefused(t, from, units)
    BY <1>0, <1>4, DecidedIsCovered DEF DelegationRefused
  <1>5. CASE \/ \E t \in Conn, from, to \in Agent, units \in Nat : Delegate(t, from, to, units)
             \/ \E t \in Conn, a \in Agent : RevokeDelegation(t, a)
    <2>1. UNCHANGED <<stepCount, stack, history>>
      BY <1>5, DelegationIs
    <2>2. PICK to \in Agent, n \in Nat : Grant(to, n)
      BY <1>5, DelegationIs
    <2> QED  BY <2>1, <2>2, GrantIsCovered
  <1> QED
    BY <1>1, <1>2, <1>3, <1>4, <1>5, ExecutingIsCovered, ExecutedIsCovered DEF Operates

(* In every state of the service what an agent has left and what it ran by *)
(* itself of what was heard since it was last given units are covered by  *)
(* those units.                                                            *)
THEOREM SpentHolds == Spec => []Spent
  <1>1. Init => Spent
    <2> SUFFICES ASSUME Init  PROVE Spent
      OBVIOUS
    <2>1. /\ history = <<>> /\ stack = <<>> /\ live = Ceiling
          /\ \A a \in Agent : published[a].units = Ceiling[a] /\ published[a].since = 0
          /\ \A a \in Agent : Ceiling[a] \in Nat
      BY CeilingAssumption DEF Init, GovInit
    <2>2. \A a \in Agent : Solo(a) = 0
      BY <2>1, FS_EmptySet DEF Solo, SoloIn
    <2>3. \A a \in Agent : Solo(a) + live[a] <= published[a].units
      BY <2>1, <2>2
    <2> QED  BY <2>1, <2>3 DEF Spent, OneThread, Timely, Covered, OuterCovered
  <1>2. Inv /\ Remembered /\ Spent /\ [Next]_vars => Spent'
    BY ServiceOperates, OperatesCovered DEF Inv
  <1> QED  BY <1>1, <1>2, ServiceInvariant, MemoryInvariant, PTL DEF Spec

(* Executions since an agent was last given units outnumber them only by   *)
(* those that a boundary started itself: the unit is checked before the    *)
(* boundary runs and taken behind it, and nobody asks whether it was       *)
(* taken, but the lock keeps every other thread out in between (evaluate). *)
THEOREM OverrunsAreNested == Spec => []OverrunIsNested
  <1>1. Remembered /\ Spent => OverrunIsNested
    <2> SUFFICES ASSUME Remembered, Spent, NEW a \in Agent
                 PROVE  Cardinality(Ran(a)) <= published[a].units
                            + Cardinality({i \in Ran(a) : history[i].nested})
      BY DEF OverrunIsNested
    <2> DEFINE S == SoloIn(history, a, published[a].since)
               N == {i \in Ran(a) : history[i].nested}
    <2>1. Ran(a) = S \cup N /\ S \cap N = {}
      BY DEF Ran, SoloIn, Runs
    <2>2. IsFiniteSet(S) /\ Cardinality(S) \in Nat
      BY SoloIsFinite DEF Remembered
    <2>3. IsFiniteSet(N) /\ Cardinality(N) \in Nat
      <3>1. N \subseteq 1..Len(history)
        BY DEF Ran, Remembered
      <3>2. IsFiniteSet(1..Len(history))
        BY FS_Interval DEF Remembered
      <3>3. IsFiniteSet(N)
        BY <3>1, <3>2, FS_Subset
      <3> QED  BY <3>3, FS_CardinalityType
    <2>4. Solo(a) + live[a] <= published[a].units /\ Solo(a) = Cardinality(S)
      BY DEF Spent, Covered, Solo
    <2>5. live[a] \in Nat /\ published[a].units \in Nat
      BY SoloIsNat
    <2> HIDE DEF S, N
    <2>6. Cardinality(S \cup N) = Cardinality(S) + Cardinality(N)
      <3>1. Cardinality(S \cup N) = Cardinality(S) + Cardinality(N) - Cardinality({})
        BY <2>1, <2>2, <2>3, FS_Union
      <3> QED  BY <2>2, <2>3, <3>1, FS_EmptySet
    <2>7. Cardinality(Ran(a)) <= published[a].units + Cardinality(N)
      BY <2>1, <2>2, <2>3, <2>4, <2>5, <2>6
    <2> QED  BY <2>7 DEF N
  <1> QED  BY <1>1, MemoryInvariant, SpentHolds, PTL

------------------------------------------------------------------------------
(* The bounds of the governor's memory.                                    *)
Kept(s, S, n) == s \in Seq(S) /\ Len(s) <= n /\ IsInjective(s)
Ids == {p.id : p \in Proposal}
Expiring(r, n) == \A a \in Agent : \A e \in r[a] : e <= n + RestrictTtlSteps
Ceilinged == \A a \in Agent : live[a] <= Ceiling[a]
Bounded ==
    /\ Kept(seenNonces, Nonces, MaxSeenNonces) /\ Kept(seenIds, Ids, ProposalLogMax)
    /\ Ceilinged /\ Expiring(restricted, stepCount)
    /\ Len(stack) <= MaxNesting

LEMMA RememberKeeps ==
    ASSUME NEW S, NEW s, NEW e \in S, NEW n \in Nat, Kept(s, S, n), e \notin ToSet(s)
    PROVE  Kept(Remember(s, e, n), S, n)
  <1> DEFINE t == Append(s, e)
             l == LastN(t, n)
             off == Len(t) - Len(l)
  <1>1. /\ s \in Seq(S) /\ IsInjective(s) /\ \A i \in DOMAIN s : s[i] # e
    BY DEF Kept, ToSet
  <1>2. /\ Len(s) \in Nat /\ DOMAIN s = 1..Len(s) /\ DOMAIN t = 1..(Len(s) + 1)
        /\ t[Len(s) + 1] = e /\ \A i \in 1..Len(s) : t[i] = s[i]
    BY <1>1, AppendIs
  <1>3. t \in Seq(S)
    BY <1>1
  <1> HIDE DEF t
  <1>4. /\ l \in Seq(S) /\ Len(l) <= n
        /\ \A i \in 1..Len(l) : i + off \in 1..Len(t) /\ l[i] = t[i + off]
    BY <1>3, LastNIs
  <1>5. Len(t) \in Nat /\ Len(l) \in Nat /\ DOMAIN l = 1..Len(l) /\ DOMAIN t = 1..Len(t)
    BY <1>3, <1>4
  <1>6. \A i, j \in DOMAIN t : t[i] = t[j] => i = j
    <2> SUFFICES ASSUME NEW i \in DOMAIN t, NEW j \in DOMAIN t, t[i] = t[j]
                 PROVE  i = j
      OBVIOUS
    <2>1. CASE i \in 1..Len(s) /\ j \in 1..Len(s)
      BY <1>1, <1>2, <2>1 DEF IsInjective
    <2>2. CASE i = Len(s) + 1 /\ j = Len(s) + 1
      BY <2>2
    <2>3. CASE i \in 1..Len(s) /\ j = Len(s) + 1
      BY <1>1, <1>2, <2>3
    <2>4. CASE i = Len(s) + 1 /\ j \in 1..Len(s)
      BY <1>1, <1>2, <2>4
    <2> QED  BY <1>2, <2>1, <2>2, <2>3, <2>4
  <1> HIDE DEF l, off
  <1>7. off \in Int
    BY <1>5 DEF off
  <1>8. IsInjective(l)
    <2> SUFFICES ASSUME NEW i \in 1..Len(l), NEW j \in 1..Len(l), l[i] = l[j]
                 PROVE  i = j
      BY <1>5 DEF IsInjective
    <2>1. i + off = j + off
      BY <1>4, <1>5, <1>6
    <2> QED  BY <1>5, <1>7, <2>1
  <1> QED  BY <1>4, <1>8 DEF Kept, Remember, l, t

LEMMA ClaimBounds ==
    ASSUME Remembered, Bounded, NEW p \in Proposal, ~ Unheard(p), Claim(p)
    PROVE  /\ Kept(seenNonces', Nonces, MaxSeenNonces)
           /\ Kept(seenIds', Ids, ProposalLogMax)
  <1>1. p.id \in Ids /\ NonceKey(p) \in Nonces
    BY DEF Ids, Nonces
  <1>2. p.id \notin ToSet(seenIds)
    BY DEF Unheard
  <1>3. seenIds' = Remember(seenIds, p.id, ProposalLogMax)
    BY DEF Claim
  <1>4. Kept(seenIds', Ids, ProposalLogMax)
    BY <1>1, <1>2, <1>3, RememberKeeps, CapAssumption DEF Bounded
  <1>5. CASE p.nonce = NoNonce
    BY <1>4, <1>5 DEF Claim, Bounded
  <1>6. CASE p.nonce # NoNonce
    <2>1. /\ seenNonces' = Remember(seenNonces, NonceKey(p), MaxSeenNonces)
          /\ NonceKey(p) \notin ToSet(seenNonces)
      BY <1>6 DEF Claim, Unheard
    <2>2. Kept(seenNonces', Nonces, MaxSeenNonces)
      BY <1>1, <2>1, RememberKeeps, CapAssumption DEF Bounded
    <2> QED  BY <1>4, <2>2
  <1> QED  BY <1>5, <1>6

LEMMA StillExpiring ==
    ASSUME Remembered, Expiring(restricted, stepCount), NEW a \in Agent,
           NEW n \in Nat, stepCount <= n
    PROVE  Expiring(restricted, n) /\ Expiring(Prune(a, n), n)
  <1>1. restricted \in [Agent -> SUBSET Int] /\ stepCount \in Nat
    BY DEF Remembered
  <1>2. Expiring(restricted, n)
    <2> SUFFICES ASSUME NEW b \in Agent, NEW e \in restricted[b]
                 PROVE  e <= n + RestrictTtlSteps
      BY DEF Expiring
    <2>1. e \in Int /\ e <= stepCount + RestrictTtlSteps
      BY <1>1 DEF Expiring
    <2> QED  BY <1>1, <2>1, CapAssumption
  <1>3. \A b \in Agent : Prune(a, n)[b] \subseteq restricted[b]
    BY PruneKeeps DEF StillRestricted
  <1> QED  BY <1>2, <1>3 DEF Expiring

LEMMA HeardBounds ==
    ASSUME Remembered, Bounded, NEW t \in Conn, NEW p \in Proposal,
           \/ Denied(t, p) \/ Executing(t, p)
           \/ \E d \in Decision : Refused(t, p, d)
    PROVE  Bounded'
  <1> DEFINE n == stepCount'
             a == p.agent
  <1>1. ~ Unheard(p) /\ Claim(p) /\ live' = live /\ a \in Agent /\ MayEnter(t)
    BY ProposalAssumption DEF Denied, Executing, Refused, Heard
  <1>2. n \in Nat /\ stepCount <= n
    <2>1. n = stepCount + 1 /\ stepCount \in Nat
      BY <1>1, ClaimCounts DEF Remembered
    <2> QED  BY <2>1
  <1>3. Kept(seenNonces', Nonces, MaxSeenNonces) /\ Kept(seenIds', Ids, ProposalLogMax)
    BY <1>1, ClaimBounds
  <1>4. \/ restricted' = restricted
        \/ restricted' = Prune(a, n)
        \/ restricted' = [Prune(a, n) EXCEPT ![a] = @ \cup {n + RestrictTtlSteps}]
    BY DEF Denied, Executing, Refused
  <1>5. Expiring(restricted, n) /\ Expiring(Prune(a, n), n)
    BY <1>1, <1>2, StillExpiring DEF Bounded
  <1>6. Expiring(restricted', n)
    <2> DEFINE kept == Prune(a, n)
    <2>1. kept \in [Agent -> SUBSET Int]
      BY <1>1, PruneKeeps
    <2>2. CASE restricted' = [kept EXCEPT ![a] = @ \cup {n + RestrictTtlSteps}]
      <3> SUFFICES ASSUME NEW b \in Agent, NEW e \in restricted'[b]
                   PROVE  e <= n + RestrictTtlSteps
        BY DEF Expiring
      <3> HIDE DEF kept, n, a
      <3>1. e \in kept[b] \/ e = n + RestrictTtlSteps
        BY <1>1, <2>1, <2>2
      <3>2. n + RestrictTtlSteps <= n + RestrictTtlSteps
        BY <1>2, CapAssumption
      <3> QED  BY <1>5, <3>1, <3>2 DEF Expiring, kept
    <2> QED  BY <1>4, <1>5, <2>2
  <1>7. Len(stack') <= MaxNesting
    <2>1. CASE stack' = stack
      BY <2>1 DEF Bounded
    <2>2. CASE \E f : stack' = Append(stack, f)
      <3>1. stack \in Seq(Execution) /\ Len(stack) \in Nat /\ MaxNesting \in Nat \ {0}
        BY CapAssumption DEF Remembered
      <3>2. Len(stack') = Len(stack) + 1
        BY <2>2, <3>1
      <3>3. Len(stack) < MaxNesting
        BY <1>1 DEF MayEnter
      <3> QED  BY <3>1, <3>2, <3>3
    <2> QED  BY <2>1, <2>2 DEF Denied, Executing, Refused
  <1> QED  BY <1>1, <1>3, <1>6, <1>7 DEF Bounded, Ceilinged, n

LEMMA ExecutedBounds ==
    ASSUME Remembered, Bounded, NEW t \in Conn, NEW d \in Decision, Executed(t, d)
    PROVE  Bounded'
  <1> DEFINE b == Last(stack).proposal.agent
  <1>1. /\ b \in Agent /\ stack # <<>> /\ stack' = Front(stack)
        /\ live' = live \/ live' = [live EXCEPT ![b] = Taken(@)]
        /\ UNCHANGED <<stepCount, restricted, seenNonces, seenIds>>
    BY ExecutedRecords
  <1> HIDE DEF b
  <1>2. live \in [Agent -> Nat]
    BY DEF Remembered
  <1>3. Ceilinged'
    <2> SUFFICES ASSUME NEW a \in Agent  PROVE live'[a] <= Ceiling[a]
      BY DEF Ceilinged
    <2>1. live[a] \in Nat /\ live[a] <= Ceiling[a] /\ Ceiling[a] \in Nat
      BY <1>2, CeilingAssumption DEF Bounded, Ceilinged
    <2>2. live'[a] = live[a] \/ live'[a] = Taken(live[a])
      BY <1>1, <1>2
    <2>3. Taken(live[a]) \in Nat /\ Taken(live[a]) <= live[a]
      BY <2>1, TakenIsLess
    <2> QED  BY <2>1, <2>2, <2>3
  <1>4. Len(stack') <= MaxNesting
    <2>1. Len(Front(stack)) = Len(stack) - 1 /\ Len(stack) \in Nat \ {0}
      BY <1>1, Innermost
    <2>2. Len(stack) <= MaxNesting /\ MaxNesting \in Nat
      BY CapAssumption DEF Bounded
    <2> QED  BY <1>1, <2>1, <2>2
  <1> QED  BY <1>1, <1>3, <1>4 DEF Bounded

LEMMA DelegationBounds ==
    ASSUME Remembered, Bounded,
           \/ \E t \in Conn, from, to \in Agent, units \in Nat :
                  Delegate(t, from, to, units) \/ DelegationRefused(t, from, units)
           \/ \E t \in Conn, to \in Agent : RevokeDelegation(t, to)
    PROVE  Bounded'
  <1>1. /\ UNCHANGED <<stepCount, stack, seenNonces, seenIds>>
        /\ \/ restricted' = restricted
           \/ \E from \in Agent : restricted' = Prune(from, stepCount)
    BY DelegationIs DEF DelegationRefused
  <1>2. stepCount \in Nat /\ stepCount <= stepCount
    BY DEF Remembered
  <1>3. Expiring(restricted', stepCount)
    BY <1>1, <1>2, StillExpiring DEF Bounded
  <1>4. live' = live \/ \E to \in Agent : \E n \in Nat : n <= Ceiling[to] /\ Grant(to, n)
    BY DelegationIs DEF DelegationRefused
  <1>5. Ceilinged'
    <2>1. CASE live' = live
      BY <2>1 DEF Bounded, Ceilinged
    <2>2. ASSUME NEW to \in Agent, NEW n \in Nat, n <= Ceiling[to], Grant(to, n)
          PROVE  Ceilinged'
      BY <2>2 DEF Grant, Remembered, Bounded, Ceilinged
    <2> QED  BY <1>4, <2>1, <2>2
  <1> QED  BY <1>1, <1>3, <1>5 DEF Bounded

LEMMA OperatesBounded == Remembered /\ Bounded /\ Operates => Bounded'
  <1>1. CASE UNCHANGED memoryVars
    BY <1>1 DEF memoryVars, Bounded, Ceilinged
  <1> QED  BY <1>1, HeardBounds, ExecutedBounds, DelegationBounds DEF Operates

------------------------------------------------------------------------------
(* Who holds a client's lock calls that client, and waits.                 *)
Holds(c) == lock[c] = Nobody \/ (/\ lock[c] \in User /\ ClientOf[lock[c]] = c
                                 /\ waiting[lock[c]] # NoCall)
Holders == \A c \in Client : Holds(c)

LEMMA HoldersKeep ==
    ASSUME Sorts, Holders, [Next]_vars
    PROVE  Holders'
  <1>1. lock \in [Client -> User \cup {Nobody}] /\ waiting \in [User -> Pending]
    BY DEF Sorts
  <1>2. CASE UNCHANGED <<lock, waiting>>
    BY <1>2 DEF Holders, Holds
  <1>3. ASSUME NEW u \in User, NEW k, NEW op, k # NoConn, lock[ClientOf[u]] = Nobody,
               Sends(u, k, op)
        PROVE  Holders'
    <2> DEFINE c == ClientOf[u]
               w == [id |-> ids[c] + 1, op |-> op, on |-> k]
    <2>1. /\ lock' = [lock EXCEPT ![c] = u] /\ waiting' = [waiting EXCEPT ![u] = w]
          /\ c \in Client
      BY <1>3, ClientAssumption DEF Sends
    <2>2. w # NoCall
      BY <1>3 DEF NoCall
    <2> HIDE DEF w
    <2>3. \A b \in Client \ {c} : Holds(b)'
      BY <1>1, <2>1, <2>2 DEF Holders, Holds
    <2>4. Holds(c)'
      BY <1>1, <2>1, <2>2 DEF Holds
    <2> QED  BY <2>3, <2>4 DEF Holders
  <1>4. ASSUME NEW u \in User, waiting' = [waiting EXCEPT ![u] = NoCall], Freed(u)
        PROVE  Holders'
    <2> DEFINE c == ClientOf[u]
    <2>1. lock' = [lock EXCEPT ![c] = IF @ = u THEN Nobody ELSE @] /\ c \in Client
      BY <1>4, ClientAssumption DEF Freed
    <2>2. \A b \in Client \ {c} : Holds(b)'
      BY <1>1, <1>4, <2>1 DEF Holders, Holds
    <2>3. Holds(c)'
      BY <1>1, <1>4, <2>1 DEF Holders, Holds
    <2> QED  BY <2>2, <2>3 DEF Holders
  <1>5. ASSUME NEW u \in work.users,
               \/ Connect(u) \/ SendToken(u) \/ JoinFails(u)
               \/ Receive(u) \/ Lost(u) \/ Close(u)
               \/ \E r \in work.requests : Call(u, r)
        PROVE  Holders'
    <2>1. u \in User
      BY WorkloadAssumption DEF Sorts
    <2>2. ASSUME NEW request, Writes(u, request)  PROVE Holders'
      <3>1. PICK k : k # NoConn /\ Sends(u, k, request.op)
        BY <2>2 DEF Writes
      <3> QED  BY <1>3, <2>1, <2>2, <3>1 DEF Writes, MayCall, Locked
    <2>3. CASE Receive(u) \/ Lost(u)
      BY <1>4, <2>1, <2>3 DEF Receive, Lost
    <2>4. CASE Connect(u) \/ JoinFails(u) \/ Close(u)
      BY <1>2, <2>4 DEF Connect, JoinFails, Close
    <2>5. CASE SendToken(u) \/ \E r \in work.requests : Call(u, r)
      BY <2>2, <2>5 DEF SendToken, Call
    <2> QED  BY <1>5, <2>3, <2>4, <2>5
  <1>6. CASE UNCHANGED clientVars
    BY <1>2, <1>6 DEF clientVars
  <1>7. ASSUME NEW k \in Conn,
               \/ Accept(k) \/ ThreadFails(k) \/ Authenticate(k) \/ GivesUp(k) \/ Ping(k)
               \/ Evaluate(k) \/ Nested(k) \/ NestedGrants(k) \/ Returns(k)
               \/ RegisterDelegation(k) \/ Revoke(k)
        PROVE  UNCHANGED clientVars
    BY <1>7 DEF Accept, ThreadFails, Authenticate, GivesUp, Ping, Evaluate, Nested,
       NestedGrants, Returns, RegisterDelegation, Revoke, Replies, Answers
  <1>8. CASE AcceptFails \/ Stop \/ StopListening
    BY <1>6, <1>8 DEF AcceptFails, Stop, StopListening
  <1> QED  BY <1>2, <1>5, <1>6, <1>7, <1>8 DEF Next, vars, clientVars

(* A thread runs a boundary exactly while it is on the stack.              *)
Runner(k) == \E i \in DOMAIN stack : stack[i].thread = k
Runners == \A k \in Conn : conn[k].pc = "running" <=> Runner(k)
SamePlaces == \A k \in Conn : conn'[k].pc = "running" <=> conn[k].pc = "running"

LEMMA AnsweringEnds ==
    ASSUME Sorts, NEW k \in Conn, NEW ok, NEW rest \in {"reading", "closed"}, NEW caller,
           Answers(k, ok, rest, caller)
    PROVE  /\ conn'[k].pc # "running"
           /\ \A i \in Conn \ {k} : conn'[i] = conn[i]
  BY AnswersFields

LEMMA RepliesEnd ==
    ASSUME Sorts, NEW k \in Conn, NEW ok, Replies(k, ok)
    PROVE  /\ conn'[k].pc # "running"
           /\ \A i \in Conn \ {k} : conn'[i] = conn[i]
  <1>1. NextRound \in {"reading", "closed"}
    BY DEF NextRound
  <1> QED  BY <1>1, AnsweringEnds DEF Replies

LEMMA ClientsStayPut ==
    ASSUME Sorts, NEW u \in User,
           \/ Connect(u) \/ SendToken(u) \/ JoinFails(u)
           \/ Receive(u) \/ Lost(u) \/ Close(u)
           \/ \E r \in Request : Call(u, r)
    PROVE  SamePlaces
  <1> SUFFICES ASSUME NEW i \in Conn
               PROVE  conn'[i].pc = "running" <=> conn[i].pc = "running"
    BY DEF SamePlaces
  <1>1. conn \in [Conn -> Connection] /\ conn[i] \in Connection
    BY DEF Sorts
  <1>2. CASE Receive(u)
    BY <1>1, <1>2 DEF Receive, Connection
  <1>3. CASE Lost(u) \/ JoinFails(u)
    BY <1>3 DEF Lost, JoinFails
  <1>4. CASE Close(u)
    BY <1>1, <1>4 DEF Close, Connection
  <1>5. ASSUME NEW r, Writes(u, r)
        PROVE  conn'[i].pc = "running" <=> conn[i].pc = "running"
    <2> DEFINE k == sock[ClientOf[u]]
               heard == Append(conn[k].in, Frame(u, r))
    <2>2. conn' = [conn EXCEPT ![k].in = heard]
      BY <1>5 DEF Writes
    <2> HIDE DEF k, heard
    <2>3. "pc" \in DOMAIN conn[i]
      BY <1>1 DEF Connection
    <2> QED  BY <1>1, <2>2, <2>3
  <1>6. CASE SendToken(u) \/ \E r \in Request : Call(u, r)
    BY <1>5, <1>6 DEF SendToken, Call
  <1>7. CASE Connect(u)
    <2> DEFINE new == Opened(ClientOf[u])
    <2>1. PICK k \in Conn : conn[k].pc = "none" /\ conn' = [conn EXCEPT ![k] = new]
      BY <1>7, ConnectOpens
    <2>2. new.pc = "queued"
      BY NewConnection, ClientAssumption
    <2> HIDE DEF new
    <2>3. conn'[k].pc = "queued" /\ (i # k => conn'[i] = conn[i])
      BY <1>1, <2>1, <2>2
    <2> QED  BY <2>1, <2>3
  <1> QED  BY <1>2, <1>3, <1>4, <1>6, <1>7

LEMMA LoopStaysPut ==
    ASSUME Sorts,
           \/ \E k \in Conn :
                  \/ Accept(k) \/ ThreadFails(k) \/ Authenticate(k) \/ GivesUp(k) \/ Ping(k)
           \/ AcceptFails \/ Stop \/ StopListening
    PROVE  SamePlaces
  <1>1. conn \in [Conn -> Connection]
    BY DEF Sorts
  <1>2. ASSUME NEW k \in Conn, NEW to, to # "running", conn[k].pc # "running",
               conn' = [conn EXCEPT ![k].pc = to]
        PROVE  SamePlaces
    BY <1>1, <1>2 DEF SamePlaces, Connection
  <1>3. ASSUME NEW k \in Conn, Accept(k)  PROVE SamePlaces
    <2> DEFINE to == IF slots > 0 THEN "auth" ELSE "closed"
    <2>1. conn' = [conn EXCEPT ![k].pc = to] /\ conn[k].pc = "queued"
      BY <1>3 DEF Accept, NextInLine
    <2>2. to # "running"
      OBVIOUS
    <2> HIDE DEF to
    <2> QED  BY <1>2, <2>1, <2>2
  <1>4. ASSUME NEW k \in Conn, ThreadFails(k) \/ GivesUp(k)  PROVE SamePlaces
    BY <1>2, <1>4 DEF ThreadFails, GivesUp, NextInLine
  <1>5. ASSUME NEW k \in Conn, conn[k].pc # "running", conn'[k].pc # "running",
               \A i \in Conn \ {k} : conn'[i] = conn[i]
        PROVE  SamePlaces
    BY <1>5 DEF SamePlaces
  <1>6. ASSUME NEW k \in Conn, Authenticate(k)  PROVE SamePlaces
    <2>1. conn[k].pc = "auth"
      BY <1>6 DEF Authenticate
    <2>2. \E ok, caller : Answers(k, ok, NextRound, caller) \/ Answers(k, ok, "closed", caller)
      BY <1>6 DEF Authenticate
    <2>3. NextRound \in {"reading", "closed"}
      BY DEF NextRound
    <2>4. conn'[k].pc # "running" /\ \A i \in Conn \ {k} : conn'[i] = conn[i]
      BY <2>2, <2>3, AnsweringEnds
    <2> QED  BY <1>5, <2>1, <2>4
  <1>7. ASSUME NEW k \in Conn, Ping(k)  PROVE SamePlaces
    BY <1>5, <1>7, RepliesEnd DEF Ping, Reads
  <1>8. CASE AcceptFails \/ Stop
    BY <1>8 DEF AcceptFails, Stop, SamePlaces
  <1>9. CASE StopListening
    BY <1>1, <1>9 DEF StopListening, SamePlaces, Connection
  <1> QED  BY <1>3, <1>4, <1>6, <1>7, <1>8, <1>9

LEMMA SameRunners ==
    ASSUME Runners, SamePlaces, stack' = stack
    PROVE  Runners'
  BY DEF Runners, Runner, SamePlaces

(* A request answered where it was read.                                   *)
LEMMA AnswerStaysPut ==
    ASSUME Sorts, NEW k \in Conn, NEW ok, conn[k].pc = "reading", Replies(k, ok)
    PROVE  SamePlaces
  BY RepliesEnd DEF SamePlaces

LEMMA DecidedKeepsStack ==
    ASSUME NEW t, NEW p, Decided(t, p)
    PROVE  stack' = stack
  BY DEF Decided, Unheeded, Denied, Refused, govVars

(* The boundary that is called is on top; whoever calls one was alone, or  *)
(* calls from within.                                                      *)
LEMMA ExecutingRuns ==
    ASSUME Remembered, NEW t \in Conn, NEW p, Executing(t, p)
    PROVE  /\ stack # <<>> => Runner(t)
           /\ \A k \in Conn : Runner(k)' <=> Runner(k) \/ k = t
  <1>1. PICK f : stack' = Append(stack, f) /\ f.thread = t
    BY DEF Executing
  <1>2. stack \in Seq(Execution) /\ DOMAIN stack = 1..Len(stack) /\ Len(stack) \in Nat
    BY DEF Remembered
  <1>3. /\ DOMAIN stack' = 1..(Len(stack) + 1) /\ stack'[Len(stack) + 1] = f
        /\ \A i \in 1..Len(stack) : stack'[i] = stack[i]
    BY <1>1, <1>2
  <1>4. stack # <<>> => Runner(t)
    <2> SUFFICES ASSUME stack # <<>>  PROVE Runner(t)
      OBVIOUS
    <2>1. Last(stack).thread = t /\ Last(stack) = stack[Len(stack)]
      BY DEF Executing, Heard, MayEnter, HoldsLock, Last
    <2>2. Len(stack) \in DOMAIN stack
      BY <1>2
    <2> QED  BY <2>1, <2>2 DEF Runner
  <1>5. \A i : i \in DOMAIN stack' <=> i \in DOMAIN stack \/ i = Len(stack) + 1
    BY <1>2, <1>3
  <1>6. \A i \in DOMAIN stack : stack'[i] = stack[i]
    BY <1>2, <1>3
  <1>7. \A k \in Conn : Runner(k)' <=> Runner(k) \/ k = t
    BY <1>1, <1>3, <1>5, <1>6 DEF Runner
  <1> QED  BY <1>4, <1>7

LEMMA RunnersKeep ==
    ASSUME Sorts, Remembered, OneThread, Runners, [Next]_vars
    PROVE  Runners'
  <1>1. conn \in [Conn -> Connection]
    BY DEF Sorts
  <1>2. CASE UNCHANGED vars
    BY <1>2, SameRunners DEF vars, govVars, SamePlaces
  <1>3. ASSUME NEW u \in work.users,
               \/ Connect(u) \/ SendToken(u) \/ JoinFails(u)
               \/ Receive(u) \/ Lost(u) \/ Close(u)
               \/ \E r \in work.requests : Call(u, r)
        PROVE  Runners'
    <2>1. u \in User /\ \A r \in work.requests : r \in Request
      BY WorkloadAssumption DEF Sorts, Request
    <2>2. SamePlaces
      BY <1>3, <2>1, ClientsStayPut
    <2>3. stack' = stack
      BY <1>3 DEF Connect, SendToken, JoinFails, Writes, Sends, Receive, Lost, Close, Call,
         govVars
    <2> QED  BY <2>2, <2>3, SameRunners
  <1>4. CASE \/ \E k \in Conn :
                    \/ Accept(k) \/ ThreadFails(k) \/ Authenticate(k) \/ GivesUp(k) \/ Ping(k)
             \/ AcceptFails \/ Stop \/ StopListening
    <2>1. stack' = stack
      BY <1>4 DEF Accept, ThreadFails, Authenticate, GivesUp, Ping, AcceptFails, Stop,
         StopListening, govVars
    <2> QED  BY <1>4, <2>1, LoopStaysPut, SameRunners
  <1>5. ASSUME NEW k \in Conn, Evaluate(k)  PROVE Runners'
    <2> DEFINE p == Head(conn[k].in).request.about
    <2>1. conn[k].pc = "reading"
      BY <1>5 DEF Evaluate, Reads
    <2>2. CASE Decided(k, p) /\ Replies(k, TRUE)
      BY <2>1, <2>2, AnswerStaysPut, DecidedKeepsStack, SameRunners
    <2>3. CASE Executing(k, p) /\ conn' = [conn EXCEPT ![k].pc = "running"]
      <3>1. ~ Runner(k)
        BY <2>1 DEF Runners
      <3>2. stack = <<>>
        BY <2>3, <3>1, ExecutingRuns
      <3>3. \A i \in Conn : Runner(i)' <=> i = k
        BY <2>3, <3>2, ExecutingRuns DEF Runner
      <3>4. conn'[k].pc = "running" /\ \A i \in Conn \ {k} : conn'[i] = conn[i]
        BY <1>1, <2>3 DEF Connection
      <3>5. \A i \in Conn : conn[i].pc # "running"
        BY <3>2 DEF Runners, Runner
      <3> QED  BY <3>3, <3>4, <3>5 DEF Runners
    <2> QED  BY <1>5, <2>2, <2>3 DEF Evaluate
  <1>6. ASSUME NEW k \in Conn, Nested(k)  PROVE Runners'
    <2>1. conn[k].pc = "running" /\ conn' = conn
      BY <1>6 DEF Nested
    <2>2. PICK p \in work.proposals : Decided(k, p) \/ Executing(k, p)
      BY <1>6 DEF Nested
    <2>3. CASE Decided(k, p)
      BY <2>1, <2>3, DecidedKeepsStack, SameRunners DEF SamePlaces
    <2>4. CASE Executing(k, p)
      <3>1. \A i \in Conn : Runner(i)' <=> Runner(i) \/ i = k
        BY <2>4, ExecutingRuns
      <3>2. Runner(k)
        BY <2>1 DEF Runners
      <3> QED  BY <2>1, <3>1, <3>2 DEF Runners
    <2> QED  BY <2>2, <2>3, <2>4
  <1>7. ASSUME NEW k \in Conn, Returns(k)  PROVE Runners'
    <2>1. PICK d \in Decision : Executed(k, d)
      BY <1>7 DEF Returns
    <2> DEFINE m == Len(stack) - 1
    <2>2. stack # <<>> /\ stack' = Front(stack) /\ Last(stack).thread = k
      BY <2>1 DEF Executed
    <2>3. /\ Front(stack) \in Seq(Execution) /\ Len(Front(stack)) = m
          /\ Last(stack) = stack[Len(stack)] /\ Len(stack) \in Nat \ {0}
          /\ \A i \in 1..m : Front(stack)[i] = stack[i]
      BY <2>2, Innermost
    <2>4. DOMAIN stack = 1..Len(stack) /\ DOMAIN Front(stack) = 1..m
      BY <2>3 DEF Remembered
    <2>5. \A i \in DOMAIN stack : stack[i].thread = k
      <3>1. Len(stack) \in DOMAIN stack
        BY <2>3, <2>4
      <3> QED  BY <2>2, <2>3, <3>1 DEF OneThread
    <2>6. \A i \in Conn : Runner(i) <=> i = k
      <3>1. Len(stack) \in DOMAIN stack
        BY <2>3, <2>4
      <3> QED  BY <2>5, <3>1 DEF Runner
    <2>7. CASE Len(stack) > 1
      <3>1. conn' = conn
        BY <1>7, <2>7 DEF Returns
      <3>2. 1 \in 1..m /\ \A i \in 1..m : i \in DOMAIN stack
        BY <2>3, <2>4, <2>7
      <3>3. \A i \in 1..m : stack'[i].thread = k
        BY <2>2, <2>3, <2>5, <3>2
      <3>4. DOMAIN stack' = 1..m
        BY <2>2, <2>4
      <3>5. \A i \in Conn : Runner(i)' <=> i = k
        BY <3>2, <3>3, <3>4 DEF Runner
      <3> QED  BY <2>6, <3>1, <3>5 DEF Runners
    <2>8. CASE ~ (Len(stack) > 1)
      <3>1. conn'[k].pc # "running" /\ \A i \in Conn \ {k} : conn'[i] = conn[i]
        BY <1>7, <2>8, RepliesEnd DEF Returns
      <3>2. Len(stack) = 1
        BY <2>3, <2>8
      <3>3. DOMAIN stack' = {}
        BY <2>2, <2>4, <3>2
      <3>4. \A i \in Conn : ~ Runner(i)'
        BY <3>3 DEF Runner
      <3> QED  BY <2>6, <3>1, <3>4 DEF Runners
    <2> QED  BY <2>7, <2>8
  <1>8. ASSUME NEW k \in Conn, RegisterDelegation(k) \/ Revoke(k)
        PROVE  Runners'
    <2>1. conn[k].pc = "reading"
      BY <1>8 DEF RegisterDelegation, Revoke, Reads
    <2>2. \E ok : Replies(k, ok)
      BY <1>8 DEF RegisterDelegation, Revoke
    <2>3. stack' = stack
      BY <1>8 DEF RegisterDelegation, Revoke, Delegate, DelegationRefused,
         RevokeDelegation, Publish, govVars
    <2> QED  BY <2>1, <2>2, <2>3, AnswerStaysPut, SameRunners
  <1>9. CASE Operator /\ UNCHANGED conn
    <2>1. stack' = stack
      BY <1>9 DEF Operator, AddKey, RevokeKey, RotateKey, RegistryChanges
    <2> QED  BY <1>9, <2>1, SameRunners DEF SamePlaces
  <1>10. ASSUME NEW k \in Conn, NestedGrants(k)  PROVE Runners'
    <2>1. stack' = stack /\ conn' = conn
      BY <1>10 DEF NestedGrants, Delegate, DelegationRefused, RevokeDelegation, Publish
    <2> QED  BY <2>1, SameRunners DEF SamePlaces
  <1> QED
    BY <1>2, <1>3, <1>4, <1>5, <1>6, <1>7, <1>8, <1>9, <1>10 DEF Next

------------------------------------------------------------------------------
(* The key registry is a table of keys that the operator may use.          *)
LEMMA TableKeeps ==
    ASSUME Sorts, registry \in KeyTable, Operator
    PROVE  registry' \in KeyTable
  <1> DEFINE Key == [agent : Agent, revoked : BOOLEAN]
  <1>1. registry \in [DOMAIN registry -> Key] /\ DOMAIN registry \subseteq Kid
    BY DEF KeyTable
  <1>2. ASSUME NEW K \in SUBSET Kid, NEW r \in [K -> Key]  PROVE r \in KeyTable
    BY <1>2 DEF KeyTable
  <1>3. work.keys \subseteq Kid
    BY HandledAssumption DEF Sorts
  <1>4. ASSUME NEW kid \in Kid, NEW a \in Agent
        PROVE  /\ WithKey(kid, a) \in [DOMAIN registry \cup {kid} -> Key]
               /\ DOMAIN registry \cup {kid} \in SUBSET Kid
    BY <1>1 DEF WithKey
  <1>5. PICK kid \in work.keys :
            \/ \E a \in Agent : AddKey(kid, a)
            \/ RevokeKey(kid)
            \/ \E new \in work.keys : RotateKey(kid, new)
    BY DEF Operator
  <1>6. CASE \E a \in Agent : AddKey(kid, a)
    <2>1. PICK a \in Agent : registry' = WithKey(kid, a)
      BY <1>6 DEF AddKey, RegistryChanges
    <2> QED  BY <1>2, <1>3, <1>4, <2>1
  <1>7. CASE RevokeKey(kid)
    <2>1. registry' = [registry EXCEPT ![kid].revoked = TRUE] /\ kid \in DOMAIN registry
      BY <1>7 DEF RevokeKey, RegistryChanges, Revoked
    <2>2. registry' \in [DOMAIN registry -> Key]
      BY <1>1, <2>1
    <2> QED  BY <1>1, <1>2, <2>2
  <1>8. CASE \E new \in work.keys : RotateKey(kid, new)
    <2>1. PICK new \in work.keys :
              /\ kid \in DOMAIN registry
              /\ registry' = Revoked(WithKey(new, registry[kid].agent), kid)
      BY <1>8 DEF RotateKey, RegistryChanges
    <2> DEFINE mid == WithKey(new, registry[kid].agent)
               K == DOMAIN registry \cup {new}
    <2>2. registry[kid].agent \in Agent /\ new \in Kid
      BY <1>1, <1>3, <2>1
    <2>3. mid \in [K -> Key] /\ K \in SUBSET Kid
      BY <1>4, <2>2
    <2>4. registry' = [mid EXCEPT ![kid].revoked = TRUE] /\ kid \in K
      BY <2>1 DEF Revoked
    <2> HIDE DEF mid, K
    <2>5. registry' \in [K -> Key]
      BY <2>3, <2>4
    <2> QED  BY <1>2, <2>3, <2>5
  <1> QED  BY <1>5, <1>6, <1>7, <1>8

Typing ==
    /\ registry \in KeyTable /\ Bounded /\ Holders /\ Runners

LEMMA InitTyped == Init => Typing
  <1> SUFFICES ASSUME Init  PROVE Typing
    OBVIOUS
  <1>1. /\ registry = FirstKeys /\ seenNonces = <<>> /\ seenIds = <<>> /\ stack = <<>>
        /\ live = Ceiling /\ restricted = [a \in Agent |-> {}]
        /\ lock = [c \in Client |-> Nobody] /\ conn = [k \in Conn |-> Unused]
    BY DEF Init, GovInit
  <1>2. Kept(<<>>, Nonces, MaxSeenNonces) /\ Kept(<<>>, Ids, ProposalLogMax)
    BY CapAssumption DEF Kept, IsInjective
  <1>3. Ceilinged
    <2>1. \A a \in Agent : Ceiling[a] \in Nat
      BY CeilingAssumption
    <2> QED  BY <1>1, <2>1 DEF Ceilinged
  <1>4. Expiring(restricted, stepCount)
    BY <1>1 DEF Expiring
  <1>5. Len(stack) <= MaxNesting
    BY <1>1, CapAssumption
  <1>6. Holders
    BY <1>1 DEF Holders, Holds
  <1>7. Runners
    BY <1>1 DEF Runners, Runner, Unused
  <1> QED  BY <1>1, <1>2, <1>3, <1>4, <1>5, <1>6, <1>7, KeysAssumption DEF Typing, Bounded

LEMMA TypingKeeps ==
    ASSUME Inv, Sessions, Grants, Remembered, Spent, Typing, [Next]_vars
    PROVE  Typing'
  <1>1. Sorts /\ OneThread /\ registry \in KeyTable /\ Bounded /\ Holders /\ Runners
    BY DEF Inv, Spent, Typing
  <1>2. UNCHANGED registry \/ Operator
    BY <1>1, StepGives
  <1>3. registry' \in KeyTable
    BY <1>1, <1>2, TableKeeps
  <1>4. Bounded'
    BY <1>1, ServiceOperates, OperatesBounded
  <1>5. Holders' /\ Runners'
    BY <1>1, HoldersKeep, RunnersKeep
  <1> QED  BY <1>3, <1>4, <1>5 DEF Typing

LEMMA GraphTypes ==
    ASSUME Remembered, Caution
    PROVE  Len(intent) <= IntentGraphMax /\ ToSet(intent) \subseteq Entry
  <1> DEFINE E == {EntryOf(y) : y \in Evaluation}
             u == Entries(history)
  <1>1. /\ Len(history) \in Nat /\ DOMAIN history = 1..Len(history)
        /\ \A j \in 1..Len(history) : EntryOf(history[j]) \in E
    <2>1. history \in Seq(Evaluation)
      BY DEF Remembered
    <2>2. Len(history) \in Nat /\ DOMAIN history = 1..Len(history)
      BY <2>1
    <2>3. ASSUME NEW j \in 1..Len(history)  PROVE history[j] \in Evaluation
      BY <2>1
    <2>4. ASSUME NEW j \in 1..Len(history)  PROVE EntryOf(history[j]) \in E
      BY <2>3
    <2> QED  BY <2>2, <2>4
  <1>2. u = [j \in 1..Len(history) |-> EntryOf(history[j])]
    BY <1>1 DEF Entries
  <1>3. E \subseteq Entry
    <2> SUFFICES ASSUME NEW y \in Evaluation  PROVE EntryOf(y) \in Entry
      OBVIOUS
    <2>1. y.agent \in Agent /\ y.topic \in Topics
      BY HasFields
    <2>2. Refuses(y) \in BOOLEAN
      BY DEF Refuses, Refusal
    <2> QED  BY <2>1, <2>2 DEF EntryOf, Entry, Topics
  <1> HIDE DEF E, u
  <1>4. u \in Seq(E)
    BY <1>1, <1>2
  <1>5. intent = LastN(u, IntentGraphMax)
    BY DEF Caution, Graph, u
  <1>6. intent \in Seq(E) /\ Len(intent) <= IntentGraphMax
    BY <1>4, <1>5, LastNIs, CapAssumption
  <1>7. ToSet(intent) \subseteq E
    BY <1>6 DEF ToSet
  <1> QED  BY <1>3, <1>6, <1>7

LEMMA KeptIs ==
    ASSUME NEW s, NEW S, NEW n, Kept(s, S, n)
    PROVE  ToSet(s) \subseteq S /\ Len(s) <= n /\ IsInjective(s)
  BY DEF Kept, ToSet

LEMMA TypingHolds == Spec => [](Typing /\ Grants)
  <1>1. Init => Typing /\ Grants
    BY InitTyped, CeilingAssumption DEF Init, GovInit, Grants
  <1>2. Inv /\ Sessions /\ Grants /\ Remembered /\ Spent /\ Typing /\ [Next]_vars =>
            Grants' /\ Typing'
    BY TypingKeeps, StepGives DEF Inv
  <1> QED
    BY <1>1, <1>2, ServiceInvariant, SessionsHold, MemoryInvariant, SpentHolds, PTL DEF Spec

(* The service keeps its types, the bounds of its memory among them: the   *)
(* caches and the graph stay within their caps, an agent holds no more     *)
(* than its ceiling, a lock is held by a caller that waits, and what is on *)
(* the stack is run by a thread that has a request to answer.              *)
THEOREM ServiceTypes == Spec => []TypeOK
  <1>1. Inv /\ Remembered /\ Caution /\ Typing => TypeOK
    <2> SUFFICES ASSUME Inv, Remembered, Caution, Typing  PROVE TypeOK
      OBVIOUS
    <2>1. Sorts /\ Callers /\ Bounded /\ Holders /\ Runners /\ registry \in KeyTable
      BY DEF Inv, Typing
    <2>2. GovTypeOK
      <3>1. /\ ToSet(seenNonces) \subseteq {NonceKey(p) : p \in Proposal}
            /\ ToSet(seenIds) \subseteq {p.id : p \in Proposal}
            /\ Len(seenNonces) <= MaxSeenNonces /\ Len(seenIds) <= ProposalLogMax
            /\ IsInjective(seenNonces) /\ IsInjective(seenIds)
        BY <2>1, KeptIs DEF Bounded, Nonces, Ids
      <3>2. \A a \in Agent : live[a] \in 0..Ceiling[a]
        BY <2>1, CeilingAssumption DEF Remembered, Bounded, Ceilinged
      <3>3. \A a \in Agent : \A e \in restricted[a] : e <= stepCount + RestrictTtlSteps
        BY <2>1 DEF Bounded, Expiring
      <3>4. Len(intent) <= IntentGraphMax /\ ToSet(intent) \subseteq Entry
        BY GraphTypes
      <3>5. Len(stack) <= MaxNesting
        BY <2>1 DEF Bounded
      <3> QED  BY <2>1, <3>1, <3>2, <3>3, <3>4, <3>5 DEF GovTypeOK
    <2>3. \A k \in Conn : conn[k].pc \in
              {"none", "queued", "auth", "reading", "running", "closed"}
      BY <2>1 DEF Sorts, Connection, Stage
    <2>4. \A c \in Client : lock[c] # Nobody => waiting[lock[c]] # NoCall
      BY <2>1 DEF Holders, Holds
    <2>5. \A u \in User : waiting[u].on # NoConn => conn[waiting[u].on].client = ClientOf[u]
      BY <2>1 DEF Callers, Bound, NoCall
    <2>6. \A i \in DOMAIN stack : conn[stack[i].thread].pc = "running"
      <3> SUFFICES ASSUME NEW i \in DOMAIN stack
                   PROVE  conn[stack[i].thread].pc = "running"
        OBVIOUS
      <3>1. stack[i] \in Execution
        BY DEF Remembered
      <3>2. stack[i].thread \in Conn
        BY <3>1, FrameFields
      <3> QED  BY <2>1, <3>2 DEF Runners, Runner
    <2>7. joining \subseteq User
      BY <2>1 DEF Sorts
    <2> QED  BY <2>2, <2>3, <2>4, <2>5, <2>6, <2>7 DEF TypeOK
  <1> QED
    BY <1>1, ServiceInvariant, MemoryInvariant, CautionHolds, TypingHolds, PTL

(* Under any mixture of the threads of any clients, tokens and first frames*)
(* in any order, an agent's units are replaced only at the word of the     *)
(* client whose frame is dispatched in that step, and its own token is an  *)
(* admin's or names an agent that holds as many; or by a boundary that     *)
(* runs (_dispatch, _caller_may_act_as, register_delegation).              *)
THEOREM GrantsNeedTitle == Spec => GrantsAreEntitled
  <1>1. ASSUME Inv, Sessions, Grants, Typing, [Next]_vars
        PROVE  \A a \in Agent : published'[a] # published[a] =>
                   \/ \E k \in Conn :
                          /\ conn[k].pc = "reading" /\ conn'[k].in # conn[k].in
                          /\ Entitled(k, published'[a].units)
                   \/ stack # <<>> /\ conn' = conn
    <2>1. ByRight
      BY <1>1, StepGives DEF Inv
    <2>2. \A k \in Conn : conn[k].pc = "running" => stack # <<>>
      BY <1>1 DEF Typing, Runners, Runner
    <2> QED  BY <2>1, <2>2 DEF ByRight, Asks
  <1>2. Inv /\ Sessions /\ Grants /\ Typing /\ [Next]_vars =>
            [\A a \in Agent : published'[a] # published[a] =>
                 \/ \E k \in Conn :
                        /\ conn[k].pc = "reading" /\ conn'[k].in # conn[k].in
                        /\ Entitled(k, published'[a].units)
                 \/ stack # <<>> /\ conn' = conn]_vars
    BY <1>1
  <1> QED
    BY <1>2, ServiceInvariant, SessionsHold, TypingHolds, PTL DEF Spec, GrantsAreEntitled

==============================================================================
