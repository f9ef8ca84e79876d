-------------------------------- MODULE Service --------------------------------
(***************************************************************************)
(* The Unix-socket service in front of a governor in memory: client        *)
(* objects, each shared by threads of its process, the accept loop, and    *)
(* one thread for each connection it has taken in.  A frame is delivered   *)
(* whole and in order, and a call reads its answer from the socket it wrote*)
(* to; a snapshot is served like a ping.                                   *)
(***************************************************************************)
EXTENDS MemoryGovernor

(* A workload also says which users make how many calls, with what, and    *)
(* whether the server is stopped.                                          *)
CONSTANTS
    User,             \* threads that call a client
    Client,           \* GovernorClient objects
    ClientOf,         \* the client each user calls
    TokenOf,          \* each client's token
    Identity,         \* the tokens of the server, and whom each stands for
    Conn,             \* 1..n, the connections in the order they are made
    MaxConnections,
    NoConn, Nobody

ASSUME ClientAssumption == ClientOf \in [User -> Client] /\ Nobody \notin User
ASSUME ConnAssumption ==
    Conn \subseteq Nat /\ IsFiniteSet(Conn) /\ NoConn \notin Conn
ASSUME LimitAssumption == MaxConnections \in Nat
ASSUME WorkloadAssumption == \A w \in Workload : w.users \subseteq User
ASSUME RequestAssumption ==
    \A w \in Workload : \A r \in w.requests :
        /\ r.op # "auth"
        /\ r.op = "evaluate" => r.about \in Proposal
ASSUME GrantAssumption ==
    \A w \in Workload : \A r \in w.requests \cup w.grants :
        /\ r.op = "revoke" => r.about \in Agent
        /\ r.op = "delegate" =>
               /\ r.about.from \in Agent /\ r.about.to \in Agent /\ r.about.units \in Nat

VARIABLES
    sock,      \* _sock of each client
    lock,      \* who holds a client's lock
    ids,       \* the last id a client has drawn
    joining,   \* users in connect, with a socket and before the token is sent
    waiting,   \* the call each user has under way
    conn,      \* each connection: where its thread is, whom it serves, the
               \* frames on their way, and whether the client's end is open
    slots,     \* _conn_slots
    accepting, \* the accept loop runs
    stopped,   \* _stop
    leaked,    \* slots taken for threads that did not start (ghost)
    late,      \* connections on which a call has timed out (ghost)
    crossed,   \* connections on which a call took another's answer (ghost)
    after      \* requests each connection has read since _stop (ghost)

clientVars == <<sock, lock, ids, joining, waiting, late, crossed>>
serverVars == <<slots, accepting, stopped, leaked, after>>
vars == <<govVars, clientVars, conn, serverVars>>

NoCall == [id |-> 0, op |-> "none", on |-> NoConn]
Unserved == [agent |-> Nobody, admin |-> FALSE]
Unused == [pc |-> "none", client |-> Nobody, caller |-> Unserved, open |-> FALSE,
           in |-> <<>>, out |-> <<>>]

Init ==
    /\ GovInit
    /\ sock = [c \in Client |-> NoConn] /\ lock = [c \in Client |-> Nobody]
    /\ ids = [c \in Client |-> 0] /\ joining = {} /\ waiting = [u \in User |-> NoCall]
    /\ conn = [k \in Conn |-> Unused]
    /\ slots = MaxConnections /\ accepting = TRUE /\ stopped = FALSE
    /\ leaked = 0 /\ late = {} /\ crossed = {} /\ after = [k \in Conn |-> 0]
------------------------------------------------------------------------------
(* GovernorClient.  Seeded fault: its lock is left out. *)
NeverLocked(c) == FALSE

Locked(c) == lock[c] # Nobody

MayCall(u) ==
    /\ waiting[u] = NoCall /\ ~ Locked(ClientOf[u])
    /\ FoldFunction(+, 0, ids) < work.calls

(* _roundtrip: under the lock, an id is drawn and the frame written.       *)
Sends(u, k, op) ==
    LET c == ClientOf[u]
    IN  /\ ids' = [ids EXCEPT ![c] = @ + 1]
        /\ lock' = [lock EXCEPT ![c] = u]
        /\ waiting' = [waiting EXCEPT ![u] = [id |-> ids[c] + 1, op |-> op, on |-> k]]
        /\ UNCHANGED <<govVars, late, crossed, serverVars>>

Frame(u, request) == [id |-> ids[ClientOf[u]] + 1, request |-> request]

(* connect finds the server's socket until stop has closed it, whether or  *)
(* not anyone accepts.  It takes no lock, and other threads see the socket *)
(* at once.                                                                *)
Connect(u) ==
    LET c == ClientOf[u]
    IN  /\ waiting[u] = NoCall /\ u \notin joining /\ sock[c] = NoConn
        /\ accepting \/ ~ stopped
        /\ \E k \in Conn :
               /\ \A i \in Conn : conn[i].pc = "none" <=> i >= k
               /\ sock' = [sock EXCEPT ![c] = k]
               /\ conn' = [conn EXCEPT ![k] =
                      [Unused EXCEPT !.pc = "queued", !.open = TRUE, !.client = c]]
        /\ joining' = joining \cup {u}
        /\ UNCHANGED <<govVars, lock, ids, waiting, late, crossed, serverVars>>

(* The frame goes out on what _sock is by now. *)
Writes(u, request) ==
    LET k == sock[ClientOf[u]]
    IN  /\ MayCall(u) /\ k # NoConn
        /\ conn[k].pc # "closed"
        /\ conn' = [conn EXCEPT ![k].in = Append(@, Frame(u, request))]
        /\ Sends(u, k, request.op) /\ UNCHANGED sock

(* The token is a call like others, and may find another's ahead of it.    *)
SendToken(u) ==
    /\ u \in joining /\ joining' = joining \ {u}
    /\ Writes(u, [op |-> "auth", token |-> TokenOf[ClientOf[u]]])

Call(u, request) ==
    /\ u \notin joining /\ UNCHANGED joining
    /\ Writes(u, request)

(* connect raises: the socket is closed, by another thread or the server.  *)
JoinFails(u) ==
    LET k == sock[ClientOf[u]]
    IN  /\ u \in joining /\ joining' = joining \ {u}
        /\ k # NoConn => conn[k].pc = "closed" /\ ~ Locked(ClientOf[u])
        /\ UNCHANGED <<govVars, sock, lock, ids, waiting, late, crossed, conn, serverVars>>

Freed(u) ==
    lock' = [lock EXCEPT ![ClientOf[u]] = IF @ = u THEN Nobody ELSE @]

HungUp(c) == sock' = [sock EXCEPT ![c] = NoConn]

(* read_frame takes what comes next, whichever call it answers.  A refused *)
(* token closes the socket.                                                *)
Receive(u) ==
    LET k == waiting[u].on
    IN  /\ waiting[u] # NoCall /\ conn[k].open /\ conn[k].out # <<>>
        /\ LET answer == Head(conn[k].out)
               refused == waiting[u].op = "auth" /\ ~ answer.ok
           IN  /\ conn' = [conn EXCEPT ![k].out = Tail(@), ![k].open = ~ refused]
               /\ crossed' = IF answer.id = waiting[u].id THEN crossed
                             ELSE crossed \cup {k}
               /\ IF refused THEN HungUp(ClientOf[u]) ELSE UNCHANGED sock
        /\ waiting' = [waiting EXCEPT ![u] = NoCall] /\ Freed(u)
        /\ UNCHANGED <<govVars, ids, joining, late, serverVars>>

(* Or it raises: the peer has closed, another thread has closed the        *)
(* socket, or the time is up, and then the socket stays as it is.          *)
Lost(u) ==
    LET k == waiting[u].on
    IN  /\ waiting[u] # NoCall
        /\ \/ ~ conn[k].open /\ UNCHANGED late
           \/ conn[k].out = <<>> /\ conn[k].pc = "closed" /\ UNCHANGED late
           \/ conn[k].out = <<>> /\ conn[k].open /\ late' = late \cup {k}
        /\ waiting' = [waiting EXCEPT ![u] = NoCall] /\ Freed(u)
        /\ UNCHANGED <<govVars, sock, ids, joining, crossed, conn, serverVars>>

(* close takes no lock. *)
Close(u) ==
    LET c == ClientOf[u]
    IN  /\ waiting[u] = NoCall /\ u \notin joining /\ sock[c] # NoConn
        /\ HungUp(c)
        /\ conn' = [conn EXCEPT ![sock[c]].open = FALSE, ![sock[c]].out = <<>>]
        /\ UNCHANGED <<govVars, lock, ids, joining, waiting, late, crossed, serverVars>>
------------------------------------------------------------------------------
(* The accept loop takes the next connection in, or turns it away when no  *)
(* slot is free.                                                           *)
NextInLine(k) == conn[k].pc = "queued" /\ \A i \in Conn : i < k => conn[i].pc # "queued"

Accept(k) ==
    /\ accepting /\ NextInLine(k)
    /\ conn' = [conn EXCEPT ![k].pc = IF slots > 0 THEN "auth" ELSE "closed"]
    /\ slots' = IF slots > 0 THEN slots - 1 ELSE slots
    /\ UNCHANGED <<govVars, clientVars, accepting, stopped, leaked, after>>

(* accept raises, for want of descriptors: the loop ends, nobody is told,  *)
(* and who waits goes on waiting.                                          *)
AcceptFails ==
    /\ accepting /\ \E k \in Conn : NextInLine(k)
    /\ accepting' = FALSE
    /\ UNCHANGED <<govVars, clientVars, conn, slots, stopped, leaked, after>>

(* Thread.start raises: nothing in the loop catches it, and the slot that  *)
(* was taken is never given back.                                          *)
ThreadFails(k) ==
    /\ accepting /\ NextInLine(k) /\ slots > 0
    /\ conn' = [conn EXCEPT ![k].pc = "closed"]
    /\ slots' = slots - 1 /\ leaked' = leaked + 1 /\ accepting' = FALSE
    /\ UNCHANGED <<govVars, clientVars, stopped, after>>

(* stop sets _stop; the loop sees it and the listening socket is closed,   *)
(* with the connections that still wait there.                             *)
Stop ==
    /\ work.stops /\ ~ stopped /\ stopped' = TRUE
    /\ UNCHANGED <<govVars, clientVars, conn, slots, accepting, leaked, after>>

StopListening ==
    /\ stopped
    /\ accepting \/ \E k \in Conn : conn[k].pc = "queued"
    /\ accepting' = FALSE
    /\ conn' = [k \in Conn |-> IF conn[k].pc = "queued"
                               THEN [conn[k] EXCEPT !.pc = "closed"] ELSE conn[k]]
    /\ UNCHANGED <<govVars, clientVars, slots, stopped, leaked, after>>
------------------------------------------------------------------------------
(* _serve_conn.  Seeded faults: the slot of a caller that is turned away   *)
(* is kept; _stop is not looked at.                                        *)
ReleasedServed(k) == slots' = IF conn[k].pc = "auth" THEN slots ELSE slots + 1
KeepsServing == "reading"

Released(k) == slots' = slots + 1
NextRound == IF stopped THEN "closed" ELSE "reading"

(* The answer is written and the loop goes round; writing to a client that *)
(* is gone ends the thread.                                                *)
Answers(k, ok, rest, caller) ==
    LET f == Head(conn[k].in)
        pc == IF conn[k].open THEN rest ELSE "closed"
    IN  /\ conn' = [conn EXCEPT
               ![k].in = Tail(@), ![k].caller = caller, ![k].pc = pc,
               ![k].out = IF conn[k].open THEN Append(@, [id |-> f.id, ok |-> ok]) ELSE @]
        /\ IF pc = "closed" THEN Released(k) ELSE UNCHANGED slots
        /\ UNCHANGED <<clientVars, accepting, stopped, leaked>>

Authenticate(k) ==
    /\ conn[k].pc = "auth" /\ conn[k].in # <<>>
    /\ LET r == Head(conn[k].in).request
       IN  IF r.op = "auth" /\ r.token \in DOMAIN Identity
           THEN Answers(k, TRUE, NextRound, Identity[r.token])
           ELSE Answers(k, FALSE, "closed", Unserved)
    /\ UNCHANGED <<govVars, after>>

(* Nothing has come for 30 seconds, or the peer has closed. *)
GivesUp(k) ==
    /\ conn[k].pc \in {"auth", "reading"} /\ conn[k].in = <<>>
    /\ conn' = [conn EXCEPT ![k].pc = "closed"]
    /\ Released(k)
    /\ UNCHANGED <<govVars, clientVars, accepting, stopped, leaked, after>>

(* A request is read and dispatched: in one step, for what happens between *)
(* the two is waiting for the governor's lock.                             *)
Reads(k, op) ==
    /\ conn[k].pc = "reading" /\ conn[k].in # <<>>
    /\ Head(conn[k].in).request.op = op
    /\ after' = IF stopped THEN [after EXCEPT ![k] = @ + 1] ELSE after

Replies(k, ok) == Answers(k, ok, NextRound, conn[k].caller)

(* A token is read again after the first frame: already_authenticated. *)
Ping(k) ==
    /\ Reads(k, "ping") \/ Reads(k, "auth")
    /\ Replies(k, TRUE) /\ UNCHANGED govVars

(* An evaluation that comes to its end on this thread. *)
Decided(k, p) ==
    Unheeded(k, p) \/ Denied(k, p) \/ \E d \in Decision : Refused(k, p, d)

Evaluate(k) ==
    LET p == Head(conn[k].in).request.about
    IN  /\ Reads(k, "evaluate")
        /\ \/ Decided(k, p) /\ Replies(k, TRUE)
           \/ /\ Executing(k, p)
              /\ conn' = [conn EXCEPT ![k].pc = "running"]
              /\ UNCHANGED <<clientVars, slots, accepting, stopped, leaked>>

(* The boundary that runs evaluates something itself, *)
Nested(k) ==
    /\ conn[k].pc = "running"
    /\ \E p \in work.proposals : Decided(k, p) \/ Executing(k, p)
    /\ UNCHANGED <<clientVars, conn, serverVars>>

(* or delegates or revokes, for it needs no token;    *)
NestedGrants(k) ==
    /\ conn[k].pc = "running"
    /\ \E r \in work.grants :
           \/ /\ r.op = "delegate"
              /\ \/ Delegate(k, r.about.from, r.about.to, r.about.units)
                 \/ DelegationRefused(k, r.about.from, r.about.units)
           \/ r.op = "revoke" /\ RevokeDelegation(k, r.about)
    /\ UNCHANGED <<clientVars, conn, serverVars>>

(* and it returns.                                    *)
Returns(k) ==
    /\ conn[k].pc = "running"
    /\ \E d \in Decision : Executed(k, d)
    /\ IF Len(stack) > 1 THEN UNCHANGED <<clientVars, conn, slots, accepting, stopped, leaked>>
       ELSE Replies(k, TRUE)
    /\ UNCHANGED after

(* Seeded fault: a caller bound to any agent may delegate as any other. *)
BoundToAny(caller, from) == caller.admin \/ caller.agent # Nobody

ActsAs(caller, from) == caller.admin \/ caller.agent = from

RegisterDelegation(k) ==
    LET r == Head(conn[k].in).request.about
    IN  /\ Reads(k, "delegate")
        /\ IF ActsAs(conn[k].caller, r.from)
           THEN /\ \/ Delegate(k, r.from, r.to, r.units)
                   \/ DelegationRefused(k, r.from, r.units)
                /\ Replies(k, TRUE)
           ELSE Replies(k, FALSE) /\ UNCHANGED govVars

Revoke(k) ==
    /\ Reads(k, "revoke")
    /\ IF conn[k].caller.admin
       THEN RevokeDelegation(k, Head(conn[k].in).request.about) /\ Replies(k, TRUE)
       ELSE Replies(k, FALSE) /\ UNCHANGED govVars

Next ==
    \/ \E u \in work.users :
           \/ Connect(u) \/ SendToken(u) \/ JoinFails(u)
           \/ Receive(u) \/ Lost(u) \/ Close(u)
           \/ \E r \in work.requests : Call(u, r)
    \/ \E k \in Conn :
           \/ Accept(k) \/ ThreadFails(k) \/ Authenticate(k) \/ GivesUp(k)
           \/ Ping(k) \/ Evaluate(k) \/ Nested(k) \/ NestedGrants(k) \/ Returns(k)
           \/ RegisterDelegation(k) \/ Revoke(k)
    \/ AcceptFails \/ Stop \/ StopListening
    \/ Operator /\ UNCHANGED <<clientVars, conn, serverVars>>

Spec == Init /\ [][Next]_vars
------------------------------------------------------------------------------
(* A lock is held by a user that waits, on a connection of its client.     *)
TypeOK ==
    /\ GovTypeOK
    /\ \A k \in Conn : conn[k].pc \in {"none", "queued", "auth", "reading", "running", "closed"}
    /\ \A c \in Client : lock[c] # Nobody => waiting[lock[c]] # NoCall
    /\ \A u \in User : waiting[u].on # NoConn => conn[waiting[u].on].client = ClientOf[u]
    /\ \A i \in DOMAIN stack : conn[stack[i].thread].pc = "running"
    /\ joining \subseteq User

(* Ids are drawn and checked nowhere, yet a call takes the answer to       *)
(* another only on a connection where a call has timed out before.         *)
AnswersBelong == crossed \subseteq late

(* max_connections bounds the threads that serve: a slot is given back on  *)
(* every way out, and one is lost only with the accept loop.               *)
SlotsConserved ==
    /\ slots + leaked
         + Cardinality({k \in Conn : conn[k].pc \in {"auth", "reading", "running"}})
         = MaxConnections
    /\ accepting => leaked = 0

(* A connection serves at most one request that it reads after stop().     *)
OneMoreAfterStop == \A k \in Conn : after[k] <= 1

(* What an agent holds is replaced only at the word of the client whose    *)
(* frame is dispatched in this very step, if the token that this client    *)
(* owns is an admin's or names an agent that holds as many units, however  *)
(* its threads' first frames and tokens were mixed; or by a boundary, at   *)
(* nobody's word.                                                          *)
Entitled(k, units) ==
    /\ TokenOf[conn[k].client] \in DOMAIN Identity
    /\ LET who == Identity[TokenOf[conn[k].client]]
       IN  who.admin \/ units <= live[who.agent]

GrantsAreEntitled ==
    [][\A a \in Agent : published'[a] # published[a] =>
           \/ \E k \in Conn :
                  /\ conn[k].pc = "reading" /\ conn'[k].in # conn[k].in
                  /\ Entitled(k, published'[a].units)
           \/ stack # <<>> /\ conn' = conn]_vars
==============================================================================
