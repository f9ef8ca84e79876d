------------------------------- MODULE MCService -------------------------------
(* Two threads share the client of one agent, an operator has its own. *)
EXTENDS Service

CONSTANTS a1, a2, n1, n2, k1, k2, u1, u2, u3, c1, c2

Units == (a1 :> 1) @@ (a2 :> 3)
Ask(a, nonce, id, topic, kid) ==
    [agent |-> a, nonce |-> nonce, id |-> id, topic |-> topic, confidence |-> 90,
     kid |-> kid, lawful |-> TRUE]

(* Signed ones on two topics; one that replays a nonce, with less than     *)
(* the confidence it takes to be held against a refusal; one of another    *)
(* agent; one unlawful.                                                    *)
Signed == {Ask(a1, n1, 1, "s", k1), Ask(a1, n2, 2, "t", k1)}
Unsigned == {[Ask(a1, n1, 3, "t", NoKid) EXCEPT !.confidence = 40],
             Ask(a2, NoNonce, 4, "t", NoKid)}
Unlawful == [Ask(a1, NoNonce, 5, "s", NoKid) EXCEPT !.lawful = FALSE]
Proposals == Signed \cup Unsigned \cup {Unlawful}

(* What is refused under one topic just reaches reentry_medium under the   *)
(* other; the proposal of less confidence is let by under both.            *)
Likeness == [pair \in {"s", "t"} \X {"s", "t"} |-> IF pair[1] = pair[2] THEN 100 ELSE 50]
OneKey == k1 :> [agent |-> a1, revoked |-> FALSE]

(* The governor's own vote, alone or with a peer's; or the transport fails.*)
Vote(g, d) == [governor |-> g, decision |-> d, weight |-> 1]
OwnAndPeer == {{}, {Vote("own", "CONTINUE")}, {Vote("own", "CONTINUE"), Vote("peer", "RESTRICT")}}

Threads == {u1, u2, u3}
Clients == {c1, c2}
SharedClient == [u \in Threads |-> IF u = u3 THEN c2 ELSE c1]
Tokens == (c1 :> "agent") @@ (c2 :> "admin")
Callers == ("agent" :> [agent |-> a1, admin |-> FALSE]) @@
           ("admin" :> [agent |-> Nobody, admin |-> TRUE])
Give(from, to, units) ==
    [op |-> "delegate", about |-> [from |-> from, to |-> to, units |-> units]]
Evaluations(ps) == {[op |-> "evaluate", about |-> p] : p \in ps}
Quiet == [users |-> Threads, calls |-> 4, requests |-> {}, proposals |-> {},
          evaluations |-> 0, signals |-> {"CONTINUE"}, grants |-> {}, keys |-> {},
          stops |-> FALSE]

(* In front: two threads of one client; two clients, and stop; one thread, *)
(* and an operator that changes keys.                                      *)
Requests == {Give(a1, a2, 1), Give(a2, a2, 2), [op |-> "revoke", about |-> a1]}
Sharing == [Quiet EXCEPT !.users = {u1, u2}, !.calls = 3, !.requests = Requests]
Stopping == [Quiet EXCEPT !.users = {u1, u3}, !.calls = 3, !.stops = TRUE,
                 !.requests = {Give(a2, a2, 2), [op |-> "revoke", about |-> a1]}]
Rotation == [Quiet EXCEPT !.users = {u1}, !.calls = 3, !.evaluations = 2,
                 !.requests = Evaluations(Signed) \cup {[op |-> "ping", about |-> Nobody]},
                 !.keys = {k1, k2}]

(* Behind: one thread whose boundary goes on to evaluate; one whose        *)
(* boundary also delegates and revokes; one that times out, connects again *)
(* and asks for the same unit while its first request still runs.          *)
Nesting == [Quiet EXCEPT !.users = {u1}, !.calls = 2, !.requests = Evaluations(Proposals),
                !.proposals = Proposals, !.evaluations = 4,
                !.signals = {"CONTINUE", "RECHECK", "RESTRICT"}]
Granting == [Quiet EXCEPT !.users = {u1}, !.calls = 2, !.evaluations = 3,
                 !.requests = Evaluations(Signed), !.proposals = Proposals,
                 !.grants = {Give(a2, a1, 1), Give(a1, a2, 1),
                             [op |-> "revoke", about |-> a1]}]
Rivals == [Quiet EXCEPT !.users = {u1}, !.requests = Evaluations(Signed),
               !.evaluations = 2]
Loads == {Sharing, Stopping, Rotation, Nesting, Granting, Rivals}
==============================================================================
