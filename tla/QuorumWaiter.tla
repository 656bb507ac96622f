---------------------------- MODULE QuorumWaiter ----------------------------
(***************************************************************************)
(* QuorumWaiter of utils/websocket_interaction.go: a round asks the quorum *)
(* to sign something (a topic) and returns when a majority has given valid *)
(* answers, or not in time.                                                *)
(*                                                                         *)
(* Every request is a goroutine that outlives its round.  Its answer goes  *)
(* to responseCh, which the rounds of a waiter share; its error marks the  *)
(* peer as failed and, a step later, takes the peer's connection out of    *)
(* the map, whichever connection is there by then.  Answers are validated  *)
(* by goroutines that outlive the round as well.  The connections of failed*)
(* peers are dialed again at the end of a round.                           *)
(***************************************************************************)
EXTENDS CoreQuorum

CONSTANTS
    Topic,            \* what the quorum is asked to sign
    MaxConnections,   \* bound: connections to one peer
    MaxTrouble        \* bound: failures, late answers, refusals, crashes

ASSUME WaiterAssumption == MaxConnections \in Nat \ {0} /\ MaxTrouble \in Nat

VARIABLES
    reachable,   \* peers that can be dialed, the same all the time
    phase,       \* "idle", "waiting" for answers, "reconnecting"
    topic,       \* of the round
    success,     \* whether the round has got its majority
    answered,    \* peers with an answer, which get no further request
    valid,       \* validResponses of the round
    failed,      \* peers whose connection is to be made anew
    redial,      \* those of them that reconnectFailed has still to look at
    conns,       \* wsConnMap: the number of the peer's connection, 0 if none
    dialed,      \* number of the last connection that was made to the peer
    closed,      \* connections that have been closed
    calls,       \* requests under way
    inbox,       \* responseCh
    checks,      \* answers that are being validated
    signed,      \* what the honest peers have signed
    trouble

roundVars == <<reachable, phase, topic, success, answered, valid, failed,
               redial>>
connVars  == <<conns, dialed, closed>>
waiterVars == <<roundVars, connVars, calls, inbox, checks, signed, trouble>>

ConnNr   == 0 .. MaxConnections
Call     == [peer : Quorum, conn : ConnNr, topic : Topic, failing : BOOLEAN]

\* A refusal, or whatever else does not verify, has no topic.
NoTopic  == 0
Reply    == [peer : Quorum, signer : Quorum, topic : Topic \cup {NoTopic}]
Check    == [reply : Reply, topic : Topic]

WaiterTypeOK ==
    /\ reachable \subseteq Quorum
    /\ phase \in {"idle", "waiting", "reconnecting"}
    /\ topic \in Topic \cup {NoTopic}
    /\ success \in BOOLEAN
    /\ answered \subseteq Quorum
    /\ valid \subseteq Reply
    /\ failed \subseteq Quorum
    /\ redial \subseteq Quorum
    /\ conns \in [Quorum -> ConnNr]
    /\ dialed \in [Quorum -> ConnNr]
    /\ closed \subseteq Quorum \X ConnNr
    /\ calls \subseteq Call
    /\ inbox \subseteq Reply
    /\ checks \subseteq Check
    /\ signed \subseteq Honest \X Topic
    /\ trouble \in 0 .. MaxTrouble

FirstConns(S) == [p \in Quorum |-> IF p \in S THEN 1 ELSE 0]

\* OpenWebsocketConnectionsWithQuorum and NewQuorumWaiter
WaiterInit ==
    /\ reachable \in {S \in SUBSET Quorum : Honest \subseteq S}
    /\ phase = "idle"
    /\ topic = NoTopic
    /\ success = FALSE
    /\ answered = {}
    /\ valid = {}
    /\ failed = {}
    /\ redial = {}
    /\ conns = FirstConns(reachable)
    /\ dialed = conns
    /\ closed = {}
    /\ calls = {}
    /\ inbox = {}
    /\ checks = {}
    /\ signed = {}
    /\ trouble = 0

Trouble == trouble < MaxTrouble /\ trouble' = trouble + 1

\* The same, in a process that starts again.
NewWaiter ==
    /\ phase' = "idle"
    /\ topic' = NoTopic
    /\ success' = FALSE
    /\ answered' = {} /\ valid' = {} /\ failed' = {} /\ redial' = {}
    /\ conns' = FirstConns(reachable)
    /\ dialed' = conns'
    /\ closed' = {} /\ calls' = {} /\ inbox' = {} /\ checks' = {}
    /\ UNCHANGED <<reachable, signed>>

-----------------------------------------------------------------------------
(* The round *)

\* Mutation: peers without a connection are passed over silently.
MissingConns(targets) == {}

\* Peers without a connection, which are to be reconnected.
WithoutConn(targets) == {p \in targets : conns[p] = 0}

\* sendMessages.  A request that repeats one which is still under way on the
\* same connection waits behind it, and is not told from it.
NewCalls(targets, t) ==
    {[peer |-> p, conn |-> conns[p], topic |-> t, failing |-> FALSE] :
        p \in {q \in targets : conns[q] # 0}}

\* The state of the waiter is reset, what is in responseCh stays.
StartRound(t) ==
    /\ phase = "idle"
    /\ phase' = "waiting"
    /\ topic' = t
    /\ answered' = {} /\ valid' = {}
    /\ failed' = WithoutConn(Quorum)
    /\ calls' = calls \cup NewCalls(Quorum, t)
    /\ UNCHANGED <<reachable, success, redial, connVars, inbox, checks, signed,
                   trouble>>

\* The timer: peers without an answer are asked again.
Resend ==
    /\ phase = "waiting"
    /\ failed' = failed \cup WithoutConn(Quorum \ answered)
    /\ calls' = calls \cup NewCalls(Quorum \ answered, topic)
    /\ UNCHANGED <<reachable, phase, topic, success, answered, valid, redial,
                   connVars, inbox, checks, signed, trouble>>

\* An answer is taken from responseCh.
Receive(r) ==
    /\ phase = "waiting"
    /\ inbox' = inbox \ {r}
    /\ answered' = answered \cup {r.peer}
    /\ checks' = checks \cup {[reply |-> r, topic |-> topic]}
    /\ UNCHANGED <<reachable, phase, topic, success, valid, failed, redial,
                   connVars, calls, signed, trouble>>

\* Mutation: an answer counts whatever round it was given in.
IsAnySignature(r, t) == r.topic # NoTopic

\* The callback "validate": a signature of a member for the round's topic.
\* Whose signature it is, is not compared with the peer that has sent it.
IsValid(r, t) == r.topic = t

\* The goroutine that validates an answer.  The first valid one of a peer is
\* kept, a peer with an invalid one is asked again, even in the next round.
FinishCheck(c) ==
    /\ checks' = checks \ {c}
    /\ IF IsValid(c.reply, c.topic)
       THEN /\ valid' = IF \E r \in valid : r.peer = c.reply.peer
                        THEN valid ELSE valid \cup {c.reply}
            /\ UNCHANGED answered
       ELSE answered' = answered \ {c.reply.peer} /\ UNCHANGED valid
    /\ UNCHANGED <<reachable, phase, topic, success, failed, redial, connVars,
                   calls, inbox, signed, trouble>>

HasMajority == Cardinality({r.peer : r \in valid}) >= GetQuorumMajority

\* What is still being validated cannot count any more.
CloseRound(ok) ==
    /\ phase' = "reconnecting"
    /\ success' = ok
    /\ redial' = failed
    /\ failed' = {}
    /\ checks' = {c \in checks : ~IsValid(c.reply, c.topic)}
    /\ UNCHANGED <<reachable, topic, answered, valid, connVars, calls, inbox,
                   signed>>

CompleteRound ==
    /\ phase = "waiting"
    /\ HasMajority
    /\ CloseRound(TRUE)
    /\ UNCHANGED trouble

\* Nothing is under way that could still bring the majority.
IsQuiet ==
    /\ calls = {} /\ inbox = {} /\ checks = {}
    /\ \A p \in Quorum \ answered : conns[p] = 0

\* The deadline, or a tick of the timer while everybody's answer is still
\* being validated.
FailRound ==
    /\ phase = "waiting"
    /\ ~HasMajority
    /\ CloseRound(FALSE)
    /\ IF IsQuiet THEN UNCHANGED trouble ELSE Trouble

\* reconnectOnce: the new connection takes the place of the old one ...
Reconnect(p) ==
    /\ p \in redial \cap reachable
    /\ dialed[p] < MaxConnections
    /\ redial' = redial \ {p}
    /\ dialed' = [dialed EXCEPT ![p] = @ + 1]
    /\ conns' = [conns EXCEPT ![p] = dialed[p] + 1]
    /\ closed' = IF conns[p] = 0 THEN closed ELSE closed \cup {<<p, conns[p]>>}
    /\ UNCHANGED <<reachable, phase, topic, success, answered, valid, failed,
                   calls, inbox, checks, signed, trouble>>

\* ... unless it was tried less than five seconds ago, or cannot be made.
SkipReconnect(p) ==
    /\ p \in redial
    /\ redial' = redial \ {p}
    /\ IF p \in reachable THEN Trouble ELSE UNCHANGED trouble
    /\ UNCHANGED <<reachable, phase, topic, success, answered, valid, failed,
                   connVars, calls, inbox, checks, signed>>

RoundReturns == phase = "reconnecting" /\ redial = {}

-----------------------------------------------------------------------------
(* The goroutines of sendMessages *)

\* After the round the answer may be dropped.  Then, and when responseCh is
\* full, its goroutine may also wait for the next round.
Deliver(r) ==
    \/ Cardinality(inbox) < Cardinality(Quorum) /\ inbox' = inbox \cup {r}
    \/ phase = "idle" /\ UNCHANGED inbox

IsOpen(c) == ~c.failing /\ <<c.peer, c.conn>> \notin closed

Sign(c) ==
    /\ c.peer \in Honest
    /\ signed' = signed \cup {<<c.peer, c.topic>>}
    /\ Deliver([peer |-> c.peer, signer |-> c.peer, topic |-> c.topic])
    /\ UNCHANGED trouble

\* The peer is not ready.
Refuse(c) ==
    /\ Deliver([peer |-> c.peer, signer |-> c.peer, topic |-> NoTopic])
    /\ Trouble
    /\ UNCHANGED signed

\* A faulty peer signs, or answers with a signature it has got from another.
SignAnyhow(c) ==
    /\ c.peer \in Faulty
    /\ \E s \in Quorum :
          /\ s \in Faulty \/ <<s, c.topic>> \in signed
          /\ Deliver([peer |-> c.peer, signer |-> s, topic |-> c.topic])
    /\ UNCHANGED <<signed, trouble>>

Answer(c) ==
    /\ IsOpen(c)
    /\ Sign(c) \/ Refuse(c) \/ SignAnyhow(c)
    /\ calls' = calls \ {c}
    /\ UNCHANGED <<roundVars, connVars, checks>>

\* An error of the connection, which others may have closed: the peer is marked,
Break(c) ==
    /\ ~c.failing
    /\ IF IsOpen(c) THEN Trouble ELSE UNCHANGED trouble
    /\ failed' = failed \cup {c.peer}
    /\ calls' = (calls \ {c}) \cup {[c EXCEPT !.failing = TRUE]}
    /\ UNCHANGED <<reachable, phase, topic, success, answered, valid, redial,
                   connVars, inbox, checks, signed>>

\* and then its connection goes, although it may be another one by now.
DropConnection(c) ==
    /\ c.failing
    /\ closed' = closed \cup {<<c.peer, c.conn>>}
    /\ conns' = [conns EXCEPT ![c.peer] = 0]
    /\ calls' = calls \ {c}
    /\ UNCHANGED <<roundVars, dialed, inbox, checks, signed, trouble>>

WaiterStep ==
    \/ Resend
    \/ \E r \in inbox : Receive(r)
    \/ \E c \in checks : FinishCheck(c)
    \/ CompleteRound \/ FailRound
    \/ \E p \in redial : Reconnect(p) \/ SkipReconnect(p)
    \/ \E c \in calls : Answer(c) \/ Break(c) \/ DropConnection(c)
=============================================================================
