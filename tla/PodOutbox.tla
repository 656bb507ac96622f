----------------------------- MODULE PodOutbox -----------------------------
(***************************************************************************)
(* How messages get to the point of distribution (PoD).                    *)
(*                                                                         *)
(* A thread that has something for the PoD asks for its acknowledgement;   *)
(* what is not acknowledged is written to the outbox in the database, from *)
(* which PoDOutboxThread, the flusher, tries again every second.  It and a *)
(* thread that has made a message anew may have the same message on its    *)
(* way at the same time, and what becomes of the entry is decided by each  *)
(* one when its own answer is there.                                       *)
(*                                                                         *)
(* Payloads with the same outbox id carry proofs of the same fact, so a    *)
(* message is identified with its outbox id.                               *)
(***************************************************************************)
CONSTANTS
    Sender,     \* nodes
    Thread,     \* their threads that send to the PoD, the flusher is extra
    Message     \* outbox ids

VARIABLES
    pod,        \* what the PoD has accepted (external)
    outbox,     \* POD_OUTBOX entries in the database
    sends,      \* answered or failed sends whose thread has not yet touched the
                \* outbox, at most one for each thread
    flushing    \* the flusher's iterator: entries it found and has still to send

Flusher == "flusher"

Send == [thread : Thread \cup {Flusher}, message : Message, acked : BOOLEAN]

OutboxTypeOK ==
    /\ pod \subseteq Message
    /\ outbox \in [Sender -> SUBSET Message]
    /\ sends \in [Sender -> SUBSET Send]
    /\ flushing \in [Sender -> SUBSET Message]

OutboxInit ==
    /\ pod = {}
    /\ outbox = [n \in Sender |-> {}]
    /\ sends = [n \in Sender |-> {}]
    /\ flushing = [n \in Sender |-> {}]

IsSending(n, thread) == \E s \in sends[n] : s.thread = thread

\* PodClient.Send with its retries: the PoD may have accepted the message
\* although its acknowledgement was lost.
SendToPoD(n, thread, x) ==
    /\ ~IsSending(n, thread)
    /\ \E accepted, acked \in BOOLEAN :
          /\ acked => accepted
          /\ pod' = IF accepted THEN pod \cup {x} ELSE pod
          /\ sends' = [sends EXCEPT ![n] = @ \cup
                {[thread |-> thread, message |-> x, acked |-> acked]}]
    /\ UNCHANGED outbox

\* Mutation: the entry goes whatever the answer was.
OutboxAfterAnySend(entries, s) == entries \ {s.message}

\* The acknowledged message leaves the outbox, the other one is in it now.
OutboxAfterSend(entries, s) ==
    IF s.acked THEN entries \ {s.message} ELSE entries \cup {s.message}

\* The second half of SendToPoDWithOutbox.
FinishSend(n, thread) ==
    \E s \in sends[n] :
        /\ s.thread = thread
        /\ outbox' = [outbox EXCEPT ![n] = OutboxAfterSend(@, s)]
        /\ sends' = [sends EXCEPT ![n] = @ \ {s}]
        /\ UNCHANGED <<pod, flushing>>

QueuePoDOutbox(n, x) ==
    /\ outbox' = [outbox EXCEPT ![n] = @ \cup {x}]
    /\ UNCHANGED <<pod, sends, flushing>>

\* FlushPoDOutboxOnce goes over the entries as they are at its beginning, ...
BeginFlush(n) ==
    /\ flushing[n] = {} /\ ~IsSending(n, Flusher)
    /\ outbox[n] # {}
    /\ flushing' = [flushing EXCEPT ![n] = outbox[n]]
    /\ UNCHANGED <<pod, outbox, sends>>

\* ... and sends each one, even if another thread has deleted it meanwhile.
\* Those that fail do not count for its limit.
FlushPoDOutbox(n) ==
    \E x \in flushing[n] :
        /\ SendToPoD(n, Flusher, x)
        /\ flushing' = [flushing EXCEPT ![n] = @ \ {x}]

\* A crash: sends that are on their way are forgotten, the entries are not.
LoseSends(n) ==
    /\ sends' = [sends EXCEPT ![n] = {}]
    /\ flushing' = [flushing EXCEPT ![n] = {}]
    /\ UNCHANGED <<pod, outbox>>
=============================================================================
