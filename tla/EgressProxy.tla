------------------------------ MODULE EgressProxy ------------------------------
(***************************************************************************)
(* One connection of the egress proxy through which the shared browser     *)
(* reaches the network: handle_client reads the head of a request, checks  *)
(* and resolves its destination, connects, and lets two tasks copy bytes,  *)
(* one in each direction, until both have ended.                           *)
(*                                                                         *)
(* Each end is a peer of its own: it sends and takes chunks, ends its      *)
(* sending half, or is lost.  Data are counted, not looked at.  A closed   *)
(* transport first writes what is in its buffer; a lost one drops it.      *)
(***************************************************************************)
EXTENDS Sequences, Integers

CONSTANTS
    Destination,    \* [port, name: BOOLEAN, answer]: allowed or not, and what it resolves to
    MaxChunks,      \* bound: chunks that a peer sends
    Buffer,         \* chunks in a write buffer at which drain() waits
    Faults          \* ways to lose a peer: "reset" (a ConnectionError), "timeout" (an OSError)

ASSUME MaxChunksAssumption == MaxChunks \in Nat
ASSUME BufferAssumption == Buffer \in Nat \ {0}
ASSUME FaultsAssumption == Faults \subseteq {"reset", "timeout"}

VARIABLES
    pc,         \* where handle_client is
    tunnel,     \* the request is a CONNECT
    wanted,     \* the destination of the request
    copy,       \* where the pipe() is that reads from this end
    sock,       \* the transport to this end: "none", "open", "closing" or "closed"
    peer,       \* this end: "open", "ended" (its sending half), or how it was lost
    inbox,      \* chunks received from this end and not read
    outbox,     \* chunks written to this end that it has not taken
    sent,       \* history: chunks that this end has sent
    taken,      \* history: chunks that this end has taken
    said        \* history: the status lines written for the client

handlerVars == <<pc, tunnel, wanted>>
wireVars == <<sock, peer, inbox, outbox, sent, taken>>
proxyVars == <<handlerVars, copy, wireVars, said>>

End == {"client", "server"}
Other(e) == IF e = "client" THEN "server" ELSE "client"
Lost(e) == peer[e] \in Faults
Nowhere == [port |-> FALSE, name |-> FALSE, answer |-> {}]

ProxyInit ==
    /\ pc = "head" /\ tunnel = FALSE /\ wanted = Nowhere
    /\ copy = [e \in End |-> "off"]
    /\ sock = [client |-> "open", server |-> "none"]
    /\ peer = [e \in End |-> "open"]
    /\ inbox = [e \in End |-> 0] /\ outbox = [e \in End |-> 0]
    /\ sent = [e \in End |-> 0] /\ taken = [e \in End |-> 0]
    /\ said = <<>>

-----------------------------------------------------------------------------
(* The peers.                                                               *)

\* A transport that is being closed reads no more.
Send(e) ==
    /\ sock[e] = "open" /\ peer[e] = "open" /\ sent[e] < MaxChunks
    /\ sent' = [sent EXCEPT ![e] = @ + 1]
    /\ inbox' = [inbox EXCEPT ![e] = @ + 1]
    /\ UNCHANGED <<handlerVars, copy, sock, peer, outbox, taken, said>>

Finish(e) ==
    /\ sock[e] \in {"open", "closing"} /\ peer[e] = "open"
    /\ peer' = [peer EXCEPT ![e] = "ended"]
    /\ UNCHANGED <<handlerVars, copy, sock, inbox, outbox, sent, taken, said>>

Lose(e, how) ==
    /\ sock[e] \in {"open", "closing"} /\ ~Lost(e)
    /\ peer' = [peer EXCEPT ![e] = how]
    /\ sock' = [sock EXCEPT ![e] = "closed"]
    /\ outbox' = [outbox EXCEPT ![e] = 0]
    /\ UNCHANGED <<handlerVars, copy, inbox, sent, taken, said>>

\* The peer takes a chunk.
Take(e) ==
    /\ outbox[e] > 0
    /\ outbox' = [outbox EXCEPT ![e] = @ - 1]
    /\ taken' = [taken EXCEPT ![e] = @ + 1]
    /\ UNCHANGED <<handlerVars, copy, sock, peer, inbox, sent, said>>

\* A closing transport with an empty buffer is closed.
Flushed(e) ==
    /\ sock[e] = "closing" /\ outbox[e] = 0
    /\ sock' = [sock EXCEPT ![e] = "closed"]
    /\ UNCHANGED <<handlerVars, copy, peer, inbox, outbox, sent, taken, said>>

-----------------------------------------------------------------------------
(* Streams.                                                                 *)

\* What write() leaves in the buffer: nothing is written to a closed transport.
Written(e) == IF sock[e] = "closed" THEN outbox ELSE [outbox EXCEPT ![e] = @ + 1]

\* read() finds the end of the stream: the peer has ended, or the proxy has closed.
AtEnd(e) == inbox[e] = 0 /\ (peer[e] = "ended" \/ sock[e] = "closed")

\* drain() raises, or returns, or waits.
DrainRaises(e) == sock[e] = "closed"
DrainReturns(e) == ~DrainRaises(e) /\ outbox[e] < Buffer

\* A mutant: the transport is torn down with what is in its buffer.
Aborted(e) == [sock EXCEPT ![e] = IF @ = "none" THEN "none" ELSE "closed"]

Closed(e) == [sock EXCEPT ![e] = IF @ = "open" THEN "closing" ELSE @]

-----------------------------------------------------------------------------
(* handle_client.                                                           *)

Goto(from, to) == pc = from /\ pc' = to

\* A ProxyDenied, a malformed head, or a head that ends early; a lost client is an
\* OSError.
RefuseHead ==
    /\ \/ Lost("client") /\ Goto("head", "gateway")
       \/ ~Lost("client") /\ (inbox["client"] > 0 \/ AtEnd("client")) /\ Goto("head", "deny")
    /\ UNCHANGED <<tunnel, wanted, copy, wireVars, said>>

AcceptHead ==
    /\ ~Lost("client") /\ inbox["client"] > 0
    /\ Goto("head", "resolve")
    /\ inbox' = [inbox EXCEPT !["client"] = @ - 1]
    /\ tunnel' \in BOOLEAN
    /\ wanted' \in Destination
    /\ UNCHANGED <<copy, sock, peer, outbox, sent, taken, said>>

\* hostname_allowed and resolve_public: an unknown name is a gaierror, an OSError.
Permitted(d) == d.port /\ d.name
Resolve ==
    /\ pc = "resolve"
    /\ pc' = IF ~Permitted(wanted) THEN "deny"
             ELSE IF wanted.answer = {"unknown"} THEN "gateway"
             ELSE IF wanted.answer = {"public"} THEN "connect"
             ELSE "deny"
    /\ UNCHANGED <<tunnel, wanted, copy, wireVars, said>>

Connect ==
    /\ Goto("connect", "greet")
    /\ sock' = [sock EXCEPT !["server"] = "open"]
    /\ UNCHANGED <<tunnel, wanted, copy, peer, inbox, outbox, sent, taken, said>>

ConnectFails ==
    /\ Goto("connect", "gateway")
    /\ UNCHANGED <<tunnel, wanted, copy, wireVars, said>>

\* A tunnel is announced to the client, another request is passed on to the server.
Greeted == IF tunnel THEN "client" ELSE "server"
Greet ==
    /\ Goto("greet", "greeted")
    /\ outbox' = Written(Greeted)
    /\ said' = IF tunnel THEN Append(said, "200") ELSE said
    /\ UNCHANGED <<tunnel, wanted, copy, sock, peer, inbox, sent, taken>>

GreetFails ==
    /\ DrainRaises(Greeted)
    /\ Goto("greeted", "gateway")
    /\ UNCHANGED <<tunnel, wanted, copy, wireVars, said>>

StartCopies ==
    /\ DrainReturns(Greeted)
    /\ Goto("greeted", "gather")
    /\ copy' = [e \in End |-> "read"]
    /\ UNCHANGED <<tunnel, wanted, wireVars, said>>

Gathered ==
    /\ \A e \in End : copy[e] = "done"
    /\ Goto("gather", "finally")
    /\ UNCHANGED <<tunnel, wanted, copy, wireVars, said>>

\* gather() raises with the first copy that does; the other one goes on.
GatherRaises ==
    /\ \E e \in End : copy[e] = "raised"
    /\ Goto("gather", "gateway")
    /\ UNCHANGED <<tunnel, wanted, copy, wireVars, said>>

StatusOf(at) == IF at = "deny" THEN "403" ELSE "502"
SendError ==
    /\ pc \in {"deny", "gateway"}
    /\ pc' = "sorry"
    /\ outbox' = Written("client")
    /\ said' = Append(said, StatusOf(pc))
    /\ UNCHANGED <<tunnel, wanted, copy, sock, peer, inbox, sent, taken>>

\* Whether drain() returns or raises, the finally clause is next.
ErrorSent ==
    /\ DrainRaises("client") \/ DrainReturns("client")
    /\ Goto("sorry", "finally")
    /\ UNCHANGED <<tunnel, wanted, copy, wireVars, said>>

\* A mutant: the finally clause leaves the connection to the server to the copies.
CloseEndsClientOnly ==
    /\ Goto("finally", "wait")
    /\ sock' = Closed("client")
    /\ UNCHANGED <<tunnel, wanted, copy, peer, inbox, outbox, sent, taken, said>>

CloseEnds ==
    /\ Goto("finally", "wait")
    /\ sock' = [e \in End |-> Closed(e)[e]]
    /\ UNCHANGED <<tunnel, wanted, copy, peer, inbox, outbox, sent, taken, said>>

Done ==
    /\ sock["client"] = "closed"
    /\ Goto("wait", "done")
    /\ UNCHANGED <<tunnel, wanted, copy, wireVars, said>>

-----------------------------------------------------------------------------
(* pipe(), from end e to the other one.                                     *)

CopyGoto(e, from, to) == copy[e] = from /\ copy' = [copy EXCEPT ![e] = to]

CopyChunk(e) ==
    /\ ~Lost(e) /\ inbox[e] > 0
    /\ CopyGoto(e, "read", "drain")
    /\ inbox' = [inbox EXCEPT ![e] = @ - 1]
    /\ outbox' = Written(Other(e))
    /\ UNCHANGED <<handlerVars, sock, peer, sent, taken, said>>

CopyDrained(e) ==
    /\ DrainReturns(Other(e))
    /\ CopyGoto(e, "drain", "read")
    /\ UNCHANGED <<handlerVars, wireVars, said>>

\* A mutant: no error is passed over.
EscapesAlways(e) == Lost(e)

\* pipe() passes over a ConnectionError, and no other error.
Escapes(e) == peer[e] = "timeout"

\* The end of the stream, or an error in read() or drain(): to the finally clause.
CopyEnds(e) ==
    /\ \/ ~Lost(e) /\ AtEnd(e) /\ CopyGoto(e, "read", "close")
       \/ Lost(e) /\ CopyGoto(e, "read", IF Escapes(e) THEN "raise" ELSE "close")
       \/ /\ DrainRaises(Other(e))
          /\ CopyGoto(e, "drain", IF Escapes(Other(e)) THEN "raise" ELSE "close")
    /\ sock' = Closed(Other(e))
    /\ UNCHANGED <<handlerVars, peer, inbox, outbox, sent, taken, said>>

\* wait_closed() raises what the connection was lost with.
CopyClosed(e) ==
    /\ sock[Other(e)] = "closed"
    /\ \/ CopyGoto(e, "close", IF Escapes(Other(e)) THEN "raised" ELSE "done")
       \/ CopyGoto(e, "raise", "raised")
    /\ UNCHANGED <<handlerVars, wireVars, said>>

-----------------------------------------------------------------------------
Handle ==
    \/ RefuseHead \/ AcceptHead \/ Resolve \/ Connect \/ ConnectFails
    \/ Greet \/ GreetFails \/ StartCopies \/ Gathered \/ GatherRaises
    \/ SendError \/ ErrorSent \/ CloseEnds \/ Done

Pipe(e) == CopyChunk(e) \/ CopyDrained(e) \/ CopyEnds(e) \/ CopyClosed(e)

Peer(e) == Send(e) \/ Finish(e) \/ \E how \in Faults : Lose(e, how)

ProxyNext ==
    \/ Handle
    \/ \E e \in End : Pipe(e) \/ Flushed(e) \/ Take(e) \/ Peer(e)

\* The event loop runs every task that can go on, and a peer that is there takes
\* what it is sent.  Nothing makes a peer send, end or fail.
ProxySpec ==
    /\ ProxyInit /\ [][ProxyNext]_proxyVars
    /\ WF_proxyVars(Handle)
    /\ \A e \in End : WF_proxyVars(Pipe(e)) /\ WF_proxyVars(Flushed(e)) /\ WF_proxyVars(Take(e))

-----------------------------------------------------------------------------
\* A client that has not left before, and a server that was not lost: when the
\* handler is done, the client has taken every chunk the server sent, and every
\* status line.
RepliesArrive ==
    pc = "done" /\ peer["client"] = "open" /\ ~Lost("server") =>
        taken["client"] = sent["server"] + Len(said)

\* A second status line, in the middle of what is relayed, is written only for a
\* client that is gone, or because the server was lost with an error that pipe()
\* lets escape.
LateStatusIsKnown ==
    Len(said) > 1 => Lost("client") \/ peer["server"] = "timeout"

\* When either end has ended or is lost, the handler and both copies come to their
\* end, and neither connection stays open.
EndsTogether ==
    (\E e \in End : peer[e] # "open") ~>
        /\ pc = "done"
        /\ \A e \in End : copy[e] \in {"off", "done", "raised"} /\ sock[e] \in {"none", "closed"}
=============================================================================
