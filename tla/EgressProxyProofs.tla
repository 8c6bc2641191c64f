--------------------------- MODULE EgressProxyProofs ---------------------------
(***************************************************************************)
(* What a client of the egress proxy receives, for every destination, any  *)
(* number of chunks, any size of the write buffers and any way to lose a   *)
(* peer.                                                                   *)
(*                                                                         *)
(* The argument counts chunks.  As long as the client stays and the server *)
(* was not lost (Calm), every chunk the server sent and every status line  *)
(* is waiting to be read, or in the client's write buffer, or taken; the   *)
(* client's transport is closed only after the copy that fills it has come *)
(* to the end of the server's stream, or when there was no server at all;  *)
(* and a transport is closed only with an empty buffer.                    *)
(***************************************************************************)
EXTENDS EgressProxy, SequenceTheorems, TLAPS

Early == {"head", "resolve", "connect"}
Places == Early \cup {"greet", "greeted", "gather", "deny", "gateway", "sorry",
                      "finally", "wait", "done"}

ProxyTypeOK ==
    /\ pc \in Places /\ tunnel \in BOOLEAN
    /\ copy \in [End -> {"off", "read", "drain", "close", "raise", "done", "raised"}]
    /\ sock \in [End -> {"none", "open", "closing", "closed"}]
    /\ peer \in [End -> {"open", "ended"} \cup Faults]
    /\ inbox \in [End -> Nat] /\ outbox \in [End -> Nat]
    /\ sent \in [End -> Nat] /\ taken \in [End -> Nat]
    /\ said \in Seq({"200", "403", "502"})

\* Neither copy runs.
Uncopied == \A e \in End : copy[e] = "off"

\* The copies start together, and there is a server only after connecting.
PlaceOK ==
    /\ (\E e \in End : copy[e] = "off") => Uncopied
    /\ pc \in Early \cup {"greet", "greeted", "deny"} => Uncopied
    /\ pc = "gather" => ~Uncopied
    /\ pc \in Early \cup {"deny"} => sock["server"] = "none"
    /\ sock["server"] = "none" => inbox["server"] = 0 /\ sent["server"] = 0

\* A transport is closed with an empty buffer.  The client's is there from the
\* start, and without copies a transport is closed early only by a loss.
SockOK ==
    /\ \A e \in End : sock[e] = "closed" => outbox[e] = 0
    /\ Uncopied /\ pc \notin {"wait", "done"} =>
            \A e \in End : sock[e] \in {"none", "open"} \/ Lost(e)
    /\ sock["client"] # "none"
    /\ pc = "done" => sock["client"] = "closed"

\* A copy raises only what an end was lost with.
RaiseOK ==
    \A e \in End : copy[e] \in {"raise", "raised"} => \E f \in End : peer[f] = "timeout"

\* Where a status line may have been written, and when a second one.
SaidOK ==
    /\ pc \in Early \cup {"greet", "deny"} => Len(said) = 0
    /\ pc \in {"greeted", "gather"} => Len(said) <= 1
    /\ pc = "greeted" => (Len(said) = 1 <=> tunnel)
    /\ pc = "gateway" => Len(said) <= 1 /\
            (Len(said) = 1 => Lost("client") \/ peer["server"] = "timeout")
    /\ LateStatusIsKnown

\* The client has not left, and the server was not lost.
Calm == peer["client"] = "open" /\ ~Lost("server")

\* The server's stream was copied to its end.
CopiedAll == inbox["server"] = 0 /\ (peer["server"] = "ended" \/ sock["server"] = "closed")

\* Nothing is missing, and where handle_client can be with the copies.
CalmInv ==
    /\ taken["client"] + outbox["client"] + inbox["server"] = sent["server"] + Len(said)
    /\ copy["server"] \in {"read", "drain"} => sock["client"] = "open"
    /\ copy["server"] \in {"close", "done"} => CopiedAll
    /\ pc \in {"gateway", "sorry"} => Uncopied /\ sock["server"] = "none"
    /\ pc \in {"finally", "wait", "done"} =>
            \/ Uncopied /\ sock["server"] = "none"
            \/ copy["server"] = "done"

ProxyInv ==
    /\ ProxyTypeOK
    /\ PlaceOK
    /\ SockOK
    /\ RaiseOK
    /\ SaidOK
    /\ Calm => CalmInv

-----------------------------------------------------------------------------
(* handle_client.                                                           *)

LEMMA RefuseHeadKeeps == ASSUME ProxyInv, RefuseHead PROVE ProxyInv'
BY FaultsAssumption
   DEF RefuseHead, Goto, ProxyInv, ProxyTypeOK, PlaceOK, SockOK, RaiseOK, SaidOK,
       LateStatusIsKnown, Calm, CalmInv, Uncopied, Lost, Places, End, wireVars

LEMMA AcceptHeadKeeps == ASSUME ProxyInv, AcceptHead PROVE ProxyInv'
BY FaultsAssumption
   DEF AcceptHead, Goto, ProxyInv, ProxyTypeOK, PlaceOK, SockOK, RaiseOK, SaidOK,
       LateStatusIsKnown, Calm, CalmInv, Uncopied, Lost, Early, Places, End

LEMMA ResolveKeeps == ASSUME ProxyInv, Resolve PROVE ProxyInv'
BY FaultsAssumption
   DEF Resolve, ProxyInv, ProxyTypeOK, PlaceOK, SockOK, RaiseOK, SaidOK, LateStatusIsKnown,
       Calm, CalmInv, CopiedAll, Uncopied, Lost, Early, Places, End, wireVars

LEMMA ConnectKeeps == ASSUME ProxyInv, Connect PROVE ProxyInv'
BY FaultsAssumption
   DEF Connect, Goto, ProxyInv, ProxyTypeOK, PlaceOK, SockOK, RaiseOK, SaidOK,
       LateStatusIsKnown, Calm, CalmInv, Uncopied, Lost, Early, Places, End

LEMMA ConnectFailsKeeps == ASSUME ProxyInv, ConnectFails PROVE ProxyInv'
BY FaultsAssumption
   DEF ConnectFails, Goto, ProxyInv, ProxyTypeOK, PlaceOK, SockOK, RaiseOK, SaidOK,
       LateStatusIsKnown, Calm, CalmInv, CopiedAll, Uncopied, Lost, Places, End, wireVars

LEMMA GreetKeeps == ASSUME ProxyInv, Greet PROVE ProxyInv'
<1>1. ProxyTypeOK'
  BY DEF Greet, Written, Greeted, Goto, ProxyInv, ProxyTypeOK, Places, End
<1>2. PlaceOK'
  BY DEF Greet, Goto, ProxyInv, PlaceOK, Uncopied, Early
<1>3. SockOK'
  BY FaultsAssumption DEF Greet, Written, Goto, ProxyInv, PlaceOK, SockOK, Lost
<1>4. RaiseOK'
  BY FaultsAssumption DEF Greet, ProxyInv, RaiseOK
<1>5. SaidOK'
  BY FaultsAssumption DEF Greet, Goto, ProxyInv, SaidOK, LateStatusIsKnown, Early
<1>6. (Calm => CalmInv)'
  BY FaultsAssumption
     DEF Greet, Written, Greeted, Goto, ProxyInv, ProxyTypeOK, PlaceOK, SockOK, SaidOK,
         Calm, CalmInv, CopiedAll, Lost, End
<1> QED BY <1>1, <1>2, <1>3, <1>4, <1>5, <1>6 DEF ProxyInv

LEMMA GreetFailsKeeps == ASSUME ProxyInv, GreetFails PROVE ProxyInv'
<1>1. ProxyTypeOK'
  BY DEF GreetFails, Goto, ProxyInv, ProxyTypeOK, Places, wireVars
<1>2. PlaceOK'
  BY DEF GreetFails, Goto, ProxyInv, PlaceOK, Uncopied, Early, wireVars
<1>3. SockOK'
  BY FaultsAssumption DEF GreetFails, Goto, ProxyInv, PlaceOK, SockOK, Lost, wireVars
<1>4. RaiseOK'
  BY FaultsAssumption DEF GreetFails, Goto, ProxyInv, PlaceOK, RaiseOK, Uncopied
<1>5. SaidOK'
  BY FaultsAssumption
     DEF GreetFails, DrainRaises, Greeted, Goto, ProxyInv, PlaceOK, SockOK, SaidOK,
         LateStatusIsKnown, Lost, Early, End, wireVars
<1>6. (Calm => CalmInv)'
  BY FaultsAssumption
     DEF GreetFails, DrainRaises, Greeted, Goto, ProxyInv, PlaceOK, SockOK, Calm, Lost, End,
         wireVars
<1> QED BY <1>1, <1>2, <1>3, <1>4, <1>5, <1>6 DEF ProxyInv

LEMMA StartCopiesKeeps == ASSUME ProxyInv, StartCopies PROVE ProxyInv'
BY FaultsAssumption
   DEF StartCopies, Goto, ProxyInv, ProxyTypeOK, PlaceOK, SockOK, RaiseOK, SaidOK,
       LateStatusIsKnown, Calm, CalmInv, Uncopied, Lost, Early, Places, End, wireVars

LEMMA GatheredKeeps == ASSUME ProxyInv, Gathered PROVE ProxyInv'
BY FaultsAssumption
   DEF Gathered, Goto, ProxyInv, ProxyTypeOK, PlaceOK, SockOK, RaiseOK, SaidOK,
       LateStatusIsKnown, Calm, CalmInv, CopiedAll, Uncopied, Lost, Early, Places, End,
       wireVars

LEMMA GatherRaisesKeeps == ASSUME ProxyInv, GatherRaises PROVE ProxyInv'
BY FaultsAssumption
   DEF GatherRaises, Goto, ProxyInv, ProxyTypeOK, PlaceOK, SockOK, RaiseOK, SaidOK,
       LateStatusIsKnown, Calm, Uncopied, Lost, Early, Places, End, wireVars

\* The status line is one more to be taken: a calm client is still connected.
LEMMA SendErrorKeeps == ASSUME ProxyInv, SendError PROVE ProxyInv'
<1> DEFINE n == Len(said)
<1>a. /\ pc \in {"deny", "gateway"} /\ pc' = "sorry"
      /\ UNCHANGED <<copy, sock, peer, inbox, sent, taken>>
  BY DEF SendError
<1>b. n' = n + 1
  BY DEF SendError, ProxyInv
<1>c. n \in Nat
  BY LenProperties DEF ProxyInv
<1> HIDE DEF n
<1>1. ProxyTypeOK'
  BY DEF SendError, Written, StatusOf, ProxyInv, ProxyTypeOK, Places, End
<1>2. PlaceOK'
  BY DEF SendError, ProxyInv, PlaceOK, Uncopied, Early
<1>3. SockOK'
  BY FaultsAssumption DEF SendError, Written, ProxyInv, SockOK, Uncopied, Lost
<1>4. RaiseOK'
  BY FaultsAssumption DEF SendError, ProxyInv, RaiseOK
<1>5. SaidOK'
  <2>1. /\ n <= 1
        /\ n = 1 => Lost("client") \/ peer["server"] = "timeout"
    BY <1>a, <1>c DEF ProxyInv, SaidOK, n
  <2>2. n' > 1 => n = 1
    BY <1>b, <1>c, <2>1
  <2>3. LateStatusIsKnown'
    BY <1>a, <2>1, <2>2 DEF LateStatusIsKnown, Lost, n
  <2> QED BY <1>a, <2>3 DEF SaidOK, Early
<1>6. (Calm => CalmInv)'
  <2>1. SUFFICES ASSUME Calm PROVE CalmInv'
    BY DEF SendError, Calm, Lost
  <2>2. /\ Uncopied /\ sock["server"] = "none"
        /\ sock["client"] = "open"
    BY <1>a, <2>1, FaultsAssumption DEF ProxyInv, PlaceOK, SockOK, Calm, CalmInv, Lost, End
  <2>3. outbox'["client"] = outbox["client"] + 1
    BY <2>2 DEF SendError, Written, ProxyInv, ProxyTypeOK, End
  <2>4. taken["client"] + outbox["client"] + inbox["server"] = sent["server"] + n
    BY <2>1 DEF ProxyInv, CalmInv, n
  <2>5. /\ taken["client"] \in Nat /\ outbox["client"] \in Nat
        /\ inbox["server"] \in Nat /\ sent["server"] \in Nat
    BY DEF ProxyInv, ProxyTypeOK, End
  <2>6. taken["client"] + outbox'["client"] + inbox["server"] = sent["server"] + n'
    BY <1>b, <1>c, <2>3, <2>4, <2>5
  <2>7. taken'["client"] + outbox'["client"] + inbox'["server"] = sent'["server"] + Len(said')
    BY <1>a, <2>6 DEF n
  <2> QED
    BY <1>a, <2>2, <2>7 DEF CalmInv, Uncopied, End
<1> QED BY <1>1, <1>2, <1>3, <1>4, <1>5, <1>6 DEF ProxyInv

LEMMA ErrorSentKeeps == ASSUME ProxyInv, ErrorSent PROVE ProxyInv'
BY FaultsAssumption
   DEF ErrorSent, Goto, ProxyInv, ProxyTypeOK, PlaceOK, SockOK, RaiseOK, SaidOK,
       LateStatusIsKnown, Calm, CalmInv, CopiedAll, Uncopied, Lost, Early, Places, wireVars

LEMMA CloseEndsKeeps == ASSUME ProxyInv, CloseEnds PROVE ProxyInv'
<1>1. ProxyTypeOK'
  BY DEF CloseEnds, Closed, Goto, ProxyInv, ProxyTypeOK, Places
<1>2. PlaceOK'
  BY DEF CloseEnds, Closed, Goto, ProxyInv, PlaceOK, Uncopied, Early, End
<1>3. SockOK'
  BY FaultsAssumption DEF CloseEnds, Closed, Goto, ProxyInv, SockOK, End
<1>4. RaiseOK'
  BY FaultsAssumption DEF CloseEnds, ProxyInv, RaiseOK
<1>5. SaidOK'
  BY FaultsAssumption DEF CloseEnds, Goto, ProxyInv, SaidOK, LateStatusIsKnown, Lost, Early
<1>6. (Calm => CalmInv)'
  BY FaultsAssumption
     DEF CloseEnds, Closed, Goto, ProxyInv, Calm, CalmInv, CopiedAll, Uncopied, Lost, End
<1> QED BY <1>1, <1>2, <1>3, <1>4, <1>5, <1>6 DEF ProxyInv

LEMMA DoneKeeps == ASSUME ProxyInv, Done PROVE ProxyInv'
BY FaultsAssumption
   DEF Done, Goto, ProxyInv, ProxyTypeOK, PlaceOK, SockOK, RaiseOK, SaidOK,
       LateStatusIsKnown, Calm, CalmInv, CopiedAll, Uncopied, Lost, Early, Places, wireVars

-----------------------------------------------------------------------------
(* The copies.                                                              *)

\* The chunk is on its way to the other end's buffer, which is not torn down.
LEMMA CopyChunkKeeps == ASSUME ProxyInv, NEW e \in End, CopyChunk(e) PROVE ProxyInv'
<1>1. ProxyTypeOK'
  BY DEF CopyChunk, Written, Other, CopyGoto, ProxyInv, ProxyTypeOK, End, handlerVars
<1>2. PlaceOK'
  BY DEF CopyChunk, CopyGoto, ProxyInv, PlaceOK, Uncopied, handlerVars
<1>3. SockOK'
  BY FaultsAssumption
     DEF CopyChunk, Written, CopyGoto, ProxyInv, SockOK, Uncopied, handlerVars
<1>4. RaiseOK'
  BY FaultsAssumption DEF CopyChunk, CopyGoto, ProxyInv, RaiseOK
<1>5. SaidOK'
  BY FaultsAssumption DEF CopyChunk, ProxyInv, SaidOK, LateStatusIsKnown, Lost, handlerVars
<1>6. (Calm => CalmInv)'
  <2>1. SUFFICES ASSUME Calm PROVE CalmInv'
    BY DEF CopyChunk, Calm, Lost
  <2>2. /\ CalmInv
        /\ copy[e] = "read" /\ copy' = [copy EXCEPT ![e] = "drain"]
        /\ inbox[e] > 0 /\ inbox' = [inbox EXCEPT ![e] = @ - 1]
        /\ outbox' = Written(Other(e))
        /\ UNCHANGED <<pc, sock, peer, sent, taken, said>>
    BY <2>1 DEF CopyChunk, CopyGoto, ProxyInv, handlerVars
  <2>3. PICK n \in Nat : n = Len(said)
    BY LenProperties DEF ProxyInv, ProxyTypeOK
  <2>4. /\ taken["client"] \in Nat /\ outbox["client"] \in Nat
        /\ inbox["server"] \in Nat /\ sent["server"] \in Nat
        /\ taken["client"] + outbox["client"] + inbox["server"] = sent["server"] + n
    BY <2>2, <2>3 DEF ProxyInv, ProxyTypeOK, CalmInv, End
  <2>5. /\ copy \in [End -> {"off", "read", "drain", "close", "raise", "done", "raised"}]
        /\ inbox \in [End -> Nat] /\ outbox \in [End -> Nat]
    BY DEF ProxyInv, ProxyTypeOK
  <2>6. ~Uncopied
    BY <2>2 DEF Uncopied
  <2>7. CASE e = "server"
    <3>1. sock["client"] = "open" /\ Other(e) = "client"
      BY <2>2, <2>7 DEF CalmInv, Other
    <3>2. /\ outbox'["client"] = outbox["client"] + 1
          /\ inbox'["server"] = inbox["server"] - 1
          /\ copy'["server"] = "drain"
      BY <2>2, <2>5, <2>7, <3>1 DEF Written, End
    <3>3. taken["client"] + outbox'["client"] + inbox'["server"] = sent["server"] + n
      BY <2>4, <3>2
    <3>4. pc' \notin {"gateway", "sorry", "finally", "wait", "done"}
      BY <2>2, <2>6, <2>7 DEF CalmInv
    <3> QED BY <2>2, <2>3, <3>1, <3>2, <3>3, <3>4 DEF CalmInv
  <2>8. CASE e = "client"
    <3>1. Other(e) = "server"
      BY <2>8 DEF Other
    <3>2. /\ outbox'["client"] = outbox["client"]
          /\ inbox'["server"] = inbox["server"]
          /\ copy'["server"] = copy["server"]
      BY <2>2, <2>5, <2>8, <3>1 DEF Written
    <3> QED BY <2>2, <2>6, <3>2 DEF CalmInv, CopiedAll
  <2> QED BY <2>7, <2>8 DEF End
<1> QED BY <1>1, <1>2, <1>3, <1>4, <1>5, <1>6 DEF ProxyInv

LEMMA CopyDrainedKeeps == ASSUME ProxyInv, NEW e \in End, CopyDrained(e) PROVE ProxyInv'
BY FaultsAssumption
   DEF CopyDrained, CopyGoto, ProxyInv, ProxyTypeOK, PlaceOK, SockOK, RaiseOK, SaidOK,
       LateStatusIsKnown, Calm, CalmInv, CopiedAll, Uncopied, Lost, End, handlerVars,
       wireVars

LEMMA CopyEndsKeeps == ASSUME ProxyInv, NEW e \in End, CopyEnds(e) PROVE ProxyInv'
<1>1. ProxyTypeOK'
  BY DEF CopyEnds, Closed, CopyGoto, ProxyInv, ProxyTypeOK, handlerVars
<1>2. PlaceOK'
  BY DEF CopyEnds, Closed, CopyGoto, ProxyInv, ProxyTypeOK, PlaceOK, Uncopied, handlerVars
<1>3. SockOK'
  BY FaultsAssumption
     DEF CopyEnds, Closed, CopyGoto, ProxyInv, ProxyTypeOK, SockOK, Uncopied, handlerVars
<1>4. RaiseOK'
  BY FaultsAssumption
     DEF CopyEnds, Escapes, Other, CopyGoto, ProxyInv, ProxyTypeOK, RaiseOK, End
<1>5. SaidOK'
  BY FaultsAssumption DEF CopyEnds, ProxyInv, SaidOK, LateStatusIsKnown, Lost, handlerVars
<1>6. (Calm => CalmInv)'
  BY FaultsAssumption
     DEF CopyEnds, Closed, AtEnd, DrainRaises, Other, CopyGoto, ProxyInv, ProxyTypeOK, Calm,
         CalmInv, CopiedAll, Uncopied, Lost, End, handlerVars
<1> QED BY <1>1, <1>2, <1>3, <1>4, <1>5, <1>6 DEF ProxyInv

LEMMA CopyClosedKeeps == ASSUME ProxyInv, NEW e \in End, CopyClosed(e) PROVE ProxyInv'
<1>1. ProxyTypeOK'
  BY DEF CopyClosed, CopyGoto, ProxyInv, ProxyTypeOK, handlerVars, wireVars
<1>2. PlaceOK'
  BY DEF CopyClosed, CopyGoto, ProxyInv, ProxyTypeOK, PlaceOK, Uncopied, handlerVars, wireVars
<1>3. SockOK'
  BY FaultsAssumption
     DEF CopyClosed, CopyGoto, ProxyInv, ProxyTypeOK, SockOK, Uncopied, handlerVars,
         wireVars
<1>4. RaiseOK'
  BY FaultsAssumption
     DEF CopyClosed, Escapes, Other, CopyGoto, ProxyInv, ProxyTypeOK, RaiseOK, End, wireVars
<1>5. SaidOK'
  BY FaultsAssumption
     DEF CopyClosed, ProxyInv, SaidOK, LateStatusIsKnown, Lost, handlerVars, wireVars
<1>6. (Calm => CalmInv)'
  BY FaultsAssumption
     DEF CopyClosed, Escapes, Other, CopyGoto, ProxyInv, ProxyTypeOK, SockOK, RaiseOK, Calm,
         CalmInv, CopiedAll, Lost, End, handlerVars, wireVars
<1> QED BY <1>1, <1>2, <1>3, <1>4, <1>5, <1>6 DEF ProxyInv

-----------------------------------------------------------------------------
(* The peers.                                                               *)

\* Nothing is sent once the copy has seen the end of the stream.
LEMMA SendKeeps == ASSUME ProxyInv, NEW e \in End, Send(e) PROVE ProxyInv'
<1>1. ProxyTypeOK'
  BY DEF Send, ProxyInv, ProxyTypeOK, handlerVars
<1>2. PlaceOK'
  BY DEF Send, ProxyInv, PlaceOK, Uncopied, handlerVars
<1>3. SockOK'
  BY FaultsAssumption DEF Send, ProxyInv, SockOK, Uncopied, Lost, handlerVars
<1>4. RaiseOK'
  BY FaultsAssumption DEF Send, ProxyInv, RaiseOK
<1>5. SaidOK'
  BY FaultsAssumption DEF Send, ProxyInv, SaidOK, LateStatusIsKnown, Lost, handlerVars
<1>6. (Calm => CalmInv)'
  <2>1. SUFFICES ASSUME Calm PROVE CalmInv'
    BY DEF Send, Calm, Lost
  <2>2. /\ CalmInv
        /\ sock[e] = "open" /\ peer[e] = "open"
        /\ sent' = [sent EXCEPT ![e] = @ + 1]
        /\ inbox' = [inbox EXCEPT ![e] = @ + 1]
        /\ UNCHANGED <<pc, copy, sock, peer, outbox, taken, said>>
    BY <2>1 DEF Send, ProxyInv, handlerVars
  <2>3. PICK n \in Nat : n = Len(said)
    BY LenProperties DEF ProxyInv, ProxyTypeOK
  <2>4. /\ taken["client"] \in Nat /\ outbox["client"] \in Nat
        /\ inbox["server"] \in Nat /\ sent["server"] \in Nat
        /\ taken["client"] + outbox["client"] + inbox["server"] = sent["server"] + n
    BY <2>2, <2>3 DEF ProxyInv, ProxyTypeOK, CalmInv, End
  <2>5. sent \in [End -> Nat] /\ inbox \in [End -> Nat]
    BY DEF ProxyInv, ProxyTypeOK
  <2>6. CASE e = "server"
    <3>1. /\ sent'["server"] = sent["server"] + 1
          /\ inbox'["server"] = inbox["server"] + 1
      BY <2>2, <2>5, <2>6
    <3>2. copy["server"] \notin {"close", "done"}
      BY <2>2, <2>6 DEF CalmInv, CopiedAll
    <3>3. taken["client"] + outbox["client"] + inbox'["server"] = sent'["server"] + n
      BY <2>4, <3>1
    <3> QED BY <2>2, <2>3, <2>6, <3>2, <3>3 DEF CalmInv
  <2>7. CASE e = "client"
    <3>1. sent'["server"] = sent["server"] /\ inbox'["server"] = inbox["server"]
      BY <2>2, <2>5, <2>7
    <3> QED BY <2>2, <3>1 DEF CalmInv, CopiedAll, Uncopied
  <2> QED BY <2>6, <2>7 DEF End
<1> QED BY <1>1, <1>2, <1>3, <1>4, <1>5, <1>6 DEF ProxyInv

LEMMA FinishKeeps == ASSUME ProxyInv, NEW e \in End, Finish(e) PROVE ProxyInv'
BY FaultsAssumption
   DEF Finish, ProxyInv, ProxyTypeOK, PlaceOK, SockOK, RaiseOK, SaidOK, LateStatusIsKnown,
       Calm, CalmInv, CopiedAll, Uncopied, Lost, End, handlerVars

LEMMA LoseKeeps ==
    ASSUME ProxyInv, NEW e \in End, NEW how \in Faults, Lose(e, how) PROVE ProxyInv'
BY FaultsAssumption
   DEF Lose, ProxyInv, ProxyTypeOK, PlaceOK, SockOK, RaiseOK, SaidOK, LateStatusIsKnown,
       Calm, Uncopied, Lost, End, handlerVars

LEMMA TakeKeeps == ASSUME ProxyInv, NEW e \in End, Take(e) PROVE ProxyInv'
<1>1. ProxyTypeOK'
  BY DEF Take, ProxyInv, ProxyTypeOK, handlerVars
<1>2. PlaceOK'
  BY DEF Take, ProxyInv, PlaceOK, Uncopied, handlerVars
<1>3. SockOK'
  BY FaultsAssumption DEF Take, ProxyInv, SockOK, Uncopied, Lost, End, handlerVars
<1>4. RaiseOK'
  BY FaultsAssumption DEF Take, ProxyInv, RaiseOK
<1>5. SaidOK'
  BY FaultsAssumption DEF Take, ProxyInv, SaidOK, LateStatusIsKnown, Lost, handlerVars
<1>6. (Calm => CalmInv)'
  BY FaultsAssumption
     DEF Take, ProxyInv, ProxyTypeOK, Calm, CalmInv, CopiedAll, Uncopied, Lost, End,
         handlerVars
<1> QED BY <1>1, <1>2, <1>3, <1>4, <1>5, <1>6 DEF ProxyInv

LEMMA FlushedKeeps == ASSUME ProxyInv, NEW e \in End, Flushed(e) PROVE ProxyInv'
BY FaultsAssumption
   DEF Flushed, ProxyInv, ProxyTypeOK, PlaceOK, SockOK, RaiseOK, SaidOK, LateStatusIsKnown,
       Calm, CalmInv, CopiedAll, Uncopied, Lost, Early, Places, handlerVars

-----------------------------------------------------------------------------
(* The theorems.                                                            *)

LEMMA StutterKeeps == ASSUME ProxyInv, UNCHANGED proxyVars PROVE ProxyInv'
BY DEF proxyVars, ProxyInv, ProxyTypeOK, PlaceOK, SockOK, RaiseOK, SaidOK,
       LateStatusIsKnown, Calm, CalmInv, CopiedAll, Uncopied, Lost, handlerVars, wireVars

\* The fairness of the specification plays no part.
LEMMA ProxyInvHolds == ProxySpec => []ProxyInv
<1>1. ProxyInit => ProxyInv
  <2>1. SUFFICES ASSUME ProxyInit PROVE ProxyInv
    OBVIOUS
  <2>2. Len(said) = 0 /\ said \in Seq({"200", "403", "502"})
    BY <2>1 DEF ProxyInit
  <2>3. ProxyTypeOK
    <3>1. sock \in [End -> {"none", "open", "closing", "closed"}]
      BY <2>1 DEF ProxyInit, End
    <3> QED BY <2>1, <2>2, <3>1 DEF ProxyInit, ProxyTypeOK, Places, Early
  <2>4. PlaceOK /\ RaiseOK /\ SaidOK
    BY <2>1, <2>2 DEF ProxyInit, PlaceOK, RaiseOK, SaidOK, LateStatusIsKnown, Uncopied, End
  <2>5. SockOK
    BY <2>1 DEF ProxyInit, SockOK, End
  <2>6. CalmInv
    BY <2>1, <2>2 DEF ProxyInit, CalmInv, End
  <2> QED BY <2>3, <2>4, <2>5, <2>6 DEF ProxyInv
<1>2. ProxyInv /\ [ProxyNext]_proxyVars => ProxyInv'
  <2>1. SUFFICES ASSUME ProxyInv, [ProxyNext]_proxyVars PROVE ProxyInv'
    OBVIOUS
  <2>2. CASE Handle
    BY <2>1, <2>2, RefuseHeadKeeps, AcceptHeadKeeps, ResolveKeeps, ConnectKeeps,
       ConnectFailsKeeps, GreetKeeps, GreetFailsKeeps, StartCopiesKeeps, GatheredKeeps,
       GatherRaisesKeeps, SendErrorKeeps, ErrorSentKeeps, CloseEndsKeeps, DoneKeeps
       DEF Handle
  <2>3. ASSUME NEW e \in End, Pipe(e) PROVE ProxyInv'
    BY <2>1, <2>3, CopyChunkKeeps, CopyDrainedKeeps, CopyEndsKeeps, CopyClosedKeeps DEF Pipe
  <2>4. ASSUME NEW e \in End, Flushed(e) \/ Take(e) PROVE ProxyInv'
    BY <2>1, <2>4, FlushedKeeps, TakeKeeps
  <2>5. ASSUME NEW e \in End, Peer(e) PROVE ProxyInv'
    BY <2>1, <2>5, SendKeeps, FinishKeeps, LoseKeeps DEF Peer
  <2>6. CASE UNCHANGED proxyVars
    BY <2>1, <2>6, StutterKeeps
  <2> QED BY <2>1, <2>2, <2>3, <2>4, <2>5, <2>6 DEF ProxyNext
<1> QED BY <1>1, <1>2, PTL DEF ProxySpec

\* A client that stays receives every chunk of a server that was not lost, and every
\* status line: nothing is left in a buffer of the proxy when handle_client is done.
THEOREM EveryReplyArrives == ProxySpec => []RepliesArrive
<1>1. ProxyInv => RepliesArrive
  <2>1. SUFFICES ASSUME ProxyInv, pc = "done", peer["client"] = "open", ~Lost("server")
                 PROVE  taken["client"] = sent["server"] + Len(said)
    BY DEF RepliesArrive
  <2>2. outbox["client"] = 0
    BY <2>1 DEF ProxyInv, SockOK, End
  <2>3. CalmInv
    BY <2>1 DEF ProxyInv, Calm
  <2>4. inbox["server"] = 0
    BY <2>1, <2>3 DEF CalmInv, CopiedAll, ProxyInv, PlaceOK
  <2>5. taken["client"] \in Nat
    BY <2>1 DEF ProxyInv, ProxyTypeOK, End
  <2> QED BY <2>2, <2>3, <2>4, <2>5 DEF CalmInv
<1> QED BY <1>1, ProxyInvHolds, PTL

\* A second status line is written only for a client that is gone, or after a timeout
\* of the server's connection that pipe() does not pass over.
THEOREM SecondStatusIsKnown == ProxySpec => []LateStatusIsKnown
BY ProxyInvHolds, PTL DEF ProxyInv, SaidOK

=============================================================================
