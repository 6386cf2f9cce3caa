--------------------------- MODULE RealtimeProofs ---------------------------
(****************************************************************************)
(* Proofs about what reaches a browser as it happens: SocketProxy, for any number*)
(* of messages and any close codes, and Notifications, for any number of users,*)
(* notices, tokens, connections and handlers.                                *)
(****************************************************************************)
EXTENDS SocketProxy, Notifications, SequenceTheorems, FiniteSetTheorems, TLAPS

-----------------------------------------------------------------------------
(*** SocketProxy ***)

\* A sequence that holds the first n messages of a peer.
FirstMessages(s, n) == s \in Seq(Nat) /\ Len(s) = n /\ \A i \in 1 .. Len(s) : s[i] = i

Typed ==
  /\ ready \in [SocketEnds -> ReadyStates] /\ ready["client"] # "CONNECTING"
  /\ silent \subseteq SocketEnds
  /\ sentBy \in [SocketEnds -> 0 .. MaxMessages]
  /\ received \in [SocketEnds -> Seq(Nat)]
  /\ pendingMessages \in Seq(Nat)

\* Nothing is behind: what a peer sent is forwarded or, until the service's
\* socket opens, pending.
UpToDate ==
  /\ ready["upstream"] = "CONNECTING" =>
       received["upstream"] = <<>> /\ FirstMessages(pendingMessages, sentBy["client"])
  /\ ready["upstream"] = "OPEN" => FirstMessages(received["upstream"], sentBy["client"])
  /\ ready["client"] = "OPEN" => FirstMessages(received["client"], sentBy["upstream"])

Counted ==
  /\ \A e \in SocketEnds : Len(received[e]) <= sentBy[OtherEnd(e)]
  /\ Len(pendingMessages) <= sentBy["client"]

ProxyInv == Typed /\ UpToDate /\ Counted /\ ForwardedInOrder

-----------------------------------------------------------------------------
(* Messages *)

\* No message is the first none.
LEMMA EmptyIsFirst == FirstMessages(<<>>, 0)
<1>1. <<>> \in Seq(Nat) /\ Len(<<>>) = 0
  BY EmptySeq
<1> QED BY <1>1 DEF FirstMessages

\* One more message after the first n.
LEMMA NextMessage ==
  ASSUME NEW s, NEW n \in Nat, FirstMessages(s, n)
  PROVE  FirstMessages(Append(s, n + 1), n + 1)
<1>1. s \in Seq(Nat) /\ Len(s) = n /\ n + 1 \in Nat
  BY DEF FirstMessages
<1>2. /\ Append(s, n + 1) \in Seq(Nat)
      /\ Len(Append(s, n + 1)) = Len(s) + 1
      /\ \A i \in 1 .. Len(s) : Append(s, n + 1)[i] = s[i]
      /\ Append(s, n + 1)[Len(s) + 1] = n + 1
  BY <1>1, AppendProperties
<1>3. \A i \in 1 .. n + 1 : Append(s, n + 1)[i] = i
  <2>1. TAKE i \in 1 .. n + 1
  <2>2. i \in 1 .. n \/ i = n + 1
    BY <1>1
  <2> QED BY <1>1, <1>2, <2>2 DEF FirstMessages
<1> QED BY <1>1, <1>2, <1>3 DEF FirstMessages

\* A message that is only kept makes the sequence one longer.
LEMMA AppendCounts ==
  ASSUME NEW s \in Seq(Nat), NEW x \in Nat
  PROVE  Append(s, x) \in Seq(Nat) /\ Len(Append(s, x)) = Len(s) + 1
BY AppendProperties

-----------------------------------------------------------------------------
(* The invariant *)

\* At the start nothing was sent.
LEMMA ProxyInvInit == SocketProxyInit => ProxyInv
<1> SUFFICES ASSUME SocketProxyInit PROVE ProxyInv
  OBVIOUS
<1> USE SocketProxyAssumption
<1>1. <<>> \in Seq(Nat) /\ Len(<<>>) = 0
  BY EmptySeq
<1>2. Typed
  BY <1>1 DEF SocketProxyInit, Typed, SocketEnds, ReadyStates
<1>3. received["upstream"] = <<>> /\ received["client"] = <<>> /\ sentBy["client"] = 0
        /\ sentBy["upstream"] = 0 /\ pendingMessages = <<>>
  BY DEF SocketProxyInit, SocketEnds
<1>4. UpToDate
  BY <1>3, EmptyIsFirst DEF UpToDate
<1>5. Counted
  BY <1>1, <1>3 DEF Counted, SocketEnds, OtherEnd
<1>6. ForwardedInOrder
  BY <1>1, <1>3 DEF ForwardedInOrder, SocketEnds
<1> QED BY <1>2, <1>4, <1>5, <1>6 DEF ProxyInv

\* CloseSocket leaves the other end's state alone, and opens nothing.
LEMMA CloseSocketStates ==
  ASSUME NEW states \in [SocketEnds -> ReadyStates], states["client"] # "CONNECTING",
         NEW e \in SocketEnds, NEW code, CloseSocket(states, e, code)
  PROVE  /\ ready' \in [SocketEnds -> ReadyStates] /\ ready'["client"] # "CONNECTING"
         /\ \A f \in SocketEnds :
              ready'[f] = states[f] \/ (ready'[f] = "CLOSING" /\ f = e /\ states[f] \in {"CONNECTING", "OPEN"})
         /\ ready'[e] # "CONNECTING" /\ ready'[e] # "OPEN"
BY DEF CloseSocket, SocketEnds, ReadyStates

\* Events that only close: whoever is open or connecting after was so before.
LEMMA ClosingKeeps ==
  ASSUME ProxyInv,
         ready' \in [SocketEnds -> ReadyStates], ready'["client"] # "CONNECTING",
         silent' \subseteq SocketEnds,
         \A f \in SocketEnds : ready'[f] \in {"CONNECTING", "OPEN"} => ready'[f] = ready[f],
         pendingMessages' = pendingMessages \/ (pendingMessages' = <<>> /\ ready'["upstream"] # "CONNECTING"),
         UNCHANGED <<sentBy, received>>
  PROVE  ProxyInv'
<1> USE SocketProxyAssumption
<1>1. <<>> \in Seq(Nat) /\ Len(<<>>) = 0
  BY EmptySeq
<1>2. Typed'
  BY <1>1 DEF ProxyInv, Typed
<1>3. UpToDate'
  BY DEF ProxyInv, UpToDate, SocketEnds, FirstMessages
<1>4. Counted'
  BY <1>1 DEF ProxyInv, Counted, Typed, SocketEnds
<1>5. ForwardedInOrder'
  BY DEF ProxyInv, ForwardedInOrder
<1> QED BY <1>2, <1>3, <1>4, <1>5 DEF ProxyInv

\* Every event keeps the invariant.
LEMMA ProxyInvNext == ProxyInv /\ [SocketProxyNext]_proxyVars => ProxyInv'
<1> SUFFICES ASSUME ProxyInv, [SocketProxyNext]_proxyVars PROVE ProxyInv'
  OBVIOUS
<1> USE SocketProxyAssumption
<1>t. "client" \in SocketEnds /\ "upstream" \in SocketEnds
  BY DEF SocketEnds
<1>1. CASE UpstreamOpen
  <2>1. received["upstream"] = <<>> /\ FirstMessages(pendingMessages, sentBy["client"])
    BY <1>1 DEF UpstreamOpen, ProxyInv, UpToDate
  <2>2. <<>> \o pendingMessages = pendingMessages
    BY ConcatEmptySeq DEF ProxyInv, Typed
  <2>3. received' = [received EXCEPT !["upstream"] = pendingMessages]
    BY <1>1, <2>1, <2>2 DEF UpstreamOpen
  <2>4. received'["upstream"] = pendingMessages /\ received'["client"] = received["client"]
          /\ ready'["upstream"] = "OPEN" /\ ready'["client"] = ready["client"]
          /\ pendingMessages' = <<>> /\ UNCHANGED sentBy
    BY <1>1, <2>3 DEF UpstreamOpen, ProxyInv, Typed, SocketEnds
  <2>5. <<>> \in Seq(Nat) /\ Len(<<>>) = 0
    BY EmptySeq
  <2>6. Typed'
    BY <1>1, <2>3, <2>4, <2>5 DEF UpstreamOpen, ProxyInv, Typed, SocketEnds, ReadyStates
  <2>7. UpToDate'
    BY <2>1, <2>4 DEF ProxyInv, UpToDate, FirstMessages
  <2>8. Counted'
    BY <2>1, <2>4, <2>5 DEF ProxyInv, Counted, Typed, SocketEnds, OtherEnd, FirstMessages
  <2>9. ForwardedInOrder'
    BY <2>1, <2>4 DEF ProxyInv, ForwardedInOrder, SocketEnds, FirstMessages
  <2> QED BY <2>6, <2>7, <2>8, <2>9 DEF ProxyInv
<1>2. CASE ClientMessage
  <2>1. /\ sentBy'["client"] = sentBy["client"] + 1 /\ sentBy'["upstream"] = sentBy["upstream"]
        /\ sentBy["client"] \in Nat /\ sentBy["upstream"] \in Nat /\ sentBy'["client"] \in Nat
        /\ sentBy' \in [SocketEnds -> 0 .. MaxMessages]
        /\ UNCHANGED <<ready, silent>>
    BY <1>2, <1>t DEF ClientMessage, Arrives, ProxyInv, Typed
  <2>2. CASE ready["upstream"] = "OPEN"
    <3> DEFINE more == Append(received["upstream"], sentBy["client"] + 1)
    <3>1. FirstMessages(received["upstream"], sentBy["client"])
      BY <2>2 DEF ProxyInv, UpToDate
    <3>2. FirstMessages(more, sentBy["client"] + 1)
      BY <2>1, <3>1, NextMessage
    <3>3. received' = [received EXCEPT !["upstream"] = more] /\ UNCHANGED pendingMessages
      BY <1>2, <2>1, <2>2 DEF ClientMessage
    <3>4. received'["upstream"] = more /\ received'["client"] = received["client"]
      BY <3>3 DEF ProxyInv, Typed, SocketEnds
    <3> HIDE DEF more
    <3>5. Typed'
      BY <2>1, <3>2, <3>3 DEF ProxyInv, Typed, FirstMessages
    <3>6. UpToDate'
      BY <2>1, <2>2, <3>2, <3>3, <3>4 DEF ProxyInv, UpToDate, FirstMessages
    <3>7. Counted'
      BY <2>1, <3>2, <3>3, <3>4 DEF ProxyInv, Counted, Typed, SocketEnds, OtherEnd, FirstMessages
    <3>8. ForwardedInOrder'
      BY <3>2, <3>4 DEF ProxyInv, ForwardedInOrder, SocketEnds, FirstMessages
    <3> QED BY <3>5, <3>6, <3>7, <3>8 DEF ProxyInv
  <2>3. CASE ready["upstream"] # "OPEN"
    <3> DEFINE more == Append(pendingMessages, sentBy["client"] + 1)
    <3>1. pendingMessages' = more /\ UNCHANGED received
      BY <1>2, <2>1, <2>3 DEF ClientMessage
    <3>2. more \in Seq(Nat) /\ Len(more) = Len(pendingMessages) + 1 /\ Len(pendingMessages) \in Nat
      BY <2>1, AppendCounts, LenProperties DEF ProxyInv, Typed
    <3>3. ready["upstream"] = "CONNECTING" => FirstMessages(more, sentBy["client"] + 1)
      BY <2>1, NextMessage DEF ProxyInv, UpToDate
    <3>l. \A e \in SocketEnds : Len(received[e]) \in Nat
      BY LenProperties DEF ProxyInv, Typed
    <3> HIDE DEF more
    <3>4. Typed'
      BY <2>1, <3>1, <3>2 DEF ProxyInv, Typed
    <3>5. UpToDate'
      BY <2>1, <2>3, <3>1, <3>3 DEF ProxyInv, UpToDate
    <3>6. Counted'
      BY <2>1, <3>1, <3>2, <3>l DEF ProxyInv, Counted, SocketEnds, OtherEnd
    <3>7. ForwardedInOrder'
      BY <3>1 DEF ProxyInv, ForwardedInOrder
    <3> QED BY <3>4, <3>5, <3>6, <3>7 DEF ProxyInv
  <2> QED BY <2>2, <2>3
<1>3. CASE UpstreamMessage
  <2>1. /\ sentBy'["upstream"] = sentBy["upstream"] + 1 /\ sentBy'["client"] = sentBy["client"]
        /\ sentBy["client"] \in Nat /\ sentBy["upstream"] \in Nat
        /\ sentBy' \in [SocketEnds -> 0 .. MaxMessages]
        /\ UNCHANGED <<ready, silent, pendingMessages>>
    BY <1>3, <1>t DEF UpstreamMessage, Arrives, ProxyInv, Typed
  <2>2. CASE ready["client"] = "OPEN"
    <3> DEFINE more == Append(received["client"], sentBy["upstream"] + 1)
    <3>1. FirstMessages(more, sentBy["upstream"] + 1)
      BY <2>1, <2>2, NextMessage DEF ProxyInv, UpToDate
    <3>2. received' = [received EXCEPT !["client"] = more]
      BY <1>3, <2>1, <2>2 DEF UpstreamMessage
    <3>3. received'["client"] = more /\ received'["upstream"] = received["upstream"]
      BY <3>2 DEF ProxyInv, Typed, SocketEnds
    <3> HIDE DEF more
    <3>4. Typed'
      BY <2>1, <3>1, <3>2 DEF ProxyInv, Typed, FirstMessages
    <3>5. UpToDate'
      BY <2>1, <2>2, <3>1, <3>3 DEF ProxyInv, UpToDate, FirstMessages
    <3>6. Counted'
      BY <2>1, <3>1, <3>3 DEF ProxyInv, Counted, Typed, SocketEnds, OtherEnd, FirstMessages
    <3>7. ForwardedInOrder'
      BY <3>1, <3>3 DEF ProxyInv, ForwardedInOrder, SocketEnds, FirstMessages
    <3> QED BY <3>4, <3>5, <3>6, <3>7 DEF ProxyInv
  <2>3. CASE ready["client"] # "OPEN"
    <3>1. UNCHANGED received
      BY <1>3, <2>3 DEF UpstreamMessage
    <3>l. \A e \in SocketEnds : Len(received[e]) \in Nat
      BY LenProperties DEF ProxyInv, Typed
    <3>2. Typed'
      BY <2>1, <3>1 DEF ProxyInv, Typed
    <3>3. UpToDate'
      BY <2>1, <2>3, <3>1 DEF ProxyInv, UpToDate
    <3>4. Counted'
      BY <2>1, <3>1, <3>l DEF ProxyInv, Counted, SocketEnds, OtherEnd
    <3>5. ForwardedInOrder'
      BY <3>1 DEF ProxyInv, ForwardedInOrder
    <3> QED BY <3>2, <3>3, <3>4, <3>5 DEF ProxyInv
  <2> QED BY <2>2, <2>3
<1>4. ASSUME NEW e \in SocketEnds, PeerCloses(e) PROVE ProxyInv'
  <2>1. ready' = [ready EXCEPT ![e] = "CLOSING"] /\ silent' = silent \cup {e}
          /\ UNCHANGED <<sentBy, pendingMessages, received>>
    BY <1>4 DEF PeerCloses
  <2>2. ready' \in [SocketEnds -> ReadyStates] /\ ready'["client"] # "CONNECTING" /\ silent' \subseteq SocketEnds
    BY <2>1 DEF ProxyInv, Typed, ReadyStates
  <2>3. \A f \in SocketEnds : ready'[f] \in {"CONNECTING", "OPEN"} => ready'[f] = ready[f]
    BY <2>1 DEF ProxyInv, Typed
  <2> QED BY <2>1, <2>2, <2>3, ClosingKeeps
<1>5. ASSUME NEW e \in SocketEnds, EndCloses(e) PROVE ProxyInv'
  <2> DEFINE states == [ready EXCEPT ![e] = "CLOSED"]
  <2>1. PICK code \in CloseCodes : CloseSocket(states, OtherEnd(e), code)
    BY <1>5 DEF EndCloses
  <2>2. /\ states \in [SocketEnds -> ReadyStates] /\ states["client"] # "CONNECTING"
        /\ OtherEnd(e) \in SocketEnds
    BY DEF ProxyInv, Typed, ReadyStates, OtherEnd, SocketEnds
  <2>3. /\ ready' \in [SocketEnds -> ReadyStates] /\ ready'["client"] # "CONNECTING"
        /\ \A f \in SocketEnds : ready'[f] = states[f] \/ ready'[f] = "CLOSING"
        /\ ready'[OtherEnd(e)] # "CONNECTING"
    <3> HIDE DEF states
    <3> QED BY <2>1, <2>2, CloseSocketStates
  <2>4. \A f \in SocketEnds : ready'[f] \in {"CONNECTING", "OPEN"} => ready'[f] = ready[f]
    BY <2>3 DEF ProxyInv, Typed
  <2>5. silent' \subseteq SocketEnds /\ pendingMessages' = <<>> /\ UNCHANGED <<sentBy, received>>
    BY <1>5 DEF EndCloses, Silenced, ProxyInv, Typed
  <2>6. ready'["upstream"] # "CONNECTING"
    <3>1. CASE e = "upstream"
      BY <1>5, <2>4, <3>1 DEF EndCloses, SocketEnds
    <3>2. CASE e = "client"
      BY <2>3, <3>2 DEF OtherEnd
    <3> QED BY <3>1, <3>2 DEF SocketEnds
  <2> QED BY <2>3, <2>4, <2>5, <2>6, ClosingKeeps
<1>6. ASSUME NEW e \in SocketEnds, EndFails(e) PROVE ProxyInv'
  <2> DEFINE states == [ready EXCEPT ![e] = "CLOSING"]
  <2>1. CloseSocket(states, OtherEnd(e), DEFAULT_WEBSOCKET_CLOSE_CODE)
    BY <1>6 DEF EndFails
  <2>2. /\ states \in [SocketEnds -> ReadyStates] /\ states["client"] # "CONNECTING"
        /\ OtherEnd(e) \in SocketEnds
    BY DEF ProxyInv, Typed, ReadyStates, OtherEnd, SocketEnds
  <2>3. /\ ready' \in [SocketEnds -> ReadyStates] /\ ready'["client"] # "CONNECTING"
        /\ \A f \in SocketEnds : ready'[f] = states[f] \/ ready'[f] = "CLOSING"
    <3> HIDE DEF states
    <3> QED BY <2>1, <2>2, CloseSocketStates
  <2>4. \A f \in SocketEnds : ready'[f] \in {"CONNECTING", "OPEN"} => ready'[f] = ready[f]
    BY <2>3 DEF ProxyInv, Typed
  <2>5. silent' \subseteq SocketEnds /\ UNCHANGED <<sentBy, pendingMessages, received>>
    BY <1>6 DEF EndFails, Silenced, ProxyInv, Typed
  <2> QED BY <2>3, <2>4, <2>5, ClosingKeeps
<1>7. CASE UNCHANGED proxyVars
  BY <1>7, ClosingKeeps DEF proxyVars, ProxyInv, Typed
<1> QED BY <1>1, <1>2, <1>3, <1>4, <1>5, <1>6, <1>7 DEF SocketProxyNext

\* No message is lost, repeated or overtaken before the last one that is
\* forwarded, however the two sockets open, close and fail.
THEOREM ProxyForwardsInOrder == SocketProxySpec => []ForwardedInOrder
<1>1. ProxyInv => ForwardedInOrder
  BY DEF ProxyInv
<1> QED BY ProxyInvInit, ProxyInvNext, <1>1, PTL DEF SocketProxySpec

\* Types, and that no side is sent more than the other sent.
THEOREM ProxyTypes == SocketProxySpec => []SocketProxyTypeOK
<1>1. ProxyInv => SocketProxyTypeOK
  BY DEF ProxyInv, Typed, Counted, SocketProxyTypeOK
<1> QED BY ProxyInvInit, ProxyInvNext, <1>1, PTL DEF SocketProxySpec

-----------------------------------------------------------------------------
(* Closing *)

\* Whatever events the network gives, a closed socket's counterpart closes: the
\* handler that hears of the close terminates it if it is still connecting.
THEOREM ProxyClosesTogether == SocketProxySpec => []ClosedTogether
<1>1. SocketProxyInit => ClosedTogether
  BY DEF SocketProxyInit, ClosedTogether, SocketEnds, OtherEnd
<1>2. ProxyInv /\ ProxyInv' /\ ClosedTogether /\ [SocketProxyNext]_proxyVars => ClosedTogether'
  <2> SUFFICES ASSUME Typed, Typed', ClosedTogether, [SocketProxyNext]_proxyVars PROVE ClosedTogether'
    BY DEF ProxyInv
  <2>1. CASE UpstreamOpen
    BY <2>1 DEF UpstreamOpen, Typed, ClosedTogether, SocketEnds, OtherEnd
  <2>2. CASE ClientMessage \/ UpstreamMessage
    BY <2>2 DEF ClientMessage, UpstreamMessage, Arrives, ClosedTogether
  <2>3. ASSUME NEW e \in SocketEnds, PeerCloses(e) PROVE ClosedTogether'
    BY <2>3 DEF PeerCloses, Typed, ClosedTogether, SocketEnds, OtherEnd
  <2>4. ASSUME NEW e \in SocketEnds, EndCloses(e) PROVE ClosedTogether'
    BY <2>4 DEF EndCloses, CloseSocket, Typed, ReadyStates, ClosedTogether, SocketEnds, OtherEnd
  <2>5. ASSUME NEW e \in SocketEnds, EndFails(e) PROVE ClosedTogether'
    BY <2>5 DEF EndFails, CloseSocket, Typed, ReadyStates, ClosedTogether, SocketEnds, OtherEnd
  <2>6. CASE UNCHANGED proxyVars
    BY <2>6 DEF proxyVars, ClosedTogether
  <2> QED BY <2>1, <2>2, <2>3, <2>4, <2>5, <2>6 DEF SocketProxyNext
<1> QED BY ProxyInvInit, ProxyInvNext, <1>1, <1>2, PTL DEF SocketProxySpec

\* A code that resolveCloseCode returns is one close() takes.
LEMMA ResolvedIsValid == ASSUME NEW code \in Nat PROVE IsValidStatusCode(ResolveCloseCode(code))
BY DEF ResolveCloseCode, IsSendableCloseCode, IsValidStatusCode, DEFAULT_WEBSOCKET_CLOSE_CODE,
       UNSENDABLE_WEBSOCKET_CLOSE_CODES

\* close() never throws for its code, whatever code either socket closed with.
THEOREM ProxyClosesWithValidCodes == SocketProxySpec => []ClosesWithValidCodes
<1>1. SocketProxyInit => ClosesWithValidCodes
  BY DEF SocketProxyInit, ClosesWithValidCodes
<1>2. ClosesWithValidCodes /\ [SocketProxyNext]_proxyVars => ClosesWithValidCodes'
  <2> SUFFICES ASSUME ClosesWithValidCodes, [SocketProxyNext]_proxyVars PROVE ClosesWithValidCodes'
    OBVIOUS
  <2>0. \A states, e : \A code \in Nat : CloseSocket(states, e, code) => ClosesWithValidCodes'
    BY ResolvedIsValid DEF CloseSocket, ClosesWithValidCodes
  <2>1. CASE UNCHANGED closedWith
    BY <2>1 DEF ClosesWithValidCodes
  <2>2. CASE UpstreamOpen \/ ClientMessage \/ UpstreamMessage \/ UNCHANGED proxyVars
    BY <2>1, <2>2 DEF UpstreamOpen, ClientMessage, UpstreamMessage, Arrives, proxyVars
  <2>3. ASSUME NEW e \in SocketEnds, PeerCloses(e) PROVE ClosesWithValidCodes'
    BY <2>1, <2>3 DEF PeerCloses
  <2>4. ASSUME NEW e \in SocketEnds, EndCloses(e) PROVE ClosesWithValidCodes'
    BY <2>0, <2>4, SocketProxyAssumption DEF EndCloses
  <2>5. ASSUME NEW e \in SocketEnds, EndFails(e) PROVE ClosesWithValidCodes'
    BY <2>0, <2>5 DEF EndFails, DEFAULT_WEBSOCKET_CLOSE_CODE
  <2> QED BY <2>2, <2>3, <2>4, <2>5 DEF SocketProxyNext
<1> QED BY <1>1, <1>2, PTL DEF SocketProxySpec

-----------------------------------------------------------------------------
(*** Notifications ***)

\* What a handler keeps is fit for the step it is at.
SoundSending(t) ==
  /\ t.op \in {"find", "createPreference", "setPreference"} => t.user \in Recipients /\ t.setting \in Channels
  /\ t.op = "clear" \/ (t.op = "write" /\ t.by = "register") =>
       t.user \in Recipients /\ \E k \in PushTokens : t.tokens = {k}
  /\ t.op = "write" /\ t.by # "register" => t.template \in TemplateIds \ {SeedId}
  /\ t.op = "publish" => t.batch \in Batches

HandlersTyped ==
  /\ sending \in [Workers -> OrNull(Sending)]
  /\ \A w \in Workers : sending[w] # None => SoundSending(sending[w])
  /\ halfDone \subseteq PushTokens /\ cron \subseteq {"notices", "tokens"}
  /\ noticeScope \in NoticeScopes

UserTables ==
  /\ notice \in [Batches -> [Recipients -> OrNull(Notice)]]
  /\ pushToken \in [PushTokens -> OrNull(PushSubscription)]
  /\ preference \in [Recipients -> OrNull(SUBSET Channels)]
  /\ purged \subseteq Recipients
  /\ \A u \in purged : /\ preference[u] = None
                       /\ \A b \in Batches : ~HasRow(b, u)
                       /\ \A k \in PushTokens : pushToken[k] # None => pushToken[k].user # u

\* The unique index on the key, and the row of the seed as it was seeded.
TemplateRows ==
  /\ template \in [TemplateIds -> OrNull(Template)]
  /\ \A i, j \in TemplateIds : template[i] # None /\ template[j] # None /\ template[i].key = template[j].key => i = j
  /\ template[SeedId] # None => template[SeedId] = SeedRow

\* A connection is in its own Set, or in none once it has unsubscribed; and unless one
\* of them failed, that Set is the one its user is found by.
Quiet == \A s \in Sockets : conn[s] # None => conn[s].state # "failed" /\ conn[s].unsubscribed < 2

Subscriptions ==
  /\ conn \in [Sockets -> OrNull(Connection)]
  /\ registry \in [Recipients -> OrNull(Sockets)]
  /\ group \in [Sockets -> SUBSET Sockets]
  /\ \A s, r \in Sockets : s \in group[r] => IsOpen(s) /\ conn[s].group = r
  /\ \A s \in Sockets : conn[s] # None =>
       /\ conn[s].state = "open" => conn[s].unsubscribed = 0
       /\ conn[s].state = "failed" => conn[s].unsubscribed = 1
  /\ Quiet => \A s \in Sockets : IsOpen(s) => registry[conn[s].user] = conn[s].group /\ s \in group[conn[s].group]

\* Two active tokens of a user and a device, and the handler that is still to switch
\* one of them off.
Twins(k, l) ==
  /\ k # l /\ pushToken[k] # None /\ pushToken[l] # None
  /\ pushToken[k].active /\ pushToken[l].active
  /\ pushToken[k].user = pushToken[l].user
  /\ pushToken[k].device = pushToken[l].device /\ pushToken[k].device # None

Registers(w, k) ==
  /\ At(w, "clear") /\ sending[w].tokens = {k}
  /\ sending[w].user = pushToken[k].user /\ sending[w].device = pushToken[k].device

TwinsExplained ==
  \A k, l \in PushTokens : Twins(k, l) =>
    {k, l} \cap halfDone # {} \/ \E w \in Workers : Registers(w, k) \/ Registers(w, l)

NotificationsInv == HandlersTyped /\ UserTables /\ TemplateRows /\ Subscriptions /\ TwinsExplained

-----------------------------------------------------------------------------
(* What is left alone keeps its part of the invariant *)

LEMMA ScopeFields ==
  ASSUME HandlersTyped
  PROVE  /\ noticeScope.calls \subseteq NoticeOps /\ noticeScope.users \subseteq Recipients
         /\ noticeScope.batches \subseteq Batches /\ noticeScope.tokens \subseteq PushTokens
         /\ noticeScope.sockets \subseteq Sockets
BY NotificationsAssumption DEF HandlersTyped, NoticeScope

LEMMA UserTablesKept ==
  ASSUME UserTables, UNCHANGED <<notice, pushToken, preference, purged>>
  PROVE  UserTables'
BY DEF UserTables, HasRow

LEMMA TemplatesKept ==
  ASSUME TemplateRows, UNCHANGED template
  PROVE  TemplateRows'
BY DEF TemplateRows

LEMMA SubscriptionsKept ==
  ASSUME Subscriptions, UNCHANGED realtime
  PROVE  Subscriptions'
BY DEF Subscriptions, realtime, Quiet, IsOpen

\* Tokens are switched off or go, and no handler gives up what it was to switch off.
LEMMA TwinsKept ==
  ASSUME TwinsExplained, halfDone \subseteq halfDone',
         \A w \in Workers : At(w, "clear") => sending'[w] = sending[w],
         \A k \in PushTokens : pushToken'[k] # None /\ pushToken'[k].active =>
           /\ pushToken[k] # None /\ pushToken[k].active
           /\ pushToken'[k].user = pushToken[k].user /\ pushToken'[k].device = pushToken[k].device
  PROVE  TwinsExplained'
<1> SUFFICES ASSUME NEW k \in PushTokens, NEW l \in PushTokens, Twins(k, l)'
             PROVE  \/ {k, l} \cap halfDone' # {}
                    \/ \E w \in Workers : Registers(w, k)' \/ Registers(w, l)'
  BY DEF TwinsExplained
<1>1. /\ Twins(k, l)
      /\ pushToken'[k].user = pushToken[k].user /\ pushToken'[k].device = pushToken[k].device
      /\ pushToken'[l].user = pushToken[l].user /\ pushToken'[l].device = pushToken[l].device
  BY DEF Twins
<1>2. CASE {k, l} \cap halfDone # {}
  BY <1>2
<1>3. CASE \E w \in Workers : Registers(w, k) \/ Registers(w, l)
  <2>1. PICK w \in Workers : Registers(w, k) \/ Registers(w, l)
    BY <1>3
  <2>2. At(w, "clear") /\ sending'[w] = sending[w]
    BY <2>1 DEF Registers
  <2>3. Registers(w, k)' \/ Registers(w, l)'
    BY <1>1, <2>1, <2>2 DEF Registers, At
  <2> QED BY <2>3
<1> QED BY <1>1, <1>2, <1>3 DEF TwinsExplained

\* A handler takes a step that is not to switch off tokens.
LEMMA StepTyped ==
  ASSUME HandlersTyped, NEW w \in Workers, NEW next \in OrNull(Sending),
         sending' = [sending EXCEPT ![w] = next], next # None => SoundSending(next),
         UNCHANGED <<cron, noticeScope>>, halfDone' \subseteq PushTokens
  PROVE  HandlersTyped' /\ sending'[w] = next /\ \A v \in Workers \ {w} : sending'[v] = sending[v]
<1>1. sending \in [Workers -> OrNull(Sending)]
  BY DEF HandlersTyped
<1>2. /\ sending' \in [Workers -> OrNull(Sending)] /\ sending'[w] = next
      /\ \A v \in Workers \ {w} : sending'[v] = sending[v]
  BY <1>1
<1>3. \A v \in Workers : sending'[v] # None => SoundSending(sending'[v])
  BY <1>2 DEF HandlersTyped
<1> QED BY <1>2, <1>3 DEF HandlersTyped, SoundSending

LEMMA HandlerKeeps ==
  ASSUME NotificationsInv, NEW w \in Workers, ~ At(w, "clear"), NEW next \in OrNull(Sending),
         sending' = [sending EXCEPT ![w] = next], next # None => SoundSending(next),
         UNCHANGED <<halfDone, cron, noticeScope>>, UserTables', TemplateRows', Subscriptions',
         \A k \in PushTokens : pushToken'[k] # None /\ pushToken'[k].active =>
           /\ pushToken[k] # None /\ pushToken[k].active
           /\ pushToken'[k].user = pushToken[k].user /\ pushToken'[k].device = pushToken[k].device
  PROVE  NotificationsInv'
<1>1. HandlersTyped' /\ \A v \in Workers \ {w} : sending'[v] = sending[v]
  BY StepTyped DEF NotificationsInv, HandlersTyped
<1>2. \A v \in Workers : At(v, "clear") => sending'[v] = sending[v]
  BY <1>1
<1>3. TwinsExplained'
  BY <1>2, TwinsKept DEF NotificationsInv
<1> QED BY <1>1, <1>3 DEF NotificationsInv

\* No table and no connection changes.
LEMMA GoesKeeps ==
  ASSUME NotificationsInv, NEW w \in Workers, ~ At(w, "clear"), NEW next \in OrNull(Sending),
         sending' = [sending EXCEPT ![w] = next], next # None => SoundSending(next),
         UNCHANGED <<noticeTables, realtime, halfDone, cron, noticeScope>>
  PROVE  NotificationsInv'
<1>1. UNCHANGED <<notice, pushToken, preference, template, purged>>
  BY DEF noticeTables
<1>2. UserTables' /\ TemplateRows' /\ Subscriptions'
  BY <1>1, UserTablesKept, TemplatesKept, SubscriptionsKept DEF NotificationsInv
<1> QED BY <1>1, <1>2, HandlerKeeps

\* What no handler takes part in.
LEMMA OthersKeep ==
  ASSUME NotificationsInv, UNCHANGED <<sending, halfDone, noticeScope>>, cron' \subseteq {"notices", "tokens"},
         UserTables', TemplateRows', Subscriptions',
         \A k \in PushTokens : pushToken'[k] # None /\ pushToken'[k].active =>
           /\ pushToken[k] # None /\ pushToken[k].active
           /\ pushToken'[k].user = pushToken[k].user /\ pushToken'[k].device = pushToken[k].device
  PROVE  NotificationsInv'
<1>1. HandlersTyped'
  BY DEF NotificationsInv, HandlersTyped
<1>2. TwinsExplained'
  BY TwinsKept DEF NotificationsInv
<1> QED BY <1>1, <1>2 DEF NotificationsInv
-----------------------------------------------------------------------------
(* Sending *)

LEMMA SendingFields ==
  ASSUME HandlersTyped, NEW w \in Workers, sending[w] # None
  PROVE  LET t == sending[w]
         IN  /\ t \in Sending /\ SoundSending(t)
             /\ t.op \in NoticeSteps /\ t.by \in NoticeOps /\ t.to \subseteq Recipients
             /\ t.dashboard \subseteq Recipients /\ t.push \subseteq Recipients
             /\ t.channel \in DeliveryChannels /\ t.key \in OrNull(TemplateKeys)
             /\ t.batch \in OrNull(Batches) /\ t.tokens \subseteq PushTokens
             /\ t.user \in OrNull(Recipients) /\ t.device \in OrNull(Devices)
             /\ t.template \in OrNull(TemplateIds) /\ t.setting \in OrNull(Channels) /\ t.value \in BOOLEAN
BY DEF HandlersTyped, OrNull, Sending

LEMMA BeginKeeps ==
  ASSUME NotificationsInv, NEW w \in Workers, NEW t \in Sending, Calls(w, t), SoundSending(t)
  PROVE  NotificationsInv'
<1>1. /\ sending[w] = None /\ sending' = [sending EXCEPT ![w] = t]
      /\ UNCHANGED <<noticeTables, realtime, halfDone, cron, noticeScope>>
  BY DEF Calls
<1>2. ~ At(w, "clear") /\ t \in OrNull(Sending)
  BY <1>1 DEF At, OrNull
<1> QED BY <1>1, <1>2, GoesKeeps

\* What a request to send begins with.
LEMMA NewSendingTyped ==
  ASSUME NEW op \in NoticeOps, NEW step \in NoticeSteps
  PROVE  [NewSending(op) EXCEPT !.op = step] \in Sending
BY DEF NewSending, Sending, OrNull, DeliveryChannels

LEMMA SendBeginKeeps ==
  ASSUME NotificationsInv, NEW w \in Workers, NEW body \in NoticeBodies, SendBegin(w, body)
  PROVE  NotificationsInv'
<1> DEFINE t == [NewSending("send") EXCEPT !.op = "queue", !.to = ResolvedRecipients(body),
                                         !.channel = body.channel, !.key = body.key]
<1>1. Calls(w, t)
  BY DEF SendBegin
<1>2. /\ body.members \in OrNull(SUBSET Recipients) /\ body.to \subseteq Recipients
      /\ body.audience \subseteq Recipients /\ body.key \in OrNull(TemplateKeys) /\ body.channel \in DeliveryChannels
  BY NotificationsAssumption DEF NoticeBody
<1>3. ResolvedRecipients(body) \subseteq Recipients
  BY <1>2 DEF ResolvedRecipients, OrNull
<1>4. t \in Sending /\ t.op = "queue"
  BY <1>2, <1>3 DEF NewSending, Sending, OrNull, NoticeSteps, NoticeOps
<1> HIDE DEF t
<1>5. SoundSending(t)
  BY <1>4 DEF SoundSending
<1> QED BY <1>1, <1>4, <1>5, BeginKeeps

LEMMA PropertyPublishedKeeps ==
  ASSUME NotificationsInv, NEW w \in Workers, NEW owners \in SUBSET noticeScope.users, PropertyPublished(w, owners)
  PROVE  NotificationsInv'
<1> DEFINE t == [NewSending("property") EXCEPT !.op = "queue", !.to = owners, !.key = SystemKey]
<1>1. Calls(w, t)
  BY DEF PropertyPublished
<1>2. owners \subseteq Recipients /\ SystemKey \in TemplateKeys
  BY ScopeFields, NotificationsAssumption DEF NotificationsInv
<1>3. t \in Sending /\ t.op = "queue"
  BY <1>2 DEF NewSending, Sending, OrNull, NoticeSteps, NoticeOps, DeliveryChannels
<1> HIDE DEF t
<1>4. SoundSending(t)
  BY <1>3 DEF SoundSending
<1> QED BY <1>1, <1>3, <1>4, BeginKeeps

LEMMA ReadPreferencesKeeps ==
  ASSUME NotificationsInv, NEW w \in Workers, ReadPreferences(w)
  PROVE  NotificationsInv'
<1> DEFINE t == sending[w]
           next == [t EXCEPT !.op = "insert",
                           !.dashboard = IF t.channel = "PUSH" THEN {} ELSE Enabled(t.to, "dashboard"),
                           !.push = Enabled(t.to, "push")]
<1>1. At(w, "queue") /\ Goes(w, next) /\ UNCHANGED noticeTables
  BY DEF ReadPreferences
<1>2. t \in Sending /\ t.to \subseteq Recipients
  BY <1>1, SendingFields DEF At, NotificationsInv
<1>3. Enabled(t.to, "dashboard") \subseteq Recipients /\ Enabled(t.to, "push") \subseteq Recipients
  BY <1>2 DEF Enabled
<1>4. next \in Sending /\ next.op = "insert"
  BY <1>2, <1>3 DEF Sending, NoticeSteps
<1> HIDE DEF next
<1>5. SoundSending(next) /\ next \in OrNull(Sending) /\ ~ At(w, "clear")
  BY <1>1, <1>4 DEF SoundSending, OrNull, At
<1> QED BY <1>1, <1>5, GoesKeeps DEF Goes

\* A new batch holds one live row for each of its recipients.
LEMMA BatchTyped ==
  ASSUME UserTables, NEW b \in Batches, NEW us \in SUBSET Recipients, us \cap purged = {}, NEW row \in Notice,
         notice' = [notice EXCEPT ![b] = [u \in Recipients |-> IF u \in us THEN row ELSE None]],
         UNCHANGED <<pushToken, preference, purged>>
  PROVE  UserTables'
<1>1. notice' \in [Batches -> [Recipients -> OrNull(Notice)]]
  BY DEF UserTables, OrNull
<1>2. \A u \in purged, c \in Batches : ~ HasRow(c, u)'
  BY DEF UserTables, HasRow
<1> QED BY <1>1, <1>2 DEF UserTables

LEMMA InsertNoticesKeeps ==
  ASSUME NotificationsInv, NEW w \in Workers, InsertNotices(w)
  PROVE  NotificationsInv'
<1> DEFINE t == sending[w]
           row == [life |-> "live", read |-> FALSE, archived |-> FALSE, key |-> t.key,
                   pushStatus |-> IF t.channel = "DASHBOARD" THEN "SKIPPED" ELSE "QUEUED"]
<1>1. At(w, "insert") /\ UNCHANGED <<pushToken, preference, template, purged>>
  BY DEF InsertNotices
<1>2. t \in Sending /\ t.dashboard \subseteq Recipients /\ t.key \in OrNull(TemplateKeys) /\ ~ At(w, "clear")
  BY <1>1, SendingFields DEF At, NotificationsInv
<1>3. CASE /\ t.dashboard = {} \/ t.dashboard \cap purged # {}
           /\ \E next \in {None, [t EXCEPT !.op = "count"]} : Goes(w, next)
           /\ UNCHANGED notice
  <2>1. PICK next \in {None, [t EXCEPT !.op = "count"]} : Goes(w, next)
    BY <1>3
  <2>2. next # None => next \in Sending /\ next.op = "count"
    BY <1>2 DEF Sending, NoticeSteps
  <2>3. next \in OrNull(Sending) /\ (next # None => SoundSending(next))
    BY <2>2 DEF OrNull, SoundSending
  <2> QED BY <1>1, <1>2, <1>3, <2>1, <2>3, GoesKeeps DEF Goes, noticeTables
<1>4. CASE /\ t.dashboard \cap purged = {}
           /\ \E b \in Batches :
                /\ notice' = [notice EXCEPT ![b] = [u \in Recipients |-> IF u \in t.dashboard THEN row ELSE None]]
                /\ Goes(w, [t EXCEPT !.op = "publish", !.batch = b])
  <2>1. PICK b \in Batches :
          /\ notice' = [notice EXCEPT ![b] = [u \in Recipients |-> IF u \in t.dashboard THEN row ELSE None]]
          /\ Goes(w, [t EXCEPT !.op = "publish", !.batch = b])
    BY <1>4
  <2> DEFINE next == [t EXCEPT !.op = "publish", !.batch = b]
  <2>2. row \in Notice
    BY <1>2 DEF Notice
  <2> HIDE DEF row
  <2>2a. PICK us \in SUBSET Recipients : us = t.dashboard
    BY <1>2
  <2>2b. notice' = [notice EXCEPT ![b] = [u \in Recipients |-> IF u \in us THEN row ELSE None]] /\ us \cap purged = {}
    BY <1>4, <2>1, <2>2a
  <2>2c. UserTables /\ UNCHANGED <<pushToken, preference, purged>>
    BY <1>1 DEF NotificationsInv
  <2>3. UserTables'
    BY ONLY <2>2, <2>2b, <2>2c, b \in Batches, us \in SUBSET Recipients, BatchTyped
  <2>4. next \in Sending /\ next.op = "publish" /\ next.batch \in Batches
    BY <1>2 DEF Sending, NoticeSteps, OrNull
  <2>5. Goes(w, next)
    BY <2>1
  <2> HIDE DEF next
  <2>6. next \in OrNull(Sending) /\ SoundSending(next)
    BY <2>4 DEF OrNull, SoundSending
  <2>7. TemplateRows' /\ Subscriptions'
    BY <1>1, <2>5, TemplatesKept, SubscriptionsKept DEF NotificationsInv, Goes
  <2> QED BY <1>1, <1>2, <2>3, <2>5, <2>6, <2>7, HandlerKeeps DEF Goes
<1> QED BY <1>3, <1>4 DEF InsertNotices

LEMMA PublishKeeps ==
  ASSUME NotificationsInv, NEW w \in Workers, Publish(w)
  PROVE  NotificationsInv'
<1> DEFINE t == sending[w]
           next == [t EXCEPT !.op = "count"]
<1>1. /\ At(w, "publish") /\ sending' = [sending EXCEPT ![w] = next]
      /\ conn' = [s \in Sockets |->
                    IF conn[s] # None /\ conn[s].user \in t.dashboard /\ Registered(s)
                    THEN [conn[s] EXCEPT !.got = @ \cup {t.batch}] ELSE conn[s]]
      /\ UNCHANGED <<noticeTables, registry, group, halfDone, cron, noticeScope>>
  BY DEF Publish
<1>2. t \in Sending /\ SoundSending(t) /\ t.batch \in OrNull(Batches) /\ ~ At(w, "clear")
  BY <1>1, SendingFields DEF At, NotificationsInv
<1>3. next \in Sending /\ next.op = "count"
  BY <1>2 DEF Sending, NoticeSteps
<1>4. t.batch \in Batches
  BY <1>1, <1>2 DEF SoundSending, At, OrNull
<1> HIDE DEF next
<1>5. next \in OrNull(Sending) /\ SoundSending(next)
  BY <1>3 DEF OrNull, SoundSending
<1>6. \A s \in Sockets :
        /\ conn'[s] \in OrNull(Connection) /\ (conn'[s] = None <=> conn[s] = None)
        /\ conn[s] # None => /\ conn'[s].user = conn[s].user /\ conn'[s].state = conn[s].state
                             /\ conn'[s].group = conn[s].group /\ conn'[s].unsubscribed = conn[s].unsubscribed
  <2>1. \A c \in Connection :
          LET d == [c EXCEPT !.got = @ \cup {t.batch}]
          IN  /\ d \in Connection /\ d.user = c.user /\ d.state = c.state
              /\ d.group = c.group /\ d.unsubscribed = c.unsubscribed
    BY <1>4 DEF Connection
  <2>2. \A s \in Sockets : conn[s] # None => conn[s] \in Connection
    BY DEF NotificationsInv, Subscriptions, OrNull
  <2> QED BY <1>1, <2>1, <2>2, NotificationsAssumption DEF OrNull
<1>7. Subscriptions'
  <2>1. conn' \in [Sockets -> OrNull(Connection)]
    BY <1>1, <1>6
  <2>2. \A s \in Sockets : IsOpen(s)' <=> IsOpen(s)
    BY <1>6 DEF IsOpen
  <2>3. Quiet' <=> Quiet
    BY <1>6 DEF Quiet
  <2> QED BY <1>1, <1>6, <2>1, <2>2, <2>3 DEF NotificationsInv, Subscriptions, IsOpen
<1>8. UserTables' /\ TemplateRows'
  BY <1>1, UserTablesKept, TemplatesKept DEF NotificationsInv, noticeTables
<1> QED BY <1>1, <1>2, <1>5, <1>7, <1>8, HandlerKeeps DEF noticeTables

LEMMA CountTokensKeeps ==
  ASSUME NotificationsInv, NEW w \in Workers, CountTokens(w)
  PROVE  NotificationsInv'
<1> DEFINE t == sending[w]
           next == IF t.channel = "DASHBOARD" THEN None
                   ELSE [t EXCEPT !.op = "push", !.dashboard = {}, !.batch = None]
<1>1. At(w, "count") /\ Goes(w, next) /\ UNCHANGED noticeTables
  BY DEF CountTokens
<1>2. t \in Sending
  BY <1>1, SendingFields DEF At, NotificationsInv
<1>3. next # None => next \in Sending /\ next.op = "push"
  BY <1>2 DEF Sending, NoticeSteps, OrNull
<1> HIDE DEF next
<1>4. next \in OrNull(Sending) /\ (next # None => SoundSending(next)) /\ ~ At(w, "clear")
  BY <1>1, <1>3 DEF OrNull, SoundSending, At
<1> QED BY <1>1, <1>4, GoesKeeps DEF Goes

-----------------------------------------------------------------------------
(* The push job *)

LEMMA TestPushKeeps ==
  ASSUME NotificationsInv, NEW w \in Workers, NEW u \in noticeScope.users, TestPush(w, u)
  PROVE  NotificationsInv'
<1> DEFINE t == [NewSending("test") EXCEPT !.op = "push", !.to = {u}, !.push = {u}]
<1>1. Calls(w, t) /\ u \in Recipients
  BY ScopeFields DEF TestPush, NotificationsInv
<1>2. t \in Sending /\ t.op = "push"
  BY <1>1 DEF NewSending, Sending, OrNull, NoticeSteps, NoticeOps, DeliveryChannels
<1> HIDE DEF t
<1>3. SoundSending(t)
  BY <1>2 DEF SoundSending
<1> QED BY <1>1, <1>2, <1>3, BeginKeeps

LEMMA ReadTokensKeeps ==
  ASSUME NotificationsInv, NEW w \in Workers, ReadTokens(w)
  PROVE  NotificationsInv'
<1> DEFINE t == sending[w]
           next == [t EXCEPT !.op = "deliver", !.tokens = ActiveTokens(Enabled(t.push, "push"))]
<1>1. At(w, "push") /\ Goes(w, next) /\ UNCHANGED noticeTables
  BY DEF ReadTokens
<1>2. t \in Sending /\ ActiveTokens(Enabled(t.push, "push")) \subseteq PushTokens
  BY <1>1, SendingFields DEF At, NotificationsInv, ActiveTokens
<1>3. next \in Sending /\ next.op = "deliver"
  BY <1>2 DEF Sending, NoticeSteps
<1> HIDE DEF next
<1>4. next \in OrNull(Sending) /\ SoundSending(next) /\ ~ At(w, "clear")
  BY <1>1, <1>3 DEF OrNull, SoundSending, At
<1> QED BY <1>1, <1>4, GoesKeeps DEF Goes

LEMMA DeliverKeeps ==
  ASSUME NotificationsInv, NEW w \in Workers, NEW invalid \in SUBSET noticeScope.tokens, Deliver(w, invalid)
  PROVE  NotificationsInv'
<1> DEFINE t == sending[w]
           next == IF invalid = {} THEN None ELSE [t EXCEPT !.op = "deactivate", !.tokens = invalid]
<1>1. At(w, "deliver") /\ Goes(w, next) /\ UNCHANGED noticeTables
  BY DEF Deliver
<1>2. t \in Sending /\ invalid \subseteq PushTokens
  BY <1>1, SendingFields, ScopeFields DEF At, NotificationsInv
<1>3. next # None => next \in Sending /\ next.op = "deactivate"
  BY <1>2 DEF Sending, NoticeSteps
<1> HIDE DEF next
<1>4. next \in OrNull(Sending) /\ (next # None => SoundSending(next)) /\ ~ At(w, "clear")
  BY <1>1, <1>3 DEF OrNull, SoundSending, At
<1> QED BY <1>1, <1>4, GoesKeeps DEF Goes

\* A token is switched off, or kept as it is.
SwitchedOff(k) ==
  \/ pushToken'[k] = pushToken[k]
  \/ pushToken[k] # None /\ pushToken'[k] = [pushToken[k] EXCEPT !.active = FALSE, !.quiet = FALSE]

LEMMA TokensTyped ==
  ASSUME UserTables, pushToken' = [k \in PushTokens |-> pushToken'[k]],
         \A k \in PushTokens : SwitchedOff(k), UNCHANGED <<notice, preference, purged>>
  PROVE  /\ UserTables'
         /\ \A k \in PushTokens : pushToken'[k] # None /\ pushToken'[k].active =>
              pushToken'[k] = pushToken[k]
<1>1. \A k \in PushTokens : pushToken[k] = None \/ pushToken[k] \in PushSubscription
  BY DEF UserTables, OrNull
<1>2. \A t \in PushSubscription :
        LET off == [t EXCEPT !.active = FALSE, !.quiet = FALSE]
        IN  off \in PushSubscription /\ off.user = t.user /\ off.active = FALSE
  BY DEF PushSubscription
<1>3. \A k \in PushTokens :
        /\ pushToken'[k] \in OrNull(PushSubscription)
        /\ pushToken'[k] # None => pushToken[k] # None /\ pushToken'[k].user = pushToken[k].user
        /\ pushToken'[k] # None /\ pushToken'[k].active => pushToken'[k] = pushToken[k]
  <2> TAKE k \in PushTokens
  <2>1. CASE pushToken'[k] = pushToken[k]
    BY <1>1, <2>1 DEF OrNull
  <2>2. CASE pushToken[k] # None /\ pushToken'[k] = [pushToken[k] EXCEPT !.active = FALSE, !.quiet = FALSE]
    BY <1>1, <1>2, <2>2 DEF OrNull
  <2> QED BY <2>1, <2>2 DEF SwitchedOff
<1>4. pushToken' \in [PushTokens -> OrNull(PushSubscription)]
  BY <1>3
<1>5. \A u \in purged : /\ preference[u] = None
                        /\ \A b \in Batches : ~ HasRow(b, u)'
                        /\ \A k \in PushTokens : pushToken'[k] # None => pushToken'[k].user # u
  BY <1>3 DEF UserTables, HasRow
<1> QED BY <1>3, <1>4, <1>5 DEF UserTables, HasRow

LEMMA DeactivateKeeps ==
  ASSUME NotificationsInv, NEW w \in Workers, DeactivatePushTokens(w)
  PROVE  NotificationsInv'
<1>1. /\ At(w, "deactivate") /\ sending' = [sending EXCEPT ![w] = None]
      /\ UNCHANGED <<realtime, halfDone, cron, noticeScope>> /\ UNCHANGED <<notice, preference, template, purged>>
      /\ pushToken' = [k \in PushTokens |-> IF k \in sending[w].tokens /\ pushToken[k] # None
                         THEN [pushToken[k] EXCEPT !.active = FALSE, !.quiet = FALSE] ELSE pushToken[k]]
  BY DEF DeactivatePushTokens, Does, Goes
<1>2. /\ pushToken' = [k \in PushTokens |-> pushToken'[k]]
      /\ \A k \in PushTokens : SwitchedOff(k)
  BY <1>1 DEF SwitchedOff
<1>3. /\ UserTables'
      /\ \A k \in PushTokens : pushToken'[k] # None /\ pushToken'[k].active => pushToken'[k] = pushToken[k]
  BY <1>1, <1>2, TokensTyped DEF NotificationsInv
<1>4. TemplateRows' /\ Subscriptions'
  BY <1>1, TemplatesKept, SubscriptionsKept DEF NotificationsInv
<1>5. None \in OrNull(Sending) /\ ~ At(w, "clear")
  BY <1>1 DEF OrNull, At
<1> QED BY <1>1, <1>3, <1>4, <1>5, HandlerKeeps

\* After a crash nobody is connected, and what was to be switched off is not.
LEMMA CrashKeeps ==
  ASSUME NotificationsInv, UNCHANGED <<noticeTables, noticeScope>>,
         sending' = [v \in Workers |-> None],
         conn' = [s \in Sockets |-> IF conn[s] = None THEN None ELSE [conn[s] EXCEPT !.state = "closed"]],
         registry' = [u \in Recipients |-> None], group' = [s \in Sockets |-> {}],
         halfDone' = halfDone \cup UNION {sending[v].tokens : v \in {x \in Workers : At(x, "clear")}}, cron' = {}
  PROVE  NotificationsInv'
<1>1. UserTables' /\ TemplateRows' /\ UNCHANGED <<notice, pushToken, preference, template, purged>>
  BY UserTablesKept, TemplatesKept DEF NotificationsInv, noticeTables
<1>2. \A s \in Sockets :
        /\ conn'[s] \in OrNull(Connection) /\ ~ IsOpen(s)'
        /\ conn'[s] # None => conn'[s].state = "closed"
  <2>1. \A c \in Connection :
          LET d == [c EXCEPT !.state = "closed"] IN d \in Connection /\ d.state = "closed"
    BY DEF Connection
  <2>2. \A s \in Sockets : conn[s] # None => conn[s] \in Connection
    BY DEF NotificationsInv, Subscriptions, OrNull
  <2> QED BY <2>1, <2>2 DEF OrNull, IsOpen
<1>3. Subscriptions'
  <2>1. conn' \in [Sockets -> OrNull(Connection)]
    BY <1>2
  <2>2. registry' \in [Recipients -> OrNull(Sockets)] /\ group' \in [Sockets -> SUBSET Sockets]
    BY DEF OrNull
  <2> QED BY <1>2, <2>1, <2>2 DEF Subscriptions, IsOpen
<1>4. \A v \in Workers : At(v, "clear") => sending[v].tokens \subseteq PushTokens
  BY SendingFields DEF NotificationsInv, At
<1>5. halfDone' \subseteq PushTokens
  BY <1>4 DEF NotificationsInv, HandlersTyped
<1>6. HandlersTyped'
  BY <1>5 DEF NotificationsInv, HandlersTyped, OrNull
<1>7. TwinsExplained'
  <2> SUFFICES ASSUME NEW k \in PushTokens, NEW l \in PushTokens, Twins(k, l)
               PROVE  {k, l} \cap halfDone' # {}
    BY <1>1 DEF TwinsExplained, Twins
  <2>1. CASE {k, l} \cap halfDone # {}
    BY <2>1
  <2>2. CASE \E v \in Workers : Registers(v, k) \/ Registers(v, l)
    <3>1. PICK v \in Workers : At(v, "clear") /\ (sending[v].tokens = {k} \/ sending[v].tokens = {l})
      BY <2>2 DEF Registers
    <3>2. sending[v].tokens \subseteq halfDone'
      BY <3>1
    <3> QED BY <3>1, <3>2
  <2> QED BY <2>1, <2>2 DEF NotificationsInv, TwinsExplained
<1> QED BY <1>1, <1>3, <1>6, <1>7 DEF NotificationsInv

LEMMA PushFailsKeeps ==
  ASSUME NotificationsInv, NEW w \in Workers, PushFails(w)
  PROVE  NotificationsInv'
<1>1. CASE sending[w].by = "test"
  <2>1. /\ ~ At(w, "clear") /\ UNCHANGED <<noticeTables, noticeScope>>
        /\ sending' = [sending EXCEPT ![w] = None] /\ UNCHANGED <<realtime, halfDone, cron>>
    BY <1>1 DEF PushFails, At
  <2>2. None \in OrNull(Sending)
    BY DEF OrNull
  <2> QED BY <2>1, <2>2, GoesKeeps
<1>2. CASE sending[w].by # "test"
  <2>1. /\ UNCHANGED <<noticeTables, noticeScope>>
        /\ sending' = [v \in Workers |-> None]
        /\ conn' = [s \in Sockets |-> IF conn[s] = None THEN None ELSE [conn[s] EXCEPT !.state = "closed"]]
        /\ registry' = [u \in Recipients |-> None] /\ group' = [s \in Sockets |-> {}]
        /\ halfDone' = halfDone \cup UNION {sending[v].tokens : v \in {x \in Workers : At(x, "clear")}}
        /\ cron' = {}
    BY <1>2 DEF PushFails
  <2> QED BY <2>1, CrashKeeps
<1> QED BY <1>1, <1>2

-----------------------------------------------------------------------------
(* Push subscriptions *)

LEMMA RegisterBeginKeeps ==
  ASSUME NotificationsInv, NEW w \in Workers, NEW u \in noticeScope.users, NEW k \in noticeScope.tokens,
         NEW d \in OrNull(Devices), RegisterBegin(w, u, k, d)
  PROVE  NotificationsInv'
<1> DEFINE t == [NewSending("register") EXCEPT !.op = "write", !.user = u, !.tokens = {k}, !.device = d]
<1>1. Calls(w, t) /\ u \in Recipients /\ k \in PushTokens
  BY ScopeFields DEF RegisterBegin, NotificationsInv
<1>2. t \in Sending /\ t.op = "write" /\ t.by = "register" /\ t.user = u /\ t.tokens = {k}
  BY <1>1 DEF NewSending, Sending, OrNull, NoticeSteps, NoticeOps, DeliveryChannels
<1> HIDE DEF t
<1>3. SoundSending(t)
  BY <1>1, <1>2 DEF SoundSending
<1> QED BY <1>1, <1>2, <1>3, BeginKeeps

\* Taking over a token leaves it to this handler to switch off its twins.
LEMMA UpsertKeeps ==
  ASSUME NotificationsInv, NEW w \in Workers, UpsertToken(w)
  PROVE  NotificationsInv'
<1> DEFINE t == sending[w]
           next == IF t.device = None THEN None ELSE [t EXCEPT !.op = "clear"]
           row == [user |-> t.user, device |-> t.device, active |-> TRUE, quiet |-> FALSE, stale |-> FALSE]
<1>1. /\ At(w, "write") /\ t.by = "register" /\ t.user \notin purged
      /\ sending' = [sending EXCEPT ![w] = next]
      /\ pushToken' = [k \in PushTokens |-> IF k \notin t.tokens THEN pushToken[k] ELSE row]
      /\ halfDone' = halfDone \ t.tokens
      /\ UNCHANGED <<notice, preference, template, purged, realtime, cron, noticeScope>>
  BY DEF UpsertToken
<1>2. /\ t \in Sending /\ SoundSending(t) /\ t.device \in OrNull(Devices)
  BY <1>1, SendingFields DEF At, NotificationsInv
<1>3. t.user \in Recipients
  BY <1>1, <1>2 DEF SoundSending, At
<1>4. PICK q \in PushTokens : t.tokens = {q}
  BY <1>1, <1>2 DEF SoundSending, At
<1>5. row \in PushSubscription /\ row.user = t.user /\ row.device = t.device
  BY <1>2, <1>3 DEF PushSubscription
<1>6. next # None => /\ next \in Sending /\ next.op = "clear" /\ next.user = t.user
                     /\ next.tokens = t.tokens /\ next.device = t.device
  BY <1>2 DEF Sending, NoticeSteps
<1>7. t.device # None => next # None
  BY <1>6, NotificationsAssumption, <1>2 DEF Sending, NoticeSteps
<1> HIDE DEF next, row
<1>8. next \in OrNull(Sending) /\ (next # None => SoundSending(next)) /\ halfDone' \subseteq PushTokens
  BY <1>1, <1>3, <1>4, <1>6 DEF OrNull, SoundSending, NotificationsInv, HandlersTyped
<1>9. /\ HandlersTyped' /\ sending'[w] = next /\ \A v \in Workers \ {w} : sending'[v] = sending[v]
  BY <1>1, <1>8, StepTyped DEF NotificationsInv
<1>10. pushToken'[q] = row /\ \A k \in PushTokens \ {q} : pushToken'[k] = pushToken[k]
  BY <1>1, <1>4
<1>11. UserTables'
  <2>1. pushToken' \in [PushTokens -> OrNull(PushSubscription)]
    BY <1>1, <1>5 DEF NotificationsInv, UserTables, OrNull
  <2>2. \A u \in purged, k \in PushTokens : pushToken'[k] # None => pushToken'[k].user # u
    BY <1>1, <1>5, <1>10 DEF NotificationsInv, UserTables
  <2> QED BY <1>1, <2>1, <2>2 DEF NotificationsInv, UserTables, HasRow
<1>12. TwinsExplained'
  <2> SUFFICES ASSUME NEW k \in PushTokens, NEW l \in PushTokens, Twins(k, l)'
               PROVE  \/ {k, l} \cap halfDone' # {}
                      \/ \E v \in Workers : Registers(v, k)' \/ Registers(v, l)'
    BY DEF TwinsExplained
  <2>1. CASE k = q \/ l = q
    <3>1. pushToken'[q].device # None
      BY <2>1 DEF Twins
    <3>2. t.device # None
      BY <1>5, <1>10, <3>1
    <3>3. Registers(w, q)'
      BY <1>4, <1>5, <1>6, <1>7, <1>9, <1>10, <3>2 DEF Registers, At
    <3> QED BY <2>1, <3>3
  <2>2. CASE k # q /\ l # q
    <3>1. Twins(k, l)
      BY <1>10, <2>2 DEF Twins
    <3>2. CASE {k, l} \cap halfDone # {}
      BY <1>1, <1>4, <2>2, <3>2
    <3>3. CASE \E v \in Workers : Registers(v, k) \/ Registers(v, l)
      <4>1. PICK v \in Workers : Registers(v, k) \/ Registers(v, l)
        BY <3>3
      <4>2. v # w /\ sending'[v] = sending[v]
        BY <1>1, <1>9, <4>1 DEF Registers, At
      <4>3. Registers(v, k)' \/ Registers(v, l)'
        BY <1>10, <2>2, <4>1, <4>2 DEF Registers, At
      <4> QED BY <4>3
    <3> QED BY <3>1, <3>2, <3>3 DEF NotificationsInv, TwinsExplained
  <2> QED BY <2>1, <2>2
<1>13. TemplateRows' /\ Subscriptions'
  BY <1>1, TemplatesKept, SubscriptionsKept DEF NotificationsInv
<1> QED BY <1>9, <1>11, <1>12, <1>13 DEF NotificationsInv

LEMMA UpsertFailsKeeps ==
  ASSUME NotificationsInv, NEW w \in Workers, UpsertFails(w)
  PROVE  NotificationsInv'
<1>1. /\ At(w, "write") /\ sending' = [sending EXCEPT ![w] = None]
      /\ UNCHANGED <<noticeTables, realtime, halfDone, cron, noticeScope>>
  BY DEF UpsertFails, Does, Goes
<1>2. None \in OrNull(Sending) /\ ~ At(w, "clear")
  BY <1>1 DEF OrNull, At
<1> QED BY <1>1, <1>2, GoesKeeps

\* Switching off the twins of a token is what this handler was to do.
LEMMA ClearKeeps ==
  ASSUME NotificationsInv, NEW w \in Workers, ClearOtherTokens(w)
  PROVE  NotificationsInv'
<1> DEFINE t == sending[w]
<1>1. /\ At(w, "clear") /\ sending' = [sending EXCEPT ![w] = None]
      /\ UNCHANGED <<realtime, halfDone, cron, noticeScope>> /\ UNCHANGED <<notice, preference, template, purged>>
      /\ pushToken' = [k \in PushTokens |-> IF k \in OtherTokens(t)
                         THEN [pushToken[k] EXCEPT !.active = FALSE, !.quiet = FALSE] ELSE pushToken[k]]
  BY DEF ClearOtherTokens, Does, Goes
<1>2. /\ pushToken' = [k \in PushTokens |-> pushToken'[k]]
      /\ \A k \in PushTokens : SwitchedOff(k)
  BY <1>1 DEF SwitchedOff, OtherTokens
<1>3. /\ UserTables'
      /\ \A k \in PushTokens : pushToken'[k] # None /\ pushToken'[k].active => pushToken'[k] = pushToken[k]
  BY <1>1, <1>2, TokensTyped DEF NotificationsInv
<1>4. TemplateRows' /\ Subscriptions'
  BY <1>1, TemplatesKept, SubscriptionsKept DEF NotificationsInv
<1>5. None \in OrNull(Sending)
  BY DEF OrNull
<1>6. HandlersTyped' /\ \A v \in Workers \ {w} : sending'[v] = sending[v]
  BY <1>1, <1>5, StepTyped DEF NotificationsInv, HandlersTyped
<1>7. \A k \in OtherTokens(t) : ~ pushToken'[k].active
  <2>1. \A k \in PushTokens : pushToken[k] # None => pushToken[k] \in PushSubscription
    BY DEF NotificationsInv, UserTables, OrNull
  <2> QED BY <1>1, <2>1 DEF OtherTokens, PushSubscription
<1>8. TwinsExplained'
  <2> SUFFICES ASSUME NEW k \in PushTokens, NEW l \in PushTokens, Twins(k, l)'
               PROVE  \/ {k, l} \cap halfDone # {}
                      \/ \E v \in Workers : Registers(v, k)' \/ Registers(v, l)'
    BY <1>1 DEF TwinsExplained
  <2>1. /\ pushToken'[k] = pushToken[k] /\ pushToken'[l] = pushToken[l] /\ Twins(k, l)
        /\ k \notin OtherTokens(t) /\ l \notin OtherTokens(t)
    BY <1>3, <1>7 DEF Twins
  <2>2. ~ Registers(w, k) /\ ~ Registers(w, l)
    BY <2>1 DEF Registers, OtherTokens, Twins
  <2>3. CASE \E v \in Workers : Registers(v, k) \/ Registers(v, l)
    <3>1. PICK v \in Workers : Registers(v, k) \/ Registers(v, l)
      BY <2>3
    <3>2. sending'[v] = sending[v]
      BY <1>6, <2>2, <3>1
    <3>3. Registers(v, k)' \/ Registers(v, l)'
      BY <2>1, <3>1, <3>2 DEF Registers, At
    <3> QED BY <3>3
  <2> QED BY <2>1, <2>3 DEF NotificationsInv, TwinsExplained
<1> QED BY <1>3, <1>4, <1>6, <1>8 DEF NotificationsInv

LEMMA UnregisterKeeps ==
  ASSUME NotificationsInv, NEW u, NEW k \in PushTokens, Unregister(u, k)
  PROVE  NotificationsInv'
<1>1. /\ UNCHANGED <<realtime, sending, halfDone, cron, noticeScope>> /\ UNCHANGED <<notice, preference, template, purged>>
      /\ pushToken[k] # None /\ pushToken' = [pushToken EXCEPT ![k].active = FALSE, ![k].quiet = FALSE]
  BY DEF Unregister, Once
<1>2. /\ pushToken' = [j \in PushTokens |-> pushToken'[j]]
      /\ \A j \in PushTokens : SwitchedOff(j)
  BY <1>1 DEF SwitchedOff, NotificationsInv, UserTables
<1>3. /\ UserTables'
      /\ \A j \in PushTokens : pushToken'[j] # None /\ pushToken'[j].active => pushToken'[j] = pushToken[j]
  BY <1>1, <1>2, TokensTyped DEF NotificationsInv
<1>4. TemplateRows' /\ Subscriptions' /\ cron' \subseteq {"notices", "tokens"}
  BY <1>1, TemplatesKept, SubscriptionsKept DEF NotificationsInv, HandlersTyped
<1> QED BY <1>1, <1>3, <1>4, OthersKeep

-----------------------------------------------------------------------------
(* Preferences *)

\* Who is gone has no preferences.
LEMMA PreferencesTyped ==
  ASSUME UserTables, NEW u \in Recipients, NEW value \in OrNull(SUBSET Channels),
         preference' = [preference EXCEPT ![u] = value], u \in purged => value = None,
         UNCHANGED <<notice, pushToken, purged>>
  PROVE  UserTables'
<1>1. preference' \in [Recipients -> OrNull(SUBSET Channels)]
  BY DEF UserTables
<1>2. \A v \in purged : preference'[v] = None
  BY DEF UserTables
<1> QED BY <1>1, <1>2 DEF UserTables, HasRow

LEMMA PreferenceBeginKeeps ==
  ASSUME NotificationsInv, NEW w \in Workers, NEW op \in {"getPreference", "updatePreference"},
         NEW u \in noticeScope.users, NEW c \in Channels, NEW v \in BOOLEAN, PreferenceBegin(w, op, u, c, v)
  PROVE  NotificationsInv'
<1> DEFINE t == [NewSending(op) EXCEPT !.op = "find", !.user = u, !.setting = c, !.value = v]
<1>1. Calls(w, t) /\ u \in Recipients
  BY ScopeFields DEF PreferenceBegin, NotificationsInv
<1>2. t \in Sending /\ t.op = "find" /\ t.user = u /\ t.setting = c
  BY <1>1 DEF NewSending, Sending, OrNull, NoticeSteps, NoticeOps, DeliveryChannels
<1> HIDE DEF t
<1>3. SoundSending(t)
  BY <1>1, <1>2 DEF SoundSending
<1> QED BY <1>1, <1>2, <1>3, BeginKeeps

\* The next step of a request about preferences.
LEMMA PreferenceStep ==
  ASSUME NotificationsInv, NEW w \in Workers, sending[w] # None,
         sending[w].op \in {"find", "createPreference", "setPreference"}
  PROVE  LET t == sending[w]
         IN  /\ t.user \in Recipients /\ t.setting \in Channels /\ ~ At(w, "clear")
             /\ \A next \in {None, AfterPreference(t), [t EXCEPT !.op = "createPreference"]} :
                  next \in OrNull(Sending) /\ (next # None => SoundSending(next))
<1> DEFINE t == sending[w]
<1>1. t \in Sending /\ t.user \in Recipients /\ t.setting \in Channels
  BY SendingFields DEF NotificationsInv, SoundSending
<1>2. \A op \in {"createPreference", "setPreference"} :
        LET next == [t EXCEPT !.op = op]
        IN  next \in Sending /\ next.op = op /\ next.user = t.user /\ next.setting = t.setting
  BY <1>1 DEF Sending, NoticeSteps
<1>3. \A op \in {"createPreference", "setPreference"} : SoundSending([t EXCEPT !.op = op])
  BY <1>1, <1>2 DEF SoundSending
<1> QED BY <1>1, <1>2, <1>3 DEF AfterPreference, OrNull, At

LEMMA FindPreferenceKeeps ==
  ASSUME NotificationsInv, NEW w \in Workers, FindPreference(w)
  PROVE  NotificationsInv'
<1> DEFINE t == sending[w]
<1>1. PICK next \in {None, AfterPreference(t), [t EXCEPT !.op = "createPreference"]} : Goes(w, next)
  BY DEF FindPreference
<1>2. t # None /\ t.op = "find" /\ UNCHANGED noticeTables
  BY DEF FindPreference, At
<1>3. next \in OrNull(Sending) /\ (next # None => SoundSending(next)) /\ ~ At(w, "clear")
  BY <1>1, <1>2, PreferenceStep
<1> QED BY <1>1, <1>2, <1>3, GoesKeeps DEF Goes

LEMMA CreatePreferenceKeeps ==
  ASSUME NotificationsInv, NEW w \in Workers, CreatePreference(w)
  PROVE  NotificationsInv'
<1> DEFINE t == sending[w]
<1>1. PICK next \in {None, AfterPreference(t), [t EXCEPT !.op = "createPreference"]} : Goes(w, next)
  BY DEF CreatePreference
<1>2. t # None /\ t.op = "createPreference" /\ UNCHANGED <<notice, pushToken, template, purged>>
  BY DEF CreatePreference, At
<1>3. /\ next \in OrNull(Sending) /\ (next # None => SoundSending(next)) /\ ~ At(w, "clear")
      /\ t.user \in Recipients
  BY <1>1, <1>2, PreferenceStep
<1>4. UserTables'
  <2>1. CASE preference' = [preference EXCEPT ![t.user] = Channels] /\ t.user \notin purged
    <3>1. Channels \in OrNull(SUBSET Channels)
      BY DEF OrNull
    <3> QED BY <1>2, <1>3, <2>1, <3>1, PreferencesTyped DEF NotificationsInv
  <2>2. CASE UNCHANGED preference
    BY <1>2, <2>2, UserTablesKept DEF NotificationsInv
  <2> QED BY <2>1, <2>2 DEF CreatePreference
<1>5. TemplateRows' /\ Subscriptions'
  BY <1>1, <1>2, TemplatesKept, SubscriptionsKept DEF NotificationsInv, Goes
<1> QED BY <1>1, <1>2, <1>3, <1>4, <1>5, HandlerKeeps DEF Goes

LEMMA SetPreferenceKeeps ==
  ASSUME NotificationsInv, NEW w \in Workers, SetPreference(w)
  PROVE  NotificationsInv'
<1> DEFINE t == sending[w]
           old == preference[t.user]
           value == IF old = None THEN None ELSE IF t.value THEN old \cup {t.setting} ELSE old \ {t.setting}
<1>1. /\ t # None /\ t.op = "setPreference" /\ sending' = [sending EXCEPT ![w] = None]
      /\ UNCHANGED <<realtime, halfDone, cron, noticeScope>> /\ UNCHANGED <<notice, pushToken, template, purged>>
      /\ preference' = [preference EXCEPT ![t.user] = value]
  BY DEF SetPreference, Does, Goes, At
<1>2. t.user \in Recipients /\ t.setting \in Channels /\ ~ At(w, "clear") /\ None \in OrNull(Sending)
  BY <1>1, PreferenceStep DEF OrNull
<1>3. value \in OrNull(SUBSET Channels) /\ (t.user \in purged => value = None)
  BY <1>2 DEF NotificationsInv, UserTables, OrNull
<1> HIDE DEF value
<1>4. UserTables'
  BY <1>1, <1>2, <1>3, PreferencesTyped DEF NotificationsInv
<1>5. TemplateRows' /\ Subscriptions'
  BY <1>1, TemplatesKept, SubscriptionsKept DEF NotificationsInv
<1> QED BY <1>1, <1>2, <1>4, <1>5, HandlerKeeps

-----------------------------------------------------------------------------
(* The inbox, and what time and the kernel service do to it *)

\* Rows change, and none comes back.
LEMMA NoticesTyped ==
  ASSUME UserTables, notice' \in [Batches -> [Recipients -> OrNull(Notice)]],
         \A b \in Batches, u \in Recipients : HasRow(b, u)' => HasRow(b, u),
         UNCHANGED <<pushToken, preference, purged>>
  PROVE  UserTables'
BY DEF UserTables

LEMMA NoticeFields ==
  ASSUME UserTables, NEW b \in Batches, NEW u \in Recipients
  PROVE  notice[b][u] = None \/ notice[b][u] \in Notice
BY DEF UserTables, OrNull

LEMMA InboxKeeps ==
  ASSUME NotificationsInv, NEW op, Once(op), UNCHANGED <<pushToken, preference, template, purged>>,
         notice' \in [Batches -> [Recipients -> OrNull(Notice)]],
         \A b \in Batches, u \in Recipients : HasRow(b, u)' => HasRow(b, u)
  PROVE  NotificationsInv'
<1>1. UserTables' /\ TemplateRows' /\ Subscriptions'
  BY NoticesTyped, TemplatesKept, SubscriptionsKept DEF NotificationsInv, Once
<1>2. cron' \subseteq {"notices", "tokens"}
  BY DEF NotificationsInv, HandlersTyped, Once
<1> QED BY <1>1, <1>2, OthersKeep DEF Once

LEMMA ChangeNoticeKeeps ==
  ASSUME NotificationsInv, NEW b \in Batches, NEW u \in Recipients, NEW row \in Notice, ChangeNotice(b, u, row)
  PROVE  NotificationsInv'
<1>1. /\ Once("read") /\ HasRow(b, u) /\ notice' = [notice EXCEPT ![b][u] = row]
      /\ UNCHANGED <<pushToken, preference, template, purged>>
  BY DEF ChangeNotice
<1>2. notice \in [Batches -> [Recipients -> OrNull(Notice)]]
  BY DEF NotificationsInv, UserTables
<1>3. /\ notice' \in [Batches -> [Recipients -> OrNull(Notice)]]
      /\ \A c \in Batches, v \in Recipients : c # b \/ v # u => notice'[c][v] = notice[c][v]
  BY <1>1, <1>2 DEF OrNull
<1>4. \A c \in Batches, v \in Recipients : HasRow(c, v)' => HasRow(c, v)
  BY <1>1, <1>3 DEF HasRow
<1> QED BY <1>1, <1>3, <1>4, InboxKeeps

LEMMA InboxStepsKeep ==
  ASSUME NotificationsInv, NEW b \in noticeScope.batches, NEW u \in noticeScope.users,
         MarkRead(b, u) \/ Archive(b, u) \/ DeleteNotice(b, u)
  PROVE  NotificationsInv'
<1>1. b \in Batches /\ u \in Recipients
  BY ScopeFields DEF NotificationsInv
<1>2. notice[b][u] \in Notice
  BY <1>1, NoticeFields DEF NotificationsInv, MarkRead, Archive, DeleteNotice, ChangeNotice, HasRow
<1>3. /\ [notice[b][u] EXCEPT !.read = TRUE] \in Notice
      /\ [notice[b][u] EXCEPT !.archived = TRUE, !.read = TRUE] \in Notice
      /\ [notice[b][u] EXCEPT !.life = "deleted", !.read = TRUE] \in Notice
  BY <1>2 DEF Notice
<1> QED BY <1>1, <1>3, ChangeNoticeKeeps DEF MarkRead, Archive, DeleteNotice

LEMMA MarkAllReadKeeps ==
  ASSUME NotificationsInv, NEW u \in noticeScope.users, MarkAllRead(u)
  PROVE  NotificationsInv'
<1>1. /\ Once("read") /\ UNCHANGED <<pushToken, preference, template, purged>>
      /\ notice' = [b \in Batches |-> IF Unread(b, u) THEN [notice[b] EXCEPT ![u].read = TRUE] ELSE notice[b]]
  BY DEF MarkAllRead
<1>2. u \in Recipients /\ notice \in [Batches -> [Recipients -> OrNull(Notice)]]
  BY ScopeFields DEF NotificationsInv, UserTables
<1>3. \A b \in Batches : Unread(b, u) => notice[b][u] \in Notice /\ HasRow(b, u)
  BY <1>2, NoticeFields DEF Unread, HasRow, NotificationsInv
<1>4. \A row \in Notice : [row EXCEPT !.read = TRUE] \in Notice
  BY DEF Notice
<1>5. \A b \in Batches :
        /\ notice'[b] \in [Recipients -> OrNull(Notice)]
        /\ \A v \in Recipients : notice'[b][v] = notice[b][v] \/ HasRow(b, v)
  <2> TAKE b \in Batches
  <2>1. CASE Unread(b, u)
    <3>1. notice'[b] = [notice[b] EXCEPT ![u] = [notice[b][u] EXCEPT !.read = TRUE]]
      BY <1>1, <2>1
    <3> QED BY <1>2, <1>3, <1>4, <2>1, <3>1 DEF OrNull
  <2>2. CASE ~ Unread(b, u)
    BY <1>1, <1>2, <2>2
  <2> QED BY <2>1, <2>2
<1>6. notice' \in [Batches -> [Recipients -> OrNull(Notice)]]
  BY <1>1, <1>5
<1>7. \A b \in Batches, v \in Recipients : HasRow(b, v)' => HasRow(b, v)
  BY <1>5 DEF HasRow
<1> QED BY <1>1, <1>6, <1>7, InboxKeeps

\* A user who is deleted leaves no row, no token and no preferences.
LEMMA UserPurgedKeeps ==
  ASSUME NotificationsInv, NEW u \in noticeScope.users, UserPurged(u)
  PROVE  NotificationsInv'
<1>1. /\ Once("purgeUser") /\ purged' = purged \cup {u}
      /\ notice' = [b \in Batches |-> IF HasRow(b, u) THEN [notice[b] EXCEPT ![u].life = "gone"] ELSE notice[b]]
      /\ pushToken' = [k \in PushTokens |-> IF pushToken[k] # None /\ pushToken[k].user = u
                         THEN None ELSE pushToken[k]]
      /\ preference' = [preference EXCEPT ![u] = None] /\ UNCHANGED template
  BY DEF UserPurged
<1>2. /\ u \in Recipients /\ notice \in [Batches -> [Recipients -> OrNull(Notice)]]
      /\ preference \in [Recipients -> OrNull(SUBSET Channels)]
      /\ pushToken \in [PushTokens -> OrNull(PushSubscription)]
  BY ScopeFields DEF NotificationsInv, UserTables
<1>3. \A b \in Batches : HasRow(b, u) => notice[b][u] \in Notice
  BY <1>2, NoticeFields DEF HasRow, NotificationsInv
<1>4. \A row \in Notice : LET gone == [row EXCEPT !.life = "gone"] IN gone \in Notice /\ gone.life = "gone"
  BY DEF Notice
<1>5. \A b \in Batches :
        /\ notice'[b] \in [Recipients -> OrNull(Notice)] /\ ~ HasRow(b, u)'
        /\ \A v \in Recipients : HasRow(b, v)' => HasRow(b, v)
  <2> TAKE b \in Batches
  <2>1. CASE HasRow(b, u)
    <3>1. notice'[b] = [notice[b] EXCEPT ![u] = [notice[b][u] EXCEPT !.life = "gone"]]
      BY <1>1, <2>1
    <3>2. notice'[b] \in [Recipients -> OrNull(Notice)]
      BY <1>2, <1>3, <1>4, <2>1, <3>1 DEF OrNull
    <3>3. ~ HasRow(b, u)'
      BY <1>2, <1>3, <1>4, <2>1, <3>1 DEF HasRow
    <3>4. \A v \in Recipients \ {u} : notice'[b][v] = notice[b][v]
      BY <1>2, <3>1
    <3> QED BY <3>2, <3>3, <3>4 DEF HasRow
  <2>2. CASE ~ HasRow(b, u)
    BY <1>1, <1>2, <2>2 DEF HasRow
  <2> QED BY <2>1, <2>2
<1>6. UserTables'
  <2>1. notice' \in [Batches -> [Recipients -> OrNull(Notice)]]
    BY <1>1, <1>5
  <2>2. pushToken' \in [PushTokens -> OrNull(PushSubscription)]
    BY <1>1, <1>2 DEF OrNull
  <2>3. preference' \in [Recipients -> OrNull(SUBSET Channels)]
    BY <1>1, <1>2 DEF OrNull
  <2>4. purged' \subseteq Recipients
    BY <1>1, <1>2 DEF NotificationsInv, UserTables
  <2>5. \A v \in purged' : /\ preference'[v] = None
                           /\ \A b \in Batches : ~ HasRow(b, v)'
                           /\ \A k \in PushTokens : pushToken'[k] # None => pushToken'[k].user # v
    <3> TAKE v \in purged'
    <3>1. CASE v = u
      BY <1>1, <1>2, <1>5, <3>1
    <3>2. CASE v # u
      <4>1. v \in purged /\ v \in Recipients
        BY <1>1, <3>2 DEF NotificationsInv, UserTables
      <4> QED BY <1>1, <1>2, <1>5, <3>2, <4>1 DEF NotificationsInv, UserTables
    <3> QED BY <3>1, <3>2
  <2> QED BY <2>1, <2>2, <2>3, <2>4, <2>5 DEF UserTables
<1>7. TemplateRows' /\ Subscriptions' /\ cron' \subseteq {"notices", "tokens"}
  BY <1>1, TemplatesKept, SubscriptionsKept DEF NotificationsInv, HandlersTyped, Once
<1>8. \A k \in PushTokens : pushToken'[k] # None => pushToken'[k] = pushToken[k]
  BY <1>1
<1> QED BY <1>1, <1>6, <1>7, <1>8, OthersKeep DEF Once

LEMMA CronStartKeeps == ASSUME NotificationsInv, CronStart PROVE NotificationsInv'
<1>1. /\ cron' = {"notices", "tokens"} /\ UNCHANGED <<notice, pushToken, preference, template, purged>>
      /\ UNCHANGED <<realtime, sending, halfDone, noticeScope>>
  BY DEF CronStart, noticeTables
<1>2. UserTables' /\ TemplateRows' /\ Subscriptions'
  BY <1>1, UserTablesKept, TemplatesKept, SubscriptionsKept DEF NotificationsInv
<1> QED BY <1>1, <1>2, OthersKeep

\* Rows of one life get another.
LEMMA LivesTyped ==
  ASSUME UserTables, NEW from \in {"deleted", "expired"}, NEW to \in {"expired", "gone"},
         notice' = [b \in Batches |-> [u \in Recipients |->
           IF HasRow(b, u) /\ notice[b][u].life = from THEN [notice[b][u] EXCEPT !.life = to] ELSE notice[b][u]]]
  PROVE  /\ notice' \in [Batches -> [Recipients -> OrNull(Notice)]]
         /\ \A b \in Batches, u \in Recipients : HasRow(b, u)' => HasRow(b, u)
<1>1. \A row \in Notice : [row EXCEPT !.life = to] \in Notice
  BY DEF Notice
<1>2. \A b \in Batches, u \in Recipients : notice'[b][u] \in OrNull(Notice)
  BY <1>1, NoticeFields DEF HasRow, OrNull
<1>3. notice' \in [Batches -> [Recipients -> OrNull(Notice)]]
  BY <1>2
<1>4. \A b \in Batches, u \in Recipients : HasRow(b, u)' => HasRow(b, u)
  BY DEF HasRow
<1> QED BY <1>3, <1>4

LEMMA PurgeNoticesKeeps == ASSUME NotificationsInv, PurgeNotices PROVE NotificationsInv'
<1>1. /\ cron' = cron \ {"notices"} /\ UNCHANGED <<pushToken, preference, template, purged>>
      /\ UNCHANGED <<realtime, sending, halfDone, noticeScope>>
      /\ notice' = [b \in Batches |-> [u \in Recipients |->
           IF HasRow(b, u) /\ notice[b][u].life = "expired" THEN [notice[b][u] EXCEPT !.life = "gone"]
           ELSE notice[b][u]]]
  BY DEF PurgeNotices
<1>2. UserTables'
  BY <1>1, LivesTyped, NoticesTyped DEF NotificationsInv
<1>3. TemplateRows' /\ Subscriptions' /\ cron' \subseteq {"notices", "tokens"}
  BY <1>1, TemplatesKept, SubscriptionsKept DEF NotificationsInv, HandlersTyped
<1> QED BY <1>1, <1>2, <1>3, OthersKeep

LEMMA PurgeTokensKeeps == ASSUME NotificationsInv, PurgeTokens PROVE NotificationsInv'
<1>1. /\ cron' = cron \ {"tokens"} /\ UNCHANGED <<notice, preference, template, purged>>
      /\ UNCHANGED <<realtime, sending, halfDone, noticeScope>>
      /\ pushToken' = [k \in PushTokens |->
           IF pushToken[k] # None /\ (pushToken[k].stale \/ (~pushToken[k].active /\ pushToken[k].quiet))
           THEN None ELSE pushToken[k]]
  BY DEF PurgeTokens
<1>2. UserTables'
  <2>1. pushToken' \in [PushTokens -> OrNull(PushSubscription)]
    BY <1>1 DEF NotificationsInv, UserTables, OrNull
  <2> QED BY <1>1, <2>1 DEF NotificationsInv, UserTables, HasRow
<1>3. TemplateRows' /\ Subscriptions' /\ cron' \subseteq {"notices", "tokens"}
  BY <1>1, TemplatesKept, SubscriptionsKept DEF NotificationsInv, HandlersTyped
<1>4. \A k \in PushTokens : pushToken'[k] # None => pushToken'[k] = pushToken[k]
  BY <1>1
<1> QED BY <1>1, <1>2, <1>3, <1>4, OthersKeep

LEMMA TimePassesKeeps ==
  ASSUME NotificationsInv, NEW long \in BOOLEAN, TimePasses(long)
  PROVE  NotificationsInv'
<1>1. /\ Once("cron") /\ UNCHANGED <<preference, template, purged>>
      /\ notice' = [b \in Batches |-> [u \in Recipients |->
           IF HasRow(b, u) /\ notice[b][u].life = "deleted" THEN [notice[b][u] EXCEPT !.life = "expired"]
           ELSE notice[b][u]]]
      /\ pushToken' = [k \in PushTokens |-> IF pushToken[k] = None THEN None
                         ELSE [pushToken[k] EXCEPT !.quiet = TRUE, !.stale = @ \/ long]]
  BY DEF TimePasses
<1>2. /\ notice' \in [Batches -> [Recipients -> OrNull(Notice)]]
      /\ \A b \in Batches, u \in Recipients : HasRow(b, u)' => HasRow(b, u)
  BY <1>1, LivesTyped DEF NotificationsInv
<1>3. \A k \in PushTokens : pushToken[k] = None \/ pushToken[k] \in PushSubscription
  BY DEF NotificationsInv, UserTables, OrNull
<1>4. \A t \in PushSubscription :
        LET new == [t EXCEPT !.quiet = TRUE, !.stale = @ \/ long]
        IN  new \in PushSubscription /\ new.active = t.active /\ new.user = t.user /\ new.device = t.device
  BY DEF PushSubscription
<1>5. \A k \in PushTokens :
        /\ pushToken'[k] \in OrNull(PushSubscription)
        /\ pushToken'[k] # None =>
             /\ pushToken[k] # None /\ pushToken'[k].active = pushToken[k].active
             /\ pushToken'[k].user = pushToken[k].user /\ pushToken'[k].device = pushToken[k].device
  BY <1>1, <1>3, <1>4 DEF OrNull
<1>6. UserTables'
  <2>1. pushToken' \in [PushTokens -> OrNull(PushSubscription)]
    BY <1>1, <1>5
  <2>2. UserTables /\ purged' = purged /\ preference' = preference
    BY <1>1 DEF NotificationsInv
  <2>3. \A u \in purged : \A b \in Batches : ~ HasRow(b, u)'
    BY <1>2, <2>2 DEF UserTables
  <2>4. \A u \in purged, k \in PushTokens : pushToken'[k] # None => pushToken'[k].user # u
    BY <1>5, <2>2 DEF UserTables
  <2> QED BY <1>2, <2>1, <2>2, <2>3, <2>4 DEF UserTables
<1>7. TemplateRows' /\ Subscriptions' /\ cron' \subseteq {"notices", "tokens"}
  BY <1>1, TemplatesKept, SubscriptionsKept DEF NotificationsInv, HandlersTyped, Once
<1> QED BY <1>1, <1>5, <1>6, <1>7, OthersKeep DEF Once

-----------------------------------------------------------------------------
(* Templates *)

LEMMA TemplatesWritten ==
  ASSUME NotificationsInv, TemplateRows', UNCHANGED <<notice, pushToken, preference, purged>>,
         NEW op, Once(op)
  PROVE  NotificationsInv'
<1>1. UserTables' /\ Subscriptions' /\ cron' \subseteq {"notices", "tokens"}
  BY UserTablesKept, SubscriptionsKept DEF NotificationsInv, HandlersTyped, Once
<1> QED BY <1>1, OthersKeep DEF Once

LEMMA SeedRowTyped == SeedRow \in Template /\ SeedRow.key = SystemKey
BY NotificationsAssumption DEF SeedRow, Template

\* Seeding puts the system's row back as it was, or in its place.
LEMMA SeedKeeps == ASSUME NotificationsInv, SeedTemplates PROVE NotificationsInv'
<1> DEFINE kept == [i \in TemplateIds |-> IF i \in IdOf(RetiredKey) THEN None ELSE template[i]]
<1>1. /\ Once("seed") /\ UNCHANGED <<notice, pushToken, preference, purged>>
      /\ template' = IF IdOf(SystemKey) = {} THEN [kept EXCEPT ![SeedId] = SeedRow]
                     ELSE [i \in TemplateIds |-> IF i \in IdOf(SystemKey) THEN SeedRow ELSE kept[i]]
  BY DEF SeedTemplates, Seeded
<1>2. TemplateRows
  BY DEF NotificationsInv
<1>3. \A i \in TemplateIds : kept[i] = None \/ (kept[i] = template[i] /\ kept[i] \in Template)
  BY <1>2 DEF TemplateRows, OrNull
<1>4. SeedId \in TemplateIds
  BY NotificationsAssumption
<1>5. TemplateRows'
  <2>1. CASE IdOf(SystemKey) = {}
    <3>1. template' = [kept EXCEPT ![SeedId] = SeedRow]
      BY <1>1, <2>1
    <3>2. \A i \in TemplateIds : template[i] # None => template[i].key # SystemKey
      BY <2>1 DEF IdOf
    <3>3. \A i \in TemplateIds : template'[i] = IF i = SeedId THEN SeedRow ELSE kept[i]
      BY <3>1
    <3> HIDE DEF kept
    <3>4. template' \in [TemplateIds -> OrNull(Template)]
      BY <1>3, <3>1, <3>3, SeedRowTyped DEF OrNull, kept
    <3>5. \A i, j \in TemplateIds :
            template'[i] # None /\ template'[j] # None /\ template'[i].key = template'[j].key => i = j
      BY <1>2, <1>3, <3>2, <3>3, SeedRowTyped DEF TemplateRows
    <3> QED BY <1>4, <3>3, <3>4, <3>5 DEF TemplateRows, SeedRow
  <2>2. CASE IdOf(SystemKey) # {}
    <3>1. \A i \in TemplateIds : template'[i] = IF i \in IdOf(SystemKey) THEN SeedRow ELSE kept[i]
      BY <1>1, <2>2
    <3>2. template' \in [TemplateIds -> OrNull(Template)]
      BY <1>1, <1>3, <2>2, SeedRowTyped DEF OrNull
    <3>3. \A i \in TemplateIds : i \in IdOf(SystemKey) <=> template[i] # None /\ template[i].key = SystemKey
      BY DEF IdOf
    <3> HIDE DEF kept
    <3>4. \A i \in TemplateIds : template'[i] # None =>
            template[i] # None /\ template'[i].key = template[i].key
      BY <1>3, <3>1, <3>3, SeedRowTyped
    <3>5. \A i, j \in TemplateIds :
            template'[i] # None /\ template'[j] # None /\ template'[i].key = template'[j].key => i = j
      BY <1>2, <3>4 DEF TemplateRows
    <3>6. template'[SeedId] # None => template'[SeedId] = SeedRow
      <4>1. CASE SeedId \in IdOf(SystemKey)
        BY <1>4, <3>1, <4>1
      <4>2. CASE SeedId \notin IdOf(SystemKey)
        <5>1. template[SeedId] = None
          BY <1>2, <1>4, <3>3, <4>2, SeedRowTyped DEF TemplateRows
        <5> QED BY <1>3, <1>4, <3>1, <4>2, <5>1
      <4> QED BY <4>1, <4>2
    <3> QED BY <3>2, <3>5, <3>6 DEF TemplateRows, SeedRow
  <2> QED BY <2>1, <2>2
<1> QED BY <1>1, <1>5, TemplatesWritten

\* A row of another key than all the others'.
LEMMA RowWritten ==
  ASSUME TemplateRows, NEW i \in TemplateIds \ {SeedId}, NEW row \in Template, IdOf(row.key) \subseteq {i},
         template' = [template EXCEPT ![i] = row]
  PROVE  TemplateRows'
<1>1. template' \in [TemplateIds -> OrNull(Template)]
  BY DEF TemplateRows, OrNull
<1>2. \A j \in TemplateIds \ {i} : template'[j] = template[j] /\ (template[j] # None => template[j].key # row.key)
  BY DEF TemplateRows, IdOf
<1>3. template'[i] = row
  BY DEF TemplateRows
<1>4. \A j, k \in TemplateIds :
        template'[j] # None /\ template'[k] # None /\ template'[j].key = template'[k].key => j = k
  BY <1>2, <1>3 DEF TemplateRows
<1>5. template'[SeedId] # None => template'[SeedId] = SeedRow
  BY <1>2, NotificationsAssumption DEF TemplateRows
<1> QED BY <1>1, <1>4, <1>5 DEF TemplateRows, SeedRow

LEMMA CreateTemplateKeeps ==
  ASSUME NotificationsInv, NEW i \in TemplateIds, NEW key \in TemplateKeys, CreateTemplate(i, key)
  PROVE  NotificationsInv'
<1> DEFINE row == [key |-> key, content |-> "custom", active |-> TRUE]
<1>1. /\ Once("createTemplate") /\ IdOf(key) = {} /\ i # SeedId
      /\ template' = [template EXCEPT ![i] = row]
      /\ UNCHANGED <<notice, pushToken, preference, purged>>
  BY DEF CreateTemplate
<1>2. row \in Template /\ row.key = key
  BY DEF Template
<1> HIDE DEF row
<1>3. TemplateRows'
  BY <1>1, <1>2, RowWritten DEF NotificationsInv
<1> QED BY <1>1, <1>3, TemplatesWritten

LEMMA TemplateBeginKeeps ==
  ASSUME NotificationsInv, NEW w \in Workers, NEW op, NEW i \in TemplateIds,
         NEW key \in OrNull(TemplateKeys), TemplateBegin(w, op, i, key)
  PROVE  NotificationsInv'
<1> DEFINE t == [NewSending(op) EXCEPT !.op = "write", !.template = i, !.key = key]
<1>1. /\ Calls(w, t) /\ op \in {"updateTemplate", "deleteTemplate"}
      /\ template[i] # None /\ template[i].key # SystemKey
  BY DEF TemplateBegin
<1>2. i # SeedId
  BY <1>1, SeedRowTyped DEF NotificationsInv, TemplateRows
<1>3. t \in Sending /\ t.op = "write" /\ t.by # "register" /\ t.template = i
  BY <1>1 DEF NewSending, Sending, OrNull, NoticeSteps, NoticeOps, DeliveryChannels
<1> HIDE DEF t
<1>4. SoundSending(t)
  BY <1>2, <1>3 DEF SoundSending
<1> QED BY <1>1, <1>3, <1>4, BeginKeeps

\* The handler that writes a template has not read the system's.
LEMMA TemplateWritten ==
  ASSUME NotificationsInv, NEW w \in Workers, Does(w, "write"), sending[w].by \in {"updateTemplate", "deleteTemplate"},
         UNCHANGED <<notice, pushToken, preference, purged>>, TemplateRows'
  PROVE  NotificationsInv'
<1>1. UserTables' /\ Subscriptions'
  BY UserTablesKept, SubscriptionsKept DEF NotificationsInv, Does, Goes
<1>2. None \in OrNull(Sending) /\ ~ At(w, "clear")
  BY DEF Does, At, OrNull
<1> QED BY <1>1, <1>2, HandlerKeeps DEF Does, Goes

LEMMA WritesOther ==
  ASSUME NotificationsInv, NEW w \in Workers, At(w, "write"), sending[w].by \in {"updateTemplate", "deleteTemplate"}
  PROVE  sending[w].template \in TemplateIds \ {SeedId} /\ sending[w].key \in OrNull(TemplateKeys)
BY SendingFields DEF NotificationsInv, SoundSending, At

LEMMA UpdateTemplateKeeps == ASSUME NotificationsInv, NEW w \in Workers, UpdateTemplate(w) PROVE NotificationsInv'
<1> DEFINE t == sending[w]
           i == t.template
           key == IF t.key = None THEN template[i].key ELSE t.key
<1>1. /\ Does(w, "write") /\ t.by = "updateTemplate" /\ UNCHANGED <<notice, pushToken, preference, purged>>
      /\ IF template[i] = None \/ ~(IdOf(key) \subseteq {i}) THEN UNCHANGED template
         ELSE \E active \in BOOLEAN :
                template' = [template EXCEPT ![i] = [key |-> key, content |-> "custom", active |-> active]]
  BY DEF UpdateTemplate
<1>2. i \in TemplateIds \ {SeedId} /\ t.key \in OrNull(TemplateKeys)
  BY <1>1, WritesOther DEF Does
<1>3. TemplateRows'
  <2>1. CASE UNCHANGED template
    BY <2>1, TemplatesKept DEF NotificationsInv
  <2>2. CASE /\ template[i] # None /\ IdOf(key) \subseteq {i}
             /\ \E active \in BOOLEAN :
                  template' = [template EXCEPT ![i] = [key |-> key, content |-> "custom", active |-> active]]
    <3>1. PICK active \in BOOLEAN :
            template' = [template EXCEPT ![i] = [key |-> key, content |-> "custom", active |-> active]]
      BY <2>2
    <3>2. key \in TemplateKeys
      BY <1>2, <2>2 DEF NotificationsInv, TemplateRows, OrNull, Template
    <3> DEFINE row == [key |-> key, content |-> "custom", active |-> active]
    <3>3. row \in Template /\ row.key = key
      BY <3>2 DEF Template
    <3> HIDE DEF row, key
    <3> QED BY <1>2, <2>2, <3>1, <3>3, RowWritten DEF NotificationsInv, row
  <2> QED BY <1>1, <2>1, <2>2
<1> QED BY <1>1, <1>3, TemplateWritten

LEMMA DeleteTemplateKeeps == ASSUME NotificationsInv, NEW w \in Workers, DeleteTemplate(w) PROVE NotificationsInv'
<1> DEFINE t == sending[w]
<1>1. /\ Does(w, "write") /\ t.by = "deleteTemplate" /\ UNCHANGED <<notice, pushToken, preference, purged>>
      /\ template' = [template EXCEPT ![t.template] = None]
  BY DEF DeleteTemplate
<1>2. t.template \in TemplateIds \ {SeedId}
  BY <1>1, WritesOther DEF Does
<1>3. TemplateRows'
  BY <1>1, <1>2 DEF NotificationsInv, TemplateRows, OrNull, SeedRow
<1> QED BY <1>1, <1>3, TemplateWritten

-----------------------------------------------------------------------------
(* Connections *)

LEMMA RealtimeKeeps ==
  ASSUME NotificationsInv, Subscriptions', UNCHANGED <<noticeTables, sending, halfDone, cron, noticeScope>>
  PROVE  NotificationsInv'
<1>1. UserTables' /\ TemplateRows' /\ cron' \subseteq {"notices", "tokens"}
  BY UserTablesKept, TemplatesKept DEF NotificationsInv, HandlersTyped, noticeTables
<1> QED BY <1>1, OthersKeep DEF noticeTables

\* A connection that opens joins the Set of its user, or makes one.
LEMMA SubscribeKeepsInv ==
  ASSUME NotificationsInv, NEW s \in noticeScope.sockets, NEW u \in noticeScope.users,
         NEW kind \in {"socket", "stream"}, Subscribe(s, u, kind)
  PROVE  NotificationsInv'
<1> DEFINE set == IF registry[u] = None THEN s ELSE registry[u]
           new == [user |-> u, kind |-> kind, got |-> {}, state |-> "open", group |-> set, unsubscribed |-> 0]
<1>1. /\ conn[s] = None /\ conn' = [conn EXCEPT ![s] = new]
      /\ group' = [group EXCEPT ![set] = @ \cup {s}] /\ registry' = [registry EXCEPT ![u] = set]
      /\ UNCHANGED <<noticeTables, sending, halfDone, cron, noticeScope>>
  BY DEF Subscribe
<1>2. s \in Sockets /\ u \in Recipients /\ None \notin Sockets /\ None \notin Connection
  BY ScopeFields, NotificationsAssumption DEF NotificationsInv
<1>3. /\ conn \in [Sockets -> OrNull(Connection)] /\ registry \in [Recipients -> OrNull(Sockets)]
      /\ group \in [Sockets -> SUBSET Sockets]
      /\ \A r, q \in Sockets : r \in group[q] => IsOpen(r) /\ conn[r].group = q
  BY DEF NotificationsInv, Subscriptions
<1>4. set \in Sockets
  BY <1>2, <1>3 DEF OrNull
<1>5. new \in Connection /\ new # None /\ new.user = u /\ new.state = "open" /\ new.group = set /\ new.unsubscribed = 0
  BY <1>2, <1>4 DEF Connection
<1>5a. registry[u] # None => set = registry[u]
  OBVIOUS
<1> HIDE DEF new, set
<1>6. conn'[s] = new /\ \A r \in Sockets \ {s} : conn'[r] = conn[r]
  BY <1>1, <1>2, <1>3
<1>7. /\ group'[set] = group[set] \cup {s} /\ \A q \in Sockets \ {set} : group'[q] = group[q]
      /\ registry'[u] = set /\ \A v \in Recipients \ {u} : registry'[v] = registry[v]
  BY <1>1, <1>2, <1>3, <1>4
<1>8. conn' \in [Sockets -> OrNull(Connection)] /\ registry' \in [Recipients -> OrNull(Sockets)]
        /\ group' \in [Sockets -> SUBSET Sockets]
  BY <1>1, <1>2, <1>3, <1>4, <1>5 DEF OrNull
<1>9. \A r, q \in Sockets : r \in group'[q] => IsOpen(r)' /\ conn'[r].group = q
  <2> SUFFICES ASSUME NEW r \in Sockets, NEW q \in Sockets, r \in group'[q]
               PROVE  IsOpen(r)' /\ conn'[r].group = q
    OBVIOUS
  <2>1. CASE r = s
    <3>1. s \notin group[q]
      BY <1>1, <1>2, <1>3 DEF IsOpen
    <3>2. q = set
      BY <1>7, <2>1, <3>1
    <3> QED BY <1>5, <1>6, <2>1, <3>2 DEF IsOpen
  <2>2. CASE r # s
    <3>1. r \in group[q]
      BY <1>7, <2>2
    <3> QED BY <1>3, <1>6, <2>2, <3>1 DEF IsOpen
  <2> QED BY <2>1, <2>2
<1>10. \A r \in Sockets : conn'[r] # None =>
         /\ conn'[r].state = "open" => conn'[r].unsubscribed = 0
         /\ conn'[r].state = "failed" => conn'[r].unsubscribed = 1
  BY <1>5, <1>6 DEF NotificationsInv, Subscriptions
<1>11. ASSUME Quiet', NEW r \in Sockets, IsOpen(r)'
       PROVE  registry'[conn'[r].user] = conn'[r].group /\ r \in group'[conn'[r].group]
  <2>1. CASE r = s
    BY <1>5, <1>6, <1>7, <2>1
  <2>2. CASE r # s
    <3>1. Quiet
      BY <1>1, <1>6, <1>11 DEF Quiet
    <3>2. IsOpen(r) /\ conn'[r] = conn[r]
      BY <1>6, <1>11, <2>2 DEF IsOpen
    <3>3. /\ registry[conn[r].user] = conn[r].group /\ r \in group[conn[r].group]
          /\ conn[r].group \in Sockets /\ conn[r].user \in Recipients
      BY <1>3, <3>1, <3>2 DEF NotificationsInv, Subscriptions, IsOpen, OrNull, Connection
    <3>4. r \in group'[conn[r].group]
      BY <1>7, <3>3
    <3>5. registry'[conn[r].user] = conn[r].group
      BY <1>2, <1>5a, <1>7, <3>3
    <3> QED BY <3>2, <3>4, <3>5
  <2> QED BY <2>1, <2>2
<1>12. Subscriptions'
  BY <1>8, <1>9, <1>10, <1>11 DEF Subscriptions
<1> QED BY <1>1, <1>12, RealtimeKeeps

\* A connection leaves its own Set; what it then drops, if nothing failed, is that Set.
LEMMA UnsubscribeKeeps ==
  ASSUME NotificationsInv, NEW s \in Sockets, conn[s] # None, NEW state \in {"failed", "closed"},
         conn[s].state = "open" \/ (conn[s].state = "failed" /\ state = "closed"), Unsubscribe(s, state)
  PROVE  NotificationsInv'
<1> DEFINE c == conn[s]
           new == [c EXCEPT !.state = state, !.unsubscribed = @ + 1]
<1>1. /\ group' = [group EXCEPT ![c.group] = @ \ {s}]
      /\ registry' = [registry EXCEPT ![c.user] = IF group'[c.group] = {} THEN None ELSE @]
      /\ conn' = [conn EXCEPT ![s].state = state, ![s].unsubscribed = @ + 1]
      /\ UNCHANGED <<noticeTables, sending, halfDone, cron, noticeScope>>
  BY DEF Unsubscribe
<1>2. /\ conn \in [Sockets -> OrNull(Connection)] /\ registry \in [Recipients -> OrNull(Sockets)]
      /\ group \in [Sockets -> SUBSET Sockets]
      /\ \A r, q \in Sockets : r \in group[q] => IsOpen(r) /\ conn[r].group = q
  BY DEF NotificationsInv, Subscriptions
<1>3. c \in Connection /\ c.group \in Sockets /\ c.user \in Recipients
  BY <1>2 DEF OrNull, Connection
<1>4. /\ c.state = "open" => c.unsubscribed = 0
      /\ c.state = "failed" => c.unsubscribed = 1
  BY DEF NotificationsInv, Subscriptions
<1>5. /\ new \in Connection /\ new.state = state /\ new.group = c.group /\ new.user = c.user
      /\ new.unsubscribed = c.unsubscribed + 1
  <2>1. c.unsubscribed = 0 \/ c.unsubscribed = 1
    BY <1>4
  <2>2. c.unsubscribed + 1 \in 0..2
    BY <2>1
  <2> QED BY <1>3, <2>2 DEF Connection
<1>6. conn' = [conn EXCEPT ![s] = new]
  BY <1>1, <1>2, <1>3 DEF Connection
<1> HIDE DEF new
<1>7. conn'[s] = new /\ \A r \in Sockets \ {s} : conn'[r] = conn[r]
  BY <1>2, <1>6
<1>8. /\ group'[c.group] = group[c.group] \ {s} /\ \A q \in Sockets \ {c.group} : group'[q] = group[q]
      /\ registry'[c.user] = IF group'[c.group] = {} THEN None ELSE registry[c.user]
      /\ \A v \in Recipients \ {c.user} : registry'[v] = registry[v]
  BY <1>1, <1>2, <1>3
<1>9. conn' \in [Sockets -> OrNull(Connection)] /\ registry' \in [Recipients -> OrNull(Sockets)]
        /\ group' \in [Sockets -> SUBSET Sockets]
  <2>1. conn' \in [Sockets -> OrNull(Connection)]
    BY <1>2, <1>5, <1>6 DEF OrNull
  <2>2. group[c.group] \ {s} \in SUBSET Sockets
    BY <1>2, <1>3
  <2>3. group' \in [Sockets -> SUBSET Sockets]
    BY <1>1, <1>2, <2>2
  <2>4. (IF group'[c.group] = {} THEN None ELSE registry[c.user]) \in OrNull(Sockets)
    BY <1>2, <1>3 DEF OrNull
  <2>5. registry' \in [Recipients -> OrNull(Sockets)]
    BY <1>1, <1>2, <2>4
  <2> QED BY <2>1, <2>3, <2>5
<1>10. \A q \in Sockets : s \notin group'[q]
  BY <1>2, <1>8
<1>11. \A r, q \in Sockets : r \in group'[q] => IsOpen(r)' /\ conn'[r].group = q
  <2> SUFFICES ASSUME NEW r \in Sockets, NEW q \in Sockets, r \in group'[q]
               PROVE  IsOpen(r)' /\ conn'[r].group = q
    OBVIOUS
  <2>1. r # s /\ r \in group[q]
    BY <1>8, <1>10
  <2> QED BY <1>2, <1>7, <2>1 DEF IsOpen
<1>12. \A r \in Sockets : conn'[r] # None =>
         /\ conn'[r].state = "open" => conn'[r].unsubscribed = 0
         /\ conn'[r].state = "failed" => conn'[r].unsubscribed = 1
  <2>1. new.state # "open" /\ (new.state = "failed" => new.unsubscribed = 1)
    BY <1>4, <1>5
  <2> QED BY <1>7, <2>1 DEF NotificationsInv, Subscriptions
<1>13. ASSUME Quiet', NEW r \in Sockets, IsOpen(r)'
       PROVE  registry'[conn'[r].user] = conn'[r].group /\ r \in group'[conn'[r].group]
  <2>1. c.state = "open" /\ Quiet
    <3>1. new = None \/ (new.state # "failed" /\ new.unsubscribed < 2)
      BY <1>7, <1>13 DEF Quiet
    <3>2. new # None
      BY <1>5, NotificationsAssumption
    <3>3. c.state = "open"
      BY <1>4, <1>5, <3>1, <3>2
    <3>4. Quiet
      BY <1>4, <1>7, <1>13, <3>3 DEF Quiet
    <3> QED BY <3>3, <3>4
  <2>2. r # s /\ IsOpen(r) /\ conn'[r] = conn[r]
    BY <1>5, <1>7, <1>13 DEF IsOpen
  <2>3. /\ registry[conn[r].user] = conn[r].group /\ r \in group[conn[r].group]
        /\ conn[r].group \in Sockets /\ conn[r].user \in Recipients
    BY <1>2, <2>1, <2>2 DEF NotificationsInv, Subscriptions, IsOpen, OrNull, Connection
  <2>4. r \in group'[conn[r].group]
    BY <1>8, <2>2, <2>3
  <2>5. registry[c.user] = c.group
    BY <2>1 DEF NotificationsInv, Subscriptions, IsOpen
  <2>6. registry'[conn[r].user] = registry[conn[r].user]
    <3>1. CASE conn[r].user = c.user
      BY <1>8, <2>3, <2>4, <2>5, <3>1
    <3>2. CASE conn[r].user # c.user
      BY <1>8, <2>3, <3>2
    <3> QED BY <3>1, <3>2
  <2> QED BY <2>2, <2>3, <2>4, <2>6
<1>14. Subscriptions'
  BY <1>9, <1>11, <1>12, <1>13 DEF Subscriptions
<1> QED BY <1>1, <1>14, RealtimeKeeps

LEMMA ConnectionStepsKeep ==
  ASSUME NotificationsInv, NEW s \in noticeScope.sockets, SocketError(s) \/ SocketClose(s) \/ StreamCancel(s)
  PROVE  NotificationsInv'
<1>1. s \in Sockets
  BY ScopeFields DEF NotificationsInv
<1> QED BY <1>1, UnsubscribeKeeps DEF SocketError, SocketClose, StreamCancel

-----------------------------------------------------------------------------
(* The theorems *)

LEMMA NotificationsStart == ASSUME NotificationsInit PROVE NotificationsInv
<1>1. HandlersTyped
  BY DEF NotificationsInit, HandlersTyped, OrNull
<1>2. UserTables
  BY DEF NotificationsInit, UserTables, OrNull
<1>3. TemplateRows
  BY NotificationsAssumption DEF NotificationsInit, TemplateRows, OrNull
<1>4. Subscriptions
  BY DEF NotificationsInit, Subscriptions, OrNull, IsOpen
<1>5. TwinsExplained
  BY DEF NotificationsInit, TwinsExplained, Twins
<1> QED BY <1>1, <1>2, <1>3, <1>4, <1>5 DEF NotificationsInv

LEMMA WorkerStepsKeep ==
  ASSUME NotificationsInv, NEW w \in Workers, SendStep(w) \/ DeviceStep(w) \/ TemplateStep(w)
  PROVE  NotificationsInv'
<1>1. CASE SendStep(w)
  BY <1>1, SendBeginKeeps, PropertyPublishedKeeps, TestPushKeeps, ReadPreferencesKeeps, InsertNoticesKeeps,
     PublishKeeps, CountTokensKeeps, ReadTokensKeeps, DeliverKeeps, DeactivateKeeps, PushFailsKeeps DEF SendStep
<1>2. CASE DeviceStep(w)
  BY <1>2, RegisterBeginKeeps, UpsertKeeps, UpsertFailsKeeps, ClearKeeps, PreferenceBeginKeeps,
     FindPreferenceKeeps, CreatePreferenceKeeps, SetPreferenceKeeps DEF DeviceStep
<1>3. CASE TemplateStep(w)
  BY <1>3, TemplateBeginKeeps, UpdateTemplateKeeps, DeleteTemplateKeeps DEF TemplateStep
<1> QED BY <1>1, <1>2, <1>3

LEMMA OtherStepsKeep ==
  ASSUME NotificationsInv,
         \/ RealtimeStep \/ InboxStep \/ SeedTemplates
         \/ \E i \in TemplateIds, key \in TemplateKeys : CreateTemplate(i, key)
         \/ CronStart \/ PurgeNotices \/ PurgeTokens \/ \E long \in BOOLEAN : TimePasses(long)
  PROVE  NotificationsInv'
<1>1. CASE RealtimeStep
  BY <1>1, SubscribeKeepsInv, ConnectionStepsKeep DEF RealtimeStep
<1>2. CASE InboxStep
  <2>1. \A k \in noticeScope.tokens : k \in PushTokens
    BY ScopeFields DEF NotificationsInv
  <2> QED BY <1>2, <2>1, InboxStepsKeep, MarkAllReadKeeps, UserPurgedKeeps, UnregisterKeeps DEF InboxStep
<1> QED BY <1>1, <1>2, SeedKeeps, CreateTemplateKeeps, CronStartKeeps, PurgeNoticesKeeps, PurgeTokensKeeps,
           TimePassesKeeps

LEMMA NotificationsStep ==
  ASSUME NotificationsInv, [NotificationsNext]_notificationsVars PROVE NotificationsInv'
<1>1. CASE UNCHANGED notificationsVars
  <2>1. /\ UNCHANGED <<notice, pushToken, preference, template, purged>>
        /\ UNCHANGED <<realtime, sending, halfDone, cron, noticeScope>>
    BY <1>1 DEF notificationsVars, noticeTables
  <2>2. UserTables' /\ TemplateRows' /\ Subscriptions' /\ cron' \subseteq {"notices", "tokens"}
    BY <2>1, UserTablesKept, TemplatesKept, SubscriptionsKept DEF NotificationsInv, HandlersTyped
  <2> QED BY <2>1, <2>2, OthersKeep
<1>2. CASE NotificationsNext
  BY <1>2, WorkerStepsKeep, OtherStepsKeep DEF NotificationsNext
<1> QED BY <1>1, <1>2

\* The inductive invariant of the notification service: handlers keep what is fit for
\* their next step, tables refer to users who exist, keys of templates are unique and the
\* system's row is the seeded one (TemplateRows), a connection is in its own Set alone and
\* in the one its user is found by (Subscriptions), and of two active tokens of a device
\* one is still to be switched off or was cut off (TwinsExplained).
THEOREM NotificationsInvariant == NotificationsSpec => []NotificationsInv
<1>1. NotificationsInit => NotificationsInv
  BY NotificationsStart
<1>2. NotificationsInv /\ [NotificationsNext]_notificationsVars => NotificationsInv'
  BY NotificationsStep
<1> QED BY <1>1, <1>2, PTL DEF NotificationsSpec

\* Tables, connections and handlers have their types; the foreign keys to users and the
\* unique index on a template's key hold.
THEOREM NotificationsTypes == NotificationsSpec => []NotificationsTypeOK
<1>1. ASSUME NotificationsInv, NEW key \in TemplateKeys PROVE Cardinality(IdOf(key)) <= 1
  <2>1. IdOf(key) = {} \/ \E i \in TemplateIds : IdOf(key) = {i}
    BY <1>1 DEF NotificationsInv, TemplateRows, IdOf
  <2> QED BY <2>1, FS_EmptySet, FS_Singleton
<1>2. NotificationsInv => NotificationsTypeOK
  BY <1>1 DEF NotificationsInv, HandlersTyped, UserTables, TemplateRows, Subscriptions, NotificationsTypeOK
<1> QED BY <1>2, NotificationsInvariant, PTL

\* subscribeToUserNotifications: unless a connection reported an error, whoever is
\* connected is found by every publication, for any number of connections and users.
THEOREM QuietSubscription == NotificationsSpec => []QuietIsSubscribed
<1>1. NotificationsInv => QuietIsSubscribed
  <2> SUFFICES ASSUME NotificationsInv PROVE QuietIsSubscribed
    OBVIOUS
  <2>1. ASSUME NEW s \in Sockets, NEW r \in Sockets, conn[s] # None, ~ IsOpen(s) PROVE s \notin group[r]
    BY <2>1 DEF NotificationsInv, Subscriptions
  <2>2. ASSUME Quiet, NEW s \in Sockets, IsOpen(s) PROVE Registered(s)
    <3>1. conn[s].group \in Sockets
      BY <2>2 DEF NotificationsInv, Subscriptions, IsOpen, OrNull, Connection
    <3> QED BY <2>2, <3>1, NotificationsAssumption DEF NotificationsInv, Subscriptions, Registered
  <2> QED BY <2>1, <2>2 DEF QuietIsSubscribed, OpenIsSubscribed, Quiet
<1> QED BY <1>1, NotificationsInvariant, PTL

\* upsertPushSubscription: registrations of one device that overlap never leave two
\* tokens, but for one that did not reach its second statement.
THEOREM OneToken == NotificationsSpec => []OneTokenPerDevice
<1>1. NotificationsInv => OneTokenPerDevice
  BY DEF NotificationsInv, TwinsExplained, Twins, Registers, OneTokenPerDevice
<1> QED BY <1>1, NotificationsInvariant, PTL

\* The seeded row of the system's template is neither changed nor removed, whatever is
\* edited, renamed or seeded meanwhile.
THEOREM SystemTemplate == NotificationsSpec => SystemTemplateKept
<1>1. NotificationsInv /\ NotificationsInv' /\ [NotificationsNext]_notificationsVars =>
        [template[SeedId] # None => template'[SeedId] = template[SeedId]]_template
  <2> SUFFICES ASSUME NotificationsInv, NotificationsInv', [NotificationsNext]_notificationsVars,
                      template[SeedId] # None
               PROVE  template'[SeedId] = template[SeedId]
    OBVIOUS
  <2>1. SeedId \in TemplateIds /\ template[SeedId] = SeedRow /\ template \in [TemplateIds -> OrNull(Template)]
    BY NotificationsAssumption DEF NotificationsInv, TemplateRows
  <2>2. CASE UNCHANGED template
    BY <2>2
  <2>3. CASE SeedTemplates
    BY <2>1, <2>3, SeedRowTyped DEF SeedTemplates, Seeded, IdOf
  <2>4. CASE \E i \in TemplateIds, key \in TemplateKeys : CreateTemplate(i, key)
    BY <2>1, <2>4 DEF CreateTemplate
  <2>5. ASSUME NEW w \in Workers, UpdateTemplate(w) \/ DeleteTemplate(w)
        PROVE  template'[SeedId] = template[SeedId]
    <3>1. sending[w].template \in TemplateIds \ {SeedId}
      BY <2>5, WritesOther DEF UpdateTemplate, DeleteTemplate, Does
    <3> QED BY <2>1, <2>5, <3>1 DEF UpdateTemplate, DeleteTemplate
  <2>6. ASSUME NEW w \in Workers, SendStep(w) \/ DeviceStep(w) PROVE UNCHANGED template
    BY <2>6 DEF SendStep, DeviceStep, SendBegin, PropertyPublished, TestPush, ReadPreferences, InsertNotices,
      Publish, CountTokens, ReadTokens, Deliver, DeactivatePushTokens, PushFails, RegisterBegin, UpsertToken,
      UpsertFails, ClearOtherTokens, PreferenceBegin, FindPreference, CreatePreference, SetPreference,
      Calls, noticeTables
  <2>7. ASSUME RealtimeStep \/ InboxStep \/ CronStart \/ PurgeNotices \/ PurgeTokens \/ \E l \in BOOLEAN : TimePasses(l)
        PROVE  UNCHANGED template
    BY <2>7 DEF RealtimeStep, InboxStep, CronStart, PurgeNotices, PurgeTokens, TimePasses, Subscribe, SocketError,
      SocketClose, StreamCancel, Unsubscribe, MarkRead, Archive, DeleteNotice, ChangeNotice, MarkAllRead,
      UserPurged, Unregister, noticeTables
  <2>8. ASSUME NEW w \in Workers, NEW op, NEW i, NEW key, TemplateBegin(w, op, i, key) PROVE UNCHANGED template
    BY <2>8 DEF TemplateBegin, Calls, noticeTables
  <2>9. CASE UNCHANGED notificationsVars
    BY <2>9 DEF notificationsVars, noticeTables
  <2> QED BY <2>2, <2>3, <2>4, <2>5, <2>6, <2>7, <2>8, <2>9 DEF NotificationsNext, TemplateStep
<1> QED BY <1>1, NotificationsInvariant, PTL DEF NotificationsSpec, SystemTemplateKept

=============================================================================
