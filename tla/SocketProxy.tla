------------------------------ MODULE SocketProxy ------------------------------
(***************************************************************************)
(* The gateway between a client's notification socket and the notification      *)
(* service's: one connection, which shares nothing with another.  Handlers of    *)
(* the two sockets' events run one at a time, in any order the network gives.     *)
(* Whether a frame is text or binary, and why a socket closes, are left out.      *)
(***************************************************************************)
EXTENDS Naturals, Sequences

CONSTANTS
  MaxMessages,  \* messages of each side
  CloseCodes,   \* codes a socket may close with: those of frames, and 1005, 1006, 1015 for none
  ProxyOn       \* whether there is a connection at all

ASSUME SocketProxyAssumption == MaxMessages \in Nat /\ CloseCodes \subseteq Nat /\ ProxyOn \subseteq BOOLEAN

ReadyStates == {"CONNECTING", "OPEN", "CLOSING", "CLOSED"}
SocketEnds == {"client", "upstream"}
OtherEnd(e) == IF e = "client" THEN "upstream" ELSE "client"

VARIABLES
  ready,            \* readyState of clientSocket and upstreamSocket
  silent,           \* ends that receive nothing more: their peer has closed
  sentBy,           \* how many messages the peer of each end has sent: 1, 2, ...
  pendingMessages,  \* of the client, while the service's socket is not open
  received,         \* what the peer of each end has been sent
  closedWith        \* codes given to close()

proxyVars == <<ready, silent, sentBy, pendingMessages, received, closedWith>>

-----------------------------------------------------------------------------
DEFAULT_WEBSOCKET_CLOSE_CODE == 1011
UNSENDABLE_WEBSOCKET_CLOSE_CODES == {1004, 1005, 1006, 1015}

IsSendableCloseCode(code) ==
  /\ code \notin UNSENDABLE_WEBSOCKET_CLOSE_CODES
  /\ code \in 1000 .. 1014 \/ code \in 3000 .. 4999

ResolveCloseCode_AsReceived(code) == code
ResolveCloseCode(code) == IF IsSendableCloseCode(code) THEN code ELSE DEFAULT_WEBSOCKET_CLOSE_CODE

\* close() of the library throws for any other code.
IsValidStatusCode(code) ==
  (code \in 1000 .. 1014 /\ code \notin 1004 .. 1006) \/ code \in 3000 .. 4999

CloseSocket_OpenOnly(states, e, code) ==
  IF states[e] = "OPEN"
  THEN ready' = [states EXCEPT ![e] = "CLOSING"] /\ closedWith' = closedWith \cup {ResolveCloseCode(code)}
  ELSE ready' = states /\ UNCHANGED closedWith

\* closeSocket: a socket that is still connecting is terminated.
CloseSocket(states, e, code) ==
  \/ /\ states[e] = "CONNECTING"
     /\ ready' = [states EXCEPT ![e] = "CLOSING"] /\ UNCHANGED closedWith
  \/ /\ states[e] = "OPEN"
     /\ ready' = [states EXCEPT ![e] = "CLOSING"]
     /\ closedWith' = closedWith \cup {ResolveCloseCode(code)}
  \/ /\ states[e] \in {"CLOSING", "CLOSED"}
     /\ ready' = states /\ UNCHANGED closedWith

-----------------------------------------------------------------------------
(* Events *)

UpstreamOpen_KeepsPending ==
  /\ ready["upstream"] = "CONNECTING"
  /\ ready' = [ready EXCEPT !["upstream"] = "OPEN"]
  /\ UNCHANGED <<silent, sentBy, pendingMessages, received, closedWith>>

\* upstreamSocket "open"
UpstreamOpen ==
  /\ ready["upstream"] = "CONNECTING"
  /\ ready' = [ready EXCEPT !["upstream"] = "OPEN"]
  /\ received' = [received EXCEPT !["upstream"] = @ \o pendingMessages]
  /\ pendingMessages' = <<>>
  /\ UNCHANGED <<silent, sentBy, closedWith>>

\* A peer sends until it closes, also to an end that is closing.
Arrives(e) ==
  /\ ready[e] \in {"OPEN", "CLOSING"} /\ e \notin silent
  /\ sentBy[e] < MaxMessages
  /\ sentBy' = [sentBy EXCEPT ![e] = @ + 1]
  /\ UNCHANGED <<ready, silent, closedWith>>

\* clientSocket "message"
ClientMessage ==
  /\ Arrives("client")
  /\ IF ready["upstream"] = "OPEN"
     THEN /\ received' = [received EXCEPT !["upstream"] = Append(@, sentBy'["client"])]
          /\ UNCHANGED pendingMessages
     ELSE pendingMessages' = Append(pendingMessages, sentBy'["client"]) /\ UNCHANGED received

\* upstreamSocket "message"
UpstreamMessage ==
  /\ Arrives("upstream")
  /\ received' = IF ready["client"] = "OPEN" THEN [received EXCEPT !["client"] = Append(@, sentBy'["upstream"])]
                 ELSE received
  /\ UNCHANGED pendingMessages

\* The peer closes, or the connection is lost: no event yet.
PeerCloses(e) ==
  /\ ready[e] \in {"OPEN", "CLOSING"} /\ e \notin silent
  /\ silent' = silent \cup {e}
  /\ ready' = [ready EXCEPT ![e] = "CLOSING"]
  /\ UNCHANGED <<sentBy, pendingMessages, received, closedWith>>

\* An end that is terminated while it connects receives nothing at all.
Silenced(e) == silent \cup {e} \cup {f \in SocketEnds : ready[f] = "CONNECTING"}

\* "close" of either socket
EndCloses(e) ==
  /\ ready[e] = "CLOSING"
  /\ silent' = Silenced(e)
  /\ pendingMessages' = <<>>
  /\ \E code \in CloseCodes : CloseSocket([ready EXCEPT ![e] = "CLOSED"], OtherEnd(e), code)
  /\ UNCHANGED <<sentBy, received>>

\* "error" of either socket, which the library closes, or cannot connect.
EndFails(e) ==
  /\ ready[e] \in {"CONNECTING", "OPEN"}
  /\ silent' = Silenced(e)
  /\ CloseSocket([ready EXCEPT ![e] = "CLOSING"], OtherEnd(e), DEFAULT_WEBSOCKET_CLOSE_CODE)
  /\ UNCHANGED <<sentBy, pendingMessages, received>>

-----------------------------------------------------------------------------
\* attachGatewayWebSocketProxy: the client's upgrade is done, the service's begins.
SocketProxyInit ==
  /\ \E on \in ProxyOn :
       ready = [e \in SocketEnds |-> IF ~ on THEN "CLOSED" ELSE IF e = "client" THEN "OPEN" ELSE "CONNECTING"]
  /\ silent = {}
  /\ sentBy = [e \in SocketEnds |-> 0]
  /\ pendingMessages = <<>>
  /\ received = [e \in SocketEnds |-> <<>>]
  /\ closedWith = {}

SocketProxyNext ==
  \/ UpstreamOpen
  \/ ClientMessage \/ UpstreamMessage
  \/ \E e \in SocketEnds : PeerCloses(e) \/ EndCloses(e) \/ EndFails(e)

SocketProxySpec == SocketProxyInit /\ [][SocketProxyNext]_proxyVars

-----------------------------------------------------------------------------
(* Properties *)

\* The sockets have their types, and neither peer is sent more than the other sent.
SocketProxyTypeOK ==
  /\ ready \in [SocketEnds -> ReadyStates] /\ ready["client"] # "CONNECTING"
  /\ silent \subseteq SocketEnds
  /\ sentBy \in [SocketEnds -> 0 .. MaxMessages]
  /\ \A e \in SocketEnds : Len(received[e]) <= sentBy[OtherEnd(e)]
  /\ Len(pendingMessages) <= sentBy["client"]

\* Each side is sent what the other sent, in that order and with nothing missing
\* before what it is sent last, across the opening of the service's socket.
ForwardedInOrder ==
  \A e \in SocketEnds : \A i \in 1 .. Len(received[e]) : received[e][i] = i

\* No socket outlives the other: once one is closed the other closes, also if it
\* was still connecting.
ClosedTogether ==
  \A e \in SocketEnds : ready[e] = "CLOSED" => ready[OtherEnd(e)] \in {"CLOSING", "CLOSED"}

\* However a socket closes, close() is called with a code it does not throw for.
ClosesWithValidCodes == \A code \in closedWith : IsValidStatusCode(code)

=============================================================================
