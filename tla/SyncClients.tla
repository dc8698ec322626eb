----------------------------- MODULE SyncClients -----------------------------
(***************************************************************************)
(* The synchronous clients, ch03/01_Sync_tcp_client.cpp and                *)
(* ch03/02_Sync_udp_client.cpp: an object with one socket, whose calls send*)
(* a request and block until something has been received, and whose        *)
(* destructor closes the socket - that of the TCP client shuts it down     *)
(* first.  A request and its response carry the number of the call.  TCP   *)
(* is a connection in order; datagrams may be lost, overtake each other, be*)
(* duplicated, and come from anybody, for receive_from takes them all.     *)
(***************************************************************************)
EXTENDS Naturals, Sequences, SequencesExt

CONSTANTS
  Kinds,        \* the programs to look at: "tcp", "udp"
  MaxCalls      \* emulateLongComputationOp is called so often; main does once

ASSUME KindsAssumption == Kinds \subseteq {"tcp", "udp"}
ASSUME CallsAssumption == MaxCalls \in Nat \ {0}

VARIABLES
  kind,         \* the program; it never changes
  pc,           \* what it does next
  call,         \* the number of the call under way
  answers,      \* answers[i]: the call whose response call i has returned
  failed,       \* an exception has left a call
  link,         \* the TCP connection
  toServer, toClient,    \* the messages on their way
  noise         \* what has happened to datagrams, each at most once but loss

channel == <<toServer, toClient, noise>>
vars == <<kind, pc, call, answers, failed, link, channel>>

Stranger == 0           \* the "call" of a datagram from somebody else
Over == {"returned", "reported", "terminated"}

TypeOK ==
  /\ kind \in Kinds
  /\ pc \in {"construct", "connect", "send", "receive", "close"} \cup Over
  /\ call \in 1 .. MaxCalls
  /\ answers \in Seq(0 .. MaxCalls) /\ Len(answers) <= call
  /\ failed \in BOOLEAN
  /\ link \in {"none", "up", "ended", "reset"}
  /\ toServer \in Seq(1 .. MaxCalls) /\ toClient \in Seq(0 .. MaxCalls)
  /\ noise \subseteq {"lost", "duplicated", "stray"}
  /\ kind = "udp" => link = "none"
  /\ kind = "tcp" => noise = {}

Init ==
  /\ kind \in Kinds
  /\ pc = "construct"
  /\ call = 1
  /\ answers = <<>>
  /\ failed = FALSE
  /\ link = "none"
  /\ toServer = <<>> /\ toClient = <<>> /\ noise = {}

-----------------------------------------------------------------------------
(* The program *)

\* The socket is opened.
Construct ==
  /\ pc = "construct"
  /\ pc' = IF kind = "tcp" THEN "connect" ELSE "send"
  /\ UNCHANGED <<kind, call, answers, failed, link, channel>>

\* It cannot be: there is no object to destroy, and main reports the error.
ConstructFails ==
  /\ pc = "construct"
  /\ pc' = "reported"
  /\ failed' = TRUE
  /\ UNCHANGED <<kind, call, answers, link, channel>>

Connect ==
  /\ pc = "connect"
  /\ link' = "up"
  /\ pc' = "send"
  /\ UNCHANGED <<kind, call, answers, failed, channel>>

\* Mutant: the request is repeated.
SendRequestTwice ==
  /\ pc = "send" /\ link # "reset"
  /\ toServer' = toServer \o <<call, call>>
  /\ pc' = "receive"
  /\ UNCHANGED <<kind, call, answers, failed, link, toClient, noise>>

\* Mutant: the request has no newline, and the server waits for it.
SendRequestUnended ==
  /\ pc = "send" /\ link # "reset"
  /\ pc' = "receive"
  /\ UNCHANGED <<kind, call, answers, failed, link, channel>>

SendRequest ==
  /\ pc = "send" /\ link # "reset"
  /\ toServer' = Append(toServer, call)
  /\ pc' = "receive"
  /\ UNCHANGED <<kind, call, answers, failed, link, toClient, noise>>

\* Mutant: the next call begins without a new number (its response is taken
\* for one of this call).
ReceiveResponseAgain(i) ==
  /\ pc = "receive"
  /\ answers' = Append(answers, toClient[i])
  /\ toClient' = RemoveAt(toClient, i)
  /\ pc' \in {"send", "close"}
  /\ UNCHANGED <<kind, call, failed, link, toServer, noise>>

\* receiveResponse returns the i-th message, and the user calls once more or
\* destroys the object.
ReceiveResponse(i) ==
  /\ pc = "receive"
  /\ answers' = Append(answers, toClient[i])
  /\ toClient' = RemoveAt(toClient, i)
  /\ \/ pc' = "send" /\ call < MaxCalls /\ call' = call + 1
     \/ pc' = "close" /\ UNCHANGED call
  /\ UNCHANGED <<kind, failed, link, toServer, noise>>

\* An exception leaves a call and then main's block, which destroys the object.
Throw ==
  /\ pc' = "close"
  /\ failed' = TRUE
  /\ UNCHANGED <<kind, call, answers, link, channel>>

ConnectFails == pc = "connect" /\ Throw

\* send_to or receive_from reports an error of the operating system.
DatagramFails == pc \in {"send", "receive"} /\ kind = "udp" /\ Throw

\* The connection has been reset, or has ended before the response did.
ConnectionFails ==
  /\ \/ pc \in {"send", "receive"} /\ link = "reset"
     \/ pc = "receive" /\ link = "ended" /\ toClient = <<>>
  /\ Throw

\* Mutant: the shutdown in the UDP client is not commented out.
CloseShutsDown ==
  /\ pc = "close"
  /\ pc' = IF link \in {"none", "reset"} THEN "terminated"
           ELSE IF failed THEN "reported" ELSE "returned"
  /\ UNCHANGED <<kind, call, answers, failed, link, channel>>

\* close(), called by the destructor.  shutdown throws if the socket is not
\* connected, and an exception that leaves a destructor terminates the program.
Close ==
  /\ pc = "close"
  /\ pc' = IF kind = "tcp" /\ link \in {"none", "reset"} THEN "terminated"
           ELSE IF failed THEN "reported" ELSE "returned"
  /\ UNCHANGED <<kind, call, answers, failed, link, channel>>

-----------------------------------------------------------------------------
(* The server and the network *)

\* The server answers the i-th message.
Serve(i) ==
  /\ kind = "tcp" => i = 1 /\ link = "up"
  /\ toClient' = Append(toClient, toServer[i])
  /\ toServer' = RemoveAt(toServer, i)
  /\ UNCHANGED <<kind, pc, call, answers, failed, link, noise>>

\* It closes the connection, as those of chapter 4 do after one response.
ServerCloses ==
  /\ link = "up"
  /\ link' = "ended"
  /\ UNCHANGED <<kind, pc, call, answers, failed, channel>>

ConnectionReset ==
  /\ link \in {"up", "ended"}
  /\ link' = "reset"
  /\ toServer' = <<>> /\ toClient' = <<>>
  /\ UNCHANGED <<kind, pc, call, answers, failed, noise>>

Lose ==
  /\ \/ /\ \E i \in DOMAIN toServer : toServer' = RemoveAt(toServer, i)
        /\ UNCHANGED toClient
     \/ /\ \E i \in DOMAIN toClient : toClient' = RemoveAt(toClient, i)
        /\ UNCHANGED toServer
  /\ noise' = noise \cup {"lost"}

Duplicate ==
  /\ "duplicated" \notin noise /\ noise' = noise \cup {"duplicated"}
  /\ \/ /\ \E i \in DOMAIN toServer : toServer' = Append(toServer, toServer[i])
        /\ UNCHANGED toClient
     \/ /\ \E i \in DOMAIN toClient : toClient' = Append(toClient, toClient[i])
        /\ UNCHANGED toServer

Stray ==
  /\ "stray" \notin noise /\ noise' = noise \cup {"stray"}
  /\ toClient' = Append(toClient, Stranger)
  /\ UNCHANGED toServer

Network ==
  /\ kind = "udp"
  /\ Lose \/ Duplicate \/ Stray
  /\ UNCHANGED <<kind, pc, call, answers, failed, link>>

-----------------------------------------------------------------------------

\* The first message, or with datagrams any.
Deliverable(queue) == {i \in DOMAIN queue : kind = "tcp" => i = 1}

Program ==
  \/ Construct
  \/ Connect
  \/ SendRequest
  \/ \E i \in Deliverable(toClient) : ReceiveResponse(i)
  \/ ConnectionFails
  \/ Close

Server == \E i \in Deliverable(toServer) : Serve(i)

Next ==
  /\ pc \notin Over
  /\ \/ Program
     \/ ConstructFails \/ ConnectFails \/ DatagramFails
     \/ Server \/ ServerCloses \/ ConnectionReset \/ Network

Spec == Init /\ [][Next]_vars

\* The program goes on, and the server answers what has reached it.
FairSpec ==
  Spec /\ WF_vars(pc \notin Over /\ Program) /\ WF_vars(pc \notin Over /\ Server)

-----------------------------------------------------------------------------
(* Safety *)

\* Call i returns the response to request i.  Nothing in the UDP client checks
\* that: it holds because a call does not return before it has received, and it
\* ends when one datagram has been duplicated or sent by a stranger.
OwnAnswer ==
  noise \cap {"duplicated", "stray"} = {} =>
    \A i \in DOMAIN answers : answers[i] = i

\* The program ends with 0 only if every call has returned, and with an error
\* only if one has failed.  Otherwise the destructor has shut down a socket that
\* is not connected, and has terminated the program, whatever the calls returned.
ErrorsReported ==
  /\ pc = "returned" => ~failed /\ Len(answers) = call
  /\ pc = "reported" => failed /\ Len(answers) < call
  /\ pc = "terminated" => kind = "tcp" /\ link \in {"none", "reset"}

-----------------------------------------------------------------------------
(* Liveness, under FairSpec *)

\* Every call returns or fails, unless a datagram has been lost: then the UDP
\* client may wait for ever, since it has no timeout and does not send again.
CallsEnd == <>(pc \in Over \/ "lost" \in noise)
=============================================================================
