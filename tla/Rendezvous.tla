----------------------------- MODULE Rendezvous -----------------------------
(***************************************************************************)
(* How a sender and a receiver find each other, up to the first symbol:    *)
(* the control connection in push mode (the sender dials) and pull mode    *)
(* (the receiver dials, with retries), the pinned TLS handshake, the       *)
(* Hello / HelloAck / Manifest / ManifestAck exchange and, in pull mode,   *)
(* the flow-open datagrams that tell the sender where to spray             *)
(* (src/src/send.rs run and transfer, src/src/recv.rs run to               *)
(* handle_transfer, src/src/udp.rs UdpFlowAcceptor and keepalive).         *)
(*                                                                         *)
(* The command lines are chosen in the initial state, each side's without  *)
(* regard to the other's.  A step runs from one await to the next.  A side *)
(* that ends closes the connection: whatever its peer reads or writes      *)
(* there then may fail.  Of the TLS library the model has the messages of  *)
(* the handshake and who can read them.                                    *)
(***************************************************************************)
EXTENDS Integers, Sequences

CONSTANTS MaxAttempts,  \* connect_with_retry: 50
          Burst,        \* flow-opens sent at once: 5
          Faults,       \* which of AllFaults may happen
          MaxLoss,      \* bound: flow-opens the network loses
          MaxFlight     \* bound: flow-opens under way or buffered

AllFaults == {"crash", "socket", "disk", "stray"}

ASSUME RendezvousAssumption ==
  /\ MaxAttempts \in Nat \ {0}
  /\ Burst \in Nat \ {0}
  /\ Faults \subseteq AllFaults
  /\ MaxLoss \in Nat
  /\ MaxFlight \in Nat /\ Burst <= MaxFlight

VARIABLES
  args,      \* the two command lines
  spc,       \* where the sender is: an await of the handshake, or its end
  port,      \* the UDP port HelloAck named
  target,    \* whom the sender sprays to
  bound,     \* the flow acceptor has its UDP socket
  rpc,       \* where the receiver is
  attempts,  \* connection attempts of connect_with_retry
  udp,       \* the receiver has bound its UDP socket
  made,      \* the receiver has made the output file
  keepalive, \* the keepalive task: "none", "running" or "over"
  conn,      \* the control connection has been made
  toRecv,    \* frames to the receiver on it
  toSend,    \* frames to the sender on it
  flight,    \* flow-opens on their way
  inbox,     \* the acceptor's socket buffer: flow-opens and stray datagrams
  lost,      \* flow-opens the network lost
  missed     \* a flow-open found no socket at a sender still running

sender   == <<spc, port, target, bound>>
receiver == <<rpc, attempts, udp, made, keepalive>>
control  == <<conn, toRecv, toSend>>
flow     == <<flight, inbox, lost, missed>>
vars     == <<args, sender, receiver, control, flow>>

(* --pin of the sender: of this receiver, of another certificate, missing  *)
(* or malformed, or --nocrypto; the receiver has an identity or is started *)
(* with --nocrypto.                                                        *)
Args == [smode : {"push", "pull"}, rmode : {"push", "pull"},
         pin : {"right", "wrong", "bad", "nocrypto"}, identity : BOOLEAN,
         version : {"same", "other"}]

Hellos    == {"push", "pull"}          \* Hello, without or with a data_port
HelloAcks == {"port", "noport"}        \* HelloAck, with or without a udp_port
ToRecv    == Hellos \cup {"manifest", "clienthello", "finished"}
ToSend    == HelloAcks \cup {"manifestack", "done", "servercert"}

Buffered(d) == {i \in 1..Len(inbox) : inbox[i] = d}

SenderEnds   == {"failed", "crashed"}
ReceiverEnds == {"failed", "crashed"}
SenderSteps  == {"start", "listening", "tls", "servercert", "hello", "helloack",
                 "manifest", "manifestack", "acceptflow", "spraying"}
ReceiverSteps == {"start", "listening", "tls", "finished", "hello", "stuck", "helloack",
                  "manifest", "manifestack", "ready"}
SenderUp   == spc \in SenderSteps
ReceiverUp == rpc \in ReceiverSteps

Init ==
  /\ args \in Args
  /\ spc = "start" /\ port = "noport" /\ target = "none" /\ bound = FALSE
  /\ rpc = "start" /\ attempts = 0 /\ udp = FALSE /\ made = FALSE /\ keepalive = "none"
  /\ conn = FALSE /\ toRecv = <<>> /\ toSend = <<>>
  /\ flight = 0 /\ inbox = <<>> /\ lost = 0 /\ missed = FALSE

-----------------------------------------------------------------------------
(* The control connection.                                                 *)

(* Push: the sender dials once. *)
SenderDials ==
  /\ args.smode = "push" /\ spc = "start"
  /\ conn' = (rpc = "listening")
  /\ spc' = IF rpc = "listening" THEN "tls" ELSE "failed"
  /\ UNCHANGED <<args, port, target, bound, receiver, toRecv, toSend, flow>>

(* A sender that binds its data port only once it awaits the flow. *)
LateSenderListens ==
  /\ args.smode = "pull" /\ spc = "start"
  /\ spc' = "listening"
  /\ UNCHANGED <<args, port, target, bound, receiver, control, flow>>

(* Pull: the data port is bound before the listener. *)
SenderListens ==
  /\ args.smode = "pull" /\ spc = "start"
  /\ bound' = TRUE
  /\ spc' = "listening"
  /\ UNCHANGED <<args, port, target, receiver, control, flow>>

SenderBindFails ==
  /\ "socket" \in Faults
  /\ args.smode = "pull" /\ spc = "start"
  /\ spc' = "failed"
  /\ UNCHANGED <<args, port, target, bound, receiver, control, flow>>

SenderAccepts ==
  /\ spc = "listening" /\ conn
  /\ spc' = "tls"
  /\ UNCHANGED <<args, port, target, bound, receiver, control, flow>>

ReceiverListens ==
  /\ args.rmode = "push" /\ rpc = "start"
  /\ rpc' = "listening"
  /\ UNCHANGED <<args, sender, attempts, udp, made, keepalive, control, flow>>

(* serve: one connection is accepted. *)
ReceiverAccepts ==
  /\ rpc = "listening" /\ conn
  /\ rpc' = "tls"
  /\ UNCHANGED <<args, sender, attempts, udp, made, keepalive, control, flow>>

(* Pull, connect_with_retry: a refused attempt is repeated up to the limit. *)
ReceiverDials ==
  /\ args.rmode = "pull" /\ rpc = "start"
  /\ attempts' = attempts + 1
  /\ conn' = (spc = "listening")
  /\ rpc' = CASE spc = "listening" -> "tls"
              [] spc # "listening" /\ attempts + 1 = MaxAttempts -> "failed"
              [] OTHER -> "start"
  /\ UNCHANGED <<args, sender, udp, made, keepalive, toRecv, toSend, flow>>

(* The address cannot be bound, or an attempt fails with any other error   *)
(* than a refusal: that is final.                                          *)
ReceiverStartFails ==
  /\ "socket" \in Faults
  /\ rpc = "start"
  /\ rpc' = "failed"
  /\ UNCHANGED <<args, sender, attempts, udp, made, keepalive, control, flow>>

-----------------------------------------------------------------------------
(* Encryption.  The sender is the TLS client, whoever dialled.             *)

(* parse_pin: there is a pin, and it is the hex of 32 bytes. *)
ParsePin == args.pin \in {"right", "wrong"}

(* The pin is looked at only now; connect starts with a ClientHello. *)
SenderTls ==
  /\ spc = "tls"
  /\ spc' = CASE args.pin = "nocrypto" -> "hello"
              [] args.pin # "nocrypto" /\ ~ParsePin -> "failed"
              [] OTHER -> "servercert"
  /\ toRecv' = IF spc' = "servercert" THEN Append(toRecv, "clienthello") ELSE toRecv
  /\ UNCHANGED <<args, port, target, bound, receiver, conn, toSend, flow>>

(* A PinVerifier that takes any certificate. *)
TrustingVerifyServerCert ==
  /\ spc = "servercert" /\ toSend # <<>>
  /\ toSend' = Tail(toSend)
  /\ toRecv' = Append(toRecv, "finished")
  /\ spc' = "hello"
  /\ UNCHANGED <<args, port, target, bound, receiver, conn, flow>>

(* PinVerifier: only the pinned certificate will do. *)
VerifyServerCert ==
  /\ spc = "servercert" /\ toSend # <<>>
  /\ toSend' = Tail(toSend)
  /\ LET ok == Head(toSend) = "servercert" /\ args.pin = "right"
     IN /\ spc' = IF ok THEN "hello" ELSE "failed"
        /\ toRecv' = IF ok THEN Append(toRecv, "finished") ELSE toRecv
  /\ UNCHANGED <<args, port, target, bound, receiver, conn, flow>>

(* Without an identity the receiver goes on to read frames. *)
ReceiverPlain ==
  /\ rpc = "tls" /\ ~args.identity
  /\ rpc' = "hello"
  /\ UNCHANGED <<args, sender, attempts, udp, made, keepalive, control, flow>>

(* The acceptor answers a ClientHello with its certificate; a plaintext    *)
(* frame is no TLS record, and it gives up.                                *)
ReceiverTls ==
  /\ rpc = "tls" /\ args.identity /\ toRecv # <<>>
  /\ toRecv' = Tail(toRecv)
  /\ LET ok == Head(toRecv) = "clienthello"
     IN /\ rpc' = IF ok THEN "finished" ELSE "failed"
        /\ toSend' = IF ok THEN Append(toSend, "servercert") ELSE toSend
  /\ UNCHANGED <<args, sender, attempts, udp, made, keepalive, conn, flow>>

(* The acceptor's handshake ends with the sender's last message. *)
ReceiverFinished ==
  /\ rpc = "finished" /\ toRecv # <<>>
  /\ toRecv' = Tail(toRecv)
  /\ rpc' = IF Head(toRecv) = "finished" THEN "hello" ELSE "failed"
  /\ UNCHANGED <<args, sender, attempts, udp, made, keepalive, conn, toSend, flow>>

(* read_frame on a ClientHello: its first four bytes, 0x16 0x03 0x01 and   *)
(* the high byte of its length, are a frame length that exceeds the limit, *)
(* or one of 66326 bytes which the receiver waits for.                     *)
ReadClientHello ==
  /\ rpc = "hello" /\ toRecv # <<>> /\ Head(toRecv) = "clienthello"
  /\ toRecv' = Tail(toRecv)
  /\ rpc' \in {"failed", "stuck"}
  /\ UNCHANGED <<args, sender, attempts, udp, made, keepalive, conn, toSend, flow>>

-----------------------------------------------------------------------------
(* The sender's half of the exchange of frames.                            *)

WriteHello ==
  /\ spc = "hello"
  /\ toRecv' = Append(toRecv, args.smode)
  /\ spc' = "helloack"
  /\ UNCHANGED <<args, port, target, bound, receiver, conn, toSend, flow>>

ReadHelloAck ==
  /\ spc = "helloack" /\ toSend # <<>>
  /\ toSend' = Tail(toSend)
  /\ spc' = IF Head(toSend) \in HelloAcks THEN "manifest" ELSE "failed"
  /\ port' = IF Head(toSend) \in HelloAcks THEN Head(toSend) ELSE port
  /\ UNCHANGED <<args, target, bound, receiver, conn, toRecv, flow>>

(* A sender that starts on the symbol plane without ManifestAck. *)
HastyWriteManifest ==
  /\ spc = "manifest"
  /\ toRecv' = Append(toRecv, "manifest")
  /\ spc' = IF args.smode = "pull" THEN "acceptflow" ELSE "spraying"
  /\ target' = IF args.smode = "pull" THEN target ELSE "receiver"
  /\ UNCHANGED <<args, port, bound, receiver, conn, toSend, flow>>

WriteManifest ==
  /\ spc = "manifest"
  /\ toRecv' = Append(toRecv, "manifest")
  /\ spc' = "manifestack"
  /\ UNCHANGED <<args, port, target, bound, receiver, conn, toSend, flow>>

(* The reader task starts.  Push sprays at the port of HelloAck, pull      *)
(* waits for the receiver to open the flow.                                *)
ReadManifestAck ==
  /\ spc = "manifestack" /\ toSend # <<>>
  /\ toSend' = Tail(toSend)
  /\ spc' = CASE Head(toSend) # "manifestack" -> "failed"
              [] Head(toSend) = "manifestack" /\ args.smode = "pull" -> "acceptflow"
              [] Head(toSend) = "manifestack" /\ args.smode = "push" /\ port = "port" -> "spraying"
              [] OTHER -> "failed"
  /\ target' = IF spc' = "spraying" THEN "receiver" ELSE target
  /\ UNCHANGED <<args, port, bound, receiver, conn, toRecv, flow>>

(* A read meets the end of the stream or a reset, a write a broken pipe. *)
SenderPeerGone ==
  /\ conn /\ ~ReceiverUp
  /\ spc \in {"tls", "servercert", "hello", "helloack", "manifest", "manifestack"}
  /\ spc' = "failed"
  /\ UNCHANGED <<args, port, target, bound, receiver, control, flow>>


-----------------------------------------------------------------------------
(* The flow acceptor.                                                      *)

(* An accept_flow that takes the source of any datagram for the receiver. *)
LaxReadFlow ==
  /\ spc = "acceptflow" /\ inbox # <<>>
  /\ inbox' = Tail(inbox)
  /\ target' = IF Head(inbox) = "open" THEN "receiver" ELSE "stranger"
  /\ spc' = "spraying"
  /\ UNCHANGED <<args, port, bound, receiver, control, flight, lost, missed>>

(* accept_flow reads one datagram: the first flow-open of this transfer    *)
(* names the receiver's address, anything else is dropped.                 *)
ReadFlow ==
  /\ spc = "acceptflow" /\ inbox # <<>>
  /\ inbox' = Tail(inbox)
  /\ target' = IF Head(inbox) = "open" THEN "receiver" ELSE target
  /\ spc' = IF Head(inbox) = "open" THEN "spraying" ELSE spc
  /\ UNCHANGED <<args, port, bound, receiver, control, flight, lost, missed>>

ReadFlowFails ==
  /\ "socket" \in Faults
  /\ spc = "acceptflow"
  /\ spc' = "failed"
  /\ UNCHANGED <<args, port, target, bound, receiver, control, flow>>

(* No flow-open is under way and nobody is left to send another. *)
NoMoreOpens == flight = 0 /\ ~(keepalive = "running" /\ ReceiverUp)

(* The 30 s are over.  The flow-opens come every 5 s, so they run out when *)
(* no flow-open can come any more; a sender whose time is up before that   *)
(* just ends, which to its peer is SenderCrash.                            *)
AcceptTimesOut ==
  /\ spc = "acceptflow" /\ Buffered("open") = {}
  /\ NoMoreOpens
  /\ spc' = "failed"
  /\ UNCHANGED <<args, port, target, bound, receiver, control, flow>>

-----------------------------------------------------------------------------
(* The receiver's half of the exchange of frames.                          *)

(* A receiver that goes on reading after a version mismatch. *)
PatientReadHello ==
  /\ rpc = "hello" /\ toRecv # <<>> /\ Head(toRecv) \in Hellos
  /\ toRecv' = Tail(toRecv)
  /\ IF args.version = "other"
       THEN UNCHANGED <<toSend, rpc, udp, flight, keepalive>>
       ELSE /\ rpc' = "helloack" /\ udp' = TRUE
            /\ flight' = IF Head(toRecv) = "pull" THEN flight + Burst ELSE flight
            /\ keepalive' = IF Head(toRecv) = "pull" THEN "running" ELSE "none"
            /\ UNCHANGED toSend
  /\ UNCHANGED <<args, sender, attempts, made, conn, inbox, lost, missed>>

(* A receiver that does not compare the versions. *)
LaxReadHello ==
  /\ rpc = "hello" /\ toRecv # <<>> /\ Head(toRecv) \in Hellos
  /\ toRecv' = Tail(toRecv)
  /\ rpc' = "helloack" /\ udp' = TRUE
  /\ flight' = IF Head(toRecv) = "pull" THEN flight + Burst ELSE flight
  /\ keepalive' = IF Head(toRecv) = "pull" THEN "running" ELSE "none"
  /\ UNCHANGED <<args, sender, attempts, made, conn, toSend, inbox, lost, missed>>

(* Hello: a peer of another version gets Done and the receiver gives up.   *)
(* Otherwise the UDP socket is bound and, when Hello names a data port,    *)
(* the burst of flow-opens is sent and the keepalive task spawned.         *)
ReadHello ==
  /\ rpc = "hello" /\ toRecv # <<>> /\ Head(toRecv) \in Hellos
  /\ toRecv' = Tail(toRecv)
  /\ IF args.version = "other"
       THEN /\ toSend' = Append(toSend, "done")
            /\ rpc' = "failed"
            /\ UNCHANGED <<udp, flight, keepalive>>
       ELSE /\ rpc' = "helloack" /\ udp' = TRUE
            /\ flight' = IF Head(toRecv) = "pull" THEN flight + Burst ELSE flight
            /\ keepalive' = IF Head(toRecv) = "pull" THEN "running" ELSE "none"
            /\ UNCHANGED toSend
  /\ UNCHANGED <<args, sender, attempts, made, conn, inbox, lost, missed>>

ReceiverBindFails ==
  /\ "socket" \in Faults
  /\ rpc = "hello" /\ toRecv # <<>> /\ Head(toRecv) \in Hellos
  /\ args.version = "same"
  /\ toRecv' = Tail(toRecv)
  /\ rpc' = "failed"
  /\ UNCHANGED <<args, sender, attempts, udp, made, keepalive, conn, toSend, flow>>

(* HelloAck names the UDP port unless the flow has been opened already. *)
WriteHelloAck ==
  /\ rpc = "helloack"
  /\ toSend' = Append(toSend, IF keepalive = "none" THEN "port" ELSE "noport")
  /\ rpc' = "manifest"
  /\ UNCHANGED <<args, sender, attempts, udp, made, keepalive, conn, toRecv, flow>>

(* The manifest is checked, which every manifest a sender makes passes     *)
(* (Layout::new asserts it), and the file is made at its full length.      *)
ReadManifest ==
  /\ rpc = "manifest" /\ toRecv # <<>>
  /\ toRecv' = Tail(toRecv)
  /\ made' = TRUE
  /\ rpc' = "manifestack"
  /\ UNCHANGED <<args, sender, attempts, udp, keepalive, conn, toSend, flow>>

CreateFails ==
  /\ "disk" \in Faults
  /\ rpc = "manifest" /\ toRecv # <<>>
  /\ toRecv' = Tail(toRecv)
  /\ rpc' = "failed"
  /\ UNCHANGED <<args, sender, attempts, udp, made, keepalive, conn, toSend, flow>>

WriteManifestAck ==
  /\ rpc = "manifestack"
  /\ toSend' = Append(toSend, "manifestack")
  /\ rpc' = "ready"
  /\ UNCHANGED <<args, sender, attempts, udp, made, keepalive, conn, toRecv, flow>>


ReceiverPeerGone ==
  /\ conn /\ ~SenderUp
  /\ rpc \in {"tls", "finished", "hello", "stuck", "helloack", "manifest", "manifestack"}
  /\ rpc' = "failed"
  /\ UNCHANGED <<args, sender, attempts, udp, made, keepalive, control, flow>>

-----------------------------------------------------------------------------
(* Flow-opens and the network.                                             *)

(* A keepalive that lasts only as long as the handshake. *)
BriefKeepalive ==
  /\ keepalive = "running" /\ ReceiverUp /\ rpc # "ready"
  /\ flight + Len(inbox) < MaxFlight
  /\ flight' = flight + 1
  /\ UNCHANGED <<args, sender, receiver, control, inbox, lost, missed>>

(* The keepalive task sends another flow-open; it lives as long as the     *)
(* receiver's process, or until a send fails.                              *)
Keepalive ==
  /\ keepalive = "running" /\ ReceiverUp
  /\ flight + Len(inbox) < MaxFlight
  /\ flight' = flight + 1
  /\ UNCHANGED <<args, sender, receiver, control, inbox, lost, missed>>

KeepaliveBreaks ==
  /\ "socket" \in Faults
  /\ keepalive = "running" /\ ReceiverUp
  /\ keepalive' = "over"
  /\ UNCHANGED <<args, sender, rpc, attempts, udp, made, control, flow>>

(* A flow-open reaches the data port: it is buffered if the acceptor has   *)
(* it and left unread by a sender that sprays already.                     *)
Deliver ==
  /\ flight > 0
  /\ flight' = flight - 1
  /\ inbox' = IF SenderUp /\ bound /\ spc # "spraying" THEN Append(inbox, "open") ELSE inbox
  /\ missed' = (missed \/ (SenderUp /\ ~bound))
  /\ UNCHANGED <<args, sender, receiver, control, lost>>

Lose ==
  /\ flight > 0 /\ lost < MaxLoss
  /\ flight' = flight - 1
  /\ lost' = lost + 1
  /\ UNCHANGED <<args, sender, receiver, control, inbox, missed>>

StrayArrives ==
  /\ "stray" \in Faults
  /\ bound /\ SenderUp /\ spc # "spraying" /\ Buffered("stray") = {}
  /\ inbox' = Append(inbox, "stray")
  /\ UNCHANGED <<args, sender, receiver, control, flight, lost, missed>>

SenderCrash ==
  /\ "crash" \in Faults /\ SenderUp
  /\ spc' = "crashed"
  /\ UNCHANGED <<args, port, target, bound, receiver, control, flow>>

ReceiverCrash ==
  /\ "crash" \in Faults /\ ReceiverUp
  /\ rpc' = "crashed"
  /\ UNCHANGED <<args, sender, attempts, udp, made, keepalive, control, flow>>

-----------------------------------------------------------------------------
SenderNext ==
  \/ SenderDials \/ SenderListens \/ SenderAccepts
  \/ SenderTls \/ VerifyServerCert
  \/ WriteHello \/ ReadHelloAck \/ WriteManifest \/ ReadManifestAck
  \/ SenderPeerGone \/ ReadFlow \/ AcceptTimesOut

ReceiverNext ==
  \/ ReceiverListens \/ ReceiverAccepts \/ ReceiverDials
  \/ ReceiverPlain \/ ReceiverTls \/ ReceiverFinished \/ ReadClientHello
  \/ ReadHello \/ WriteHelloAck \/ ReadManifest \/ WriteManifestAck
  \/ ReceiverPeerGone

FaultNext ==
  \/ SenderBindFails \/ ReceiverStartFails \/ ReadFlowFails \/ ReceiverBindFails \/ CreateFails
  \/ KeepaliveBreaks \/ Lose \/ StrayArrives \/ SenderCrash \/ ReceiverCrash

Next == SenderNext \/ ReceiverNext \/ Keepalive \/ Deliver \/ FaultNext

Spec == Init /\ [][Next]_vars

(* Both programs, the keepalive task and the network keep going. *)
FairSpec ==
  /\ Spec
  /\ WF_vars(SenderNext) /\ WF_vars(ReceiverNext)
  /\ WF_vars(Keepalive) /\ WF_vars(Deliver) /\ WF_vars(AcceptTimesOut)

-----------------------------------------------------------------------------
(* The variables have their types; no attempt is made beyond the limit. *)
TypeOK ==
  /\ args \in Args
  /\ spc \in SenderSteps \cup SenderEnds /\ port \in HelloAcks
  /\ target \in {"none", "receiver", "stranger"} /\ bound \in BOOLEAN
  /\ rpc \in ReceiverSteps \cup ReceiverEnds /\ attempts \in 0..MaxAttempts
  /\ udp \in BOOLEAN /\ made \in BOOLEAN
  /\ keepalive \in {"none", "running", "over"}
  /\ conn \in BOOLEAN /\ toRecv \in Seq(ToRecv) /\ toSend \in Seq(ToSend)
  /\ flight \in 0..MaxFlight /\ inbox \in Seq({"open", "stray"})
  /\ lost \in 0..MaxLoss /\ missed \in BOOLEAN

(* When the sender starts to spray, the receiver it sprays at has bound    *)
(* its UDP socket and made its file: no symbol is sent into nothing.       *)
SprayReady == spc = "spraying" => udp /\ made /\ target = "receiver"

(* The two command lines fit. *)
Agreed ==
  /\ args.version = "same" /\ args.smode = args.rmode
  /\ args.pin = IF args.identity THEN "right" ELSE "nocrypto"

(* Neither side gets past the handshake unless the versions agree, both    *)
(* encrypt or neither does, and the receiver's certificate is the one the  *)
(* sender pins; whatever mismatch there is ends in an error or in the      *)
(* handshake, never in a transfer.                                         *)
OnlyAgreed == spc = "spraying" \/ rpc = "ready" => Agreed

(* udp.rs: "Bound up front (before the TCP handshake) so an early          *)
(* flow-open is never missed".                                             *)
EarlyOpenKept == ~missed

(* Each side ended or got to the transfer, or both wait for something no   *)
(* one will send: a listener that is not dialled, or a TLS client and a    *)
(* receiver without TLS.                                                   *)
AtRest ==
  LET encryptionMismatch == spc = "servercert" /\ rpc = "stuck"
  IN /\ \/ spc \in SenderEnds \cup {"spraying"} \/ encryptionMismatch
        \/ spc = "listening" /\ ~conn /\ (rpc = "listening" \/ ~ReceiverUp)
     /\ \/ rpc \in ReceiverEnds \cup {"ready"} \/ encryptionMismatch
        \/ rpc = "listening" /\ ~conn /\ (spc = "listening" \/ ~SenderUp)

(* Nobody waits for ever in the handshake, but for a listener whose peer   *)
(* does not dial, and a sender with --pin facing a receiver with           *)
(* --nocrypto, both of whom wait for the other without a timeout.          *)
HandshakeSettles == <>[]AtRest

(* A sender that waits for the flow gets to spray while the network loses  *)
(* finitely many datagrams, thanks to the keepalive, unless a side or a    *)
(* socket fails: nobody waits for a flow-open that no one sends.           *)
FlowOpens ==
  spc = "acceptflow"
    ~> spc = "spraying" \/ ~SenderUp \/ ~ReceiverUp

=============================================================================
