-------------------------- MODULE RendezvousProofs --------------------------
(***************************************************************************)
(* Proofs that the handshake keeps its safety properties for every number  *)
(* of attempts and flow-opens and every set of faults.                     *)
(***************************************************************************)
EXTENDS Rendezvous, SequenceTheorems, TLAPS

PastTls     == {"hello", "helloack", "manifest", "manifestack"}
SymbolPlane == {"acceptflow", "spraying"}
BeforeHello == {"start", "listening", "tls", "finished", "hello", "stuck"}

Has(q, f) == \E i \in 1..Len(q) : q[i] = f

(* Who has opened a flow has read the Hello of a pull sender, which had    *)
(* bound its acceptor before it could be dialled.                          *)
FlowInv ==
  /\ rpc = "start" => attempts < MaxAttempts
  /\ rpc \in BeforeHello => keepalive = "none"
  /\ keepalive = "none" => flight = 0
  /\ keepalive # "none" => args.smode = "pull" /\ spc # "start"
  /\ toRecv # <<>> => spc # "start"
  /\ Has(toRecv, "pull") => args.smode = "pull"
  /\ args.smode = "pull" /\ spc # "start" /\ SenderUp => bound
  /\ ~missed

(* Who is on the connection: a side that listens was not started to dial,  *)
(* so a connection is between sides of the same mode.                      *)
ConnInv ==
  /\ spc = "start" \/ rpc = "start" => ~conn
  /\ spc = "listening" => args.smode = "pull"
  /\ rpc = "listening" => args.rmode = "push"
  /\ conn => args.smode = args.rmode
  /\ spc \in SenderSteps \ {"start", "listening"} => conn
  /\ rpc \in ReceiverSteps \ {"start", "listening"} => conn
  /\ toRecv # <<>> => conn

(* What each message of the TLS handshake and the steps after it say of    *)
(* the two choices of encryption.                                          *)
TlsInv ==
  /\ Has(toSend, "servercert") => args.identity
  /\ Has(toRecv, "finished") => args.pin = "right"
  /\ spc \in PastTls \cup SymbolPlane \/ Has(toRecv, "push") \/ Has(toRecv, "pull") =>
       args.pin = "nocrypto" \/ (args.pin = "right" /\ args.identity)
  /\ rpc = "finished" => args.identity
  /\ rpc = "hello" /\ args.identity => args.pin = "right"

(* What each step of the receiver, the frames to the sender, and each step *)
(* of the sender say of the handshake so far.                              *)
StepInv ==
  /\ rpc \in {"helloack", "manifest", "manifestack", "ready"} => udp /\ Agreed
  /\ rpc \in {"manifestack", "ready"} => made
  /\ Has(toSend, "manifestack") \/ spc \in SymbolPlane => udp /\ made /\ Agreed
  /\ spc = "spraying" => target = "receiver"

IInv == TypeOK /\ FlowInv /\ ConnInv /\ TlsInv /\ StepInv


-----------------------------------------------------------------------------
(* What a frame appended to a queue, or read from it, changes.             *)
LEMMA HasAppend ==
  ASSUME NEW S, NEW q \in Seq(S), NEW e \in S, NEW f
  PROVE  /\ Append(q, e) \in Seq(S)
         /\ Has(Append(q, e), f) <=> Has(q, f) \/ e = f
  BY DEF Has

LEMMA HasTail ==
  ASSUME NEW S, NEW q \in Seq(S), q # <<>>, NEW f
  PROVE  /\ Tail(q) \in Seq(S)
         /\ Has(Tail(q), f) => Has(q, f)
         /\ Tail(q) # <<>> => q # <<>>
  BY DEF Has

LEMMA HeadIn ==
  ASSUME NEW S, NEW q \in Seq(S), q # <<>>
  PROVE  Head(q) \in S /\ Has(q, Head(q))
  BY DEF Has

-----------------------------------------------------------------------------
(* Every step keeps the type invariant. *)
LEMMA NextType == IInv /\ [Next]_vars => TypeOK'
<1> SUFFICES ASSUME IInv, [Next]_vars PROVE TypeOK'
  OBVIOUS
<1> USE RendezvousAssumption DEF IInv, FlowInv, BeforeHello, TypeOK, Args, Hellos, HelloAcks,
         ToRecv, ToSend, SenderSteps, SenderEnds, ReceiverSteps, ReceiverEnds,
         sender, receiver, control, flow, SenderUp, ReceiverUp
<1>1. CASE SenderDials
  BY <1>1 DEF SenderDials
<1>2. CASE SenderListens
  BY <1>2 DEF SenderListens
<1>3. CASE SenderAccepts
  BY <1>3 DEF SenderAccepts
<1>4. CASE SenderTls
  BY <1>4, HasAppend DEF SenderTls, ParsePin
<1>5. CASE WriteHello
  BY <1>5, HasAppend DEF WriteHello
<1>6. CASE ReadHelloAck
  BY <1>6, HasTail, HeadIn DEF ReadHelloAck
<1>7. CASE WriteManifest
  BY <1>7, HasAppend DEF WriteManifest
<1>8. CASE ReadManifestAck
  BY <1>8, HasTail, HeadIn DEF ReadManifestAck
<1>9. CASE SenderPeerGone
  BY <1>9 DEF SenderPeerGone
<1>10. CASE ReadFlow
  BY <1>10, HasTail, HeadIn DEF ReadFlow
<1>11. CASE AcceptTimesOut
  BY <1>11 DEF AcceptTimesOut
<1>12. CASE ReceiverListens
  BY <1>12 DEF ReceiverListens
<1>13. CASE ReceiverAccepts
  BY <1>13 DEF ReceiverAccepts
<1>14. CASE ReceiverDials
  BY <1>14 DEF ReceiverDials
<1>15. CASE ReceiverTls
  BY <1>15, HasTail, HeadIn, HasAppend DEF ReceiverTls
<1>33. CASE VerifyServerCert
  BY <1>33, HasTail, HeadIn, HasAppend DEF VerifyServerCert
<1>34. CASE ReceiverPlain
  BY <1>34 DEF ReceiverPlain
<1>35. CASE ReceiverFinished
  BY <1>35, HasTail, HeadIn DEF ReceiverFinished
<1>36. CASE ReadClientHello
  BY <1>36, HasTail, HeadIn DEF ReadClientHello
<1>37. CASE ReceiverStartFails
  BY <1>37 DEF ReceiverStartFails
<1>16. CASE ReadHello
  <2>1. toRecv' \in Seq(ToRecv)
    BY <1>16, HasTail DEF ReadHello
  <2>2. Append(toSend, "done") \in Seq(ToSend)
    <3>1. "done" \in ToSend /\ toSend \in Seq(ToSend)
      OBVIOUS
    <3> QED
      BY <3>1, HasAppend
  <2>3. flight' \in 0..MaxFlight
    BY <1>16 DEF ReadHello
  <2>4. CASE args.version = "other"
    <3>1. toSend' = Append(toSend, "done") /\ rpc' = "failed" /\ UNCHANGED <<udp, keepalive>>
      BY <1>16, <2>4 DEF ReadHello
    <3> QED
      BY <1>16, <2>1, <2>2, <2>3, <3>1 DEF ReadHello
  <2>5. CASE args.version # "other"
    <3>1. /\ toSend' = toSend /\ rpc' = "helloack" /\ udp' = TRUE
          /\ keepalive' \in {"none", "running"}
      BY <1>16, <2>5 DEF ReadHello
    <3> QED
      BY <1>16, <2>1, <2>3, <3>1 DEF ReadHello
  <2> QED
    BY <2>4, <2>5
<1>17. CASE WriteHelloAck
  BY <1>17, HasAppend DEF WriteHelloAck
<1>18. CASE ReadManifest
  BY <1>18, HasTail, HeadIn DEF ReadManifest
<1>19. CASE WriteManifestAck
  BY <1>19, HasAppend DEF WriteManifestAck
<1>20. CASE ReceiverPeerGone
  BY <1>20 DEF ReceiverPeerGone
<1>21. CASE SenderBindFails
  BY <1>21 DEF SenderBindFails
<1>22. CASE ReadFlowFails
  BY <1>22 DEF ReadFlowFails
<1>23. CASE ReceiverBindFails
  BY <1>23, HasTail, HeadIn DEF ReceiverBindFails
<1>24. CASE CreateFails
  BY <1>24, HasTail, HeadIn DEF CreateFails
<1>25. CASE KeepaliveBreaks
  BY <1>25 DEF KeepaliveBreaks
<1>26. CASE Lose
  BY <1>26 DEF Lose
<1>27. CASE StrayArrives
  BY <1>27 DEF StrayArrives
<1>28. CASE SenderCrash
  BY <1>28 DEF SenderCrash
<1>29. CASE ReceiverCrash
  BY <1>29 DEF ReceiverCrash
<1>30. CASE Keepalive
  BY <1>30 DEF Keepalive
<1>31. CASE Deliver
  BY <1>31 DEF Deliver
<1>32. CASE UNCHANGED vars
  BY <1>32 DEF vars
<1> QED
  BY <1>1, <1>2, <1>3, <1>4, <1>5, <1>6, <1>7, <1>8, <1>9, <1>10, <1>11, <1>12, <1>13, <1>14, <1>15, <1>16, <1>17, <1>18, <1>19, <1>20, <1>21, <1>22, <1>23, <1>24, <1>25, <1>26, <1>27, <1>28, <1>29, <1>30, <1>31, <1>32, <1>33, <1>34, <1>35, <1>36, <1>37 DEF Next, SenderNext, ReceiverNext, FaultNext

(* Every step keeps the flow-opens accounted for. *)
LEMMA NextFlow == IInv /\ [Next]_vars => FlowInv'
<1> SUFFICES ASSUME IInv, [Next]_vars PROVE FlowInv'
  OBVIOUS
<1> USE RendezvousAssumption DEF IInv, FlowInv, BeforeHello, TypeOK, Args, Hellos, HelloAcks,
         ToRecv, ToSend, SenderSteps, SenderEnds, ReceiverSteps, ReceiverEnds,
         sender, receiver, control, flow, SenderUp, ReceiverUp
<1>1. CASE SenderDials
  BY <1>1 DEF SenderDials
<1>2. CASE SenderListens
  BY <1>2 DEF SenderListens
<1>3. CASE SenderAccepts
  BY <1>3 DEF SenderAccepts
<1>4. CASE SenderTls
  <2>1. Has(toRecv', "pull") => Has(toRecv, "pull")
    <3>1. "clienthello" \in ToRecv /\ "clienthello" # "pull"
      OBVIOUS
    <3>2. Has(Append(toRecv, "clienthello"), "pull") => Has(toRecv, "pull")
      BY <3>1, HasAppend
    <3> QED
      BY <1>4, <3>2 DEF SenderTls
  <2>2. spc = "tls" /\ spc' \in {"hello", "failed", "servercert"}
    BY <1>4 DEF SenderTls
  <2> QED
    BY <1>4, <2>1, <2>2 DEF SenderTls
<1>5. CASE WriteHello
  BY <1>5, HasAppend DEF WriteHello
<1>6. CASE ReadHelloAck
  BY <1>6, HasTail, HeadIn DEF ReadHelloAck
<1>7. CASE WriteManifest
  BY <1>7, HasAppend DEF WriteManifest
<1>8. CASE ReadManifestAck
  BY <1>8, HasTail, HeadIn DEF ReadManifestAck
<1>9. CASE SenderPeerGone
  BY <1>9 DEF SenderPeerGone
<1>10. CASE ReadFlow
  BY <1>10, HasTail, HeadIn DEF ReadFlow
<1>11. CASE AcceptTimesOut
  BY <1>11 DEF AcceptTimesOut
<1>12. CASE ReceiverListens
  BY <1>12 DEF ReceiverListens
<1>13. CASE ReceiverAccepts
  BY <1>13 DEF ReceiverAccepts
<1>14. CASE ReceiverDials
  BY <1>14 DEF ReceiverDials
<1>15. CASE ReceiverTls
  BY <1>15, HasTail, HeadIn, HasAppend DEF ReceiverTls
<1>33. CASE VerifyServerCert
  <2>1. Has(toRecv', "pull") => Has(toRecv, "pull")
    <3>1. "finished" \in ToRecv /\ "finished" # "pull"
      OBVIOUS
    <3>2. Has(Append(toRecv, "finished"), "pull") => Has(toRecv, "pull")
      BY <3>1, HasAppend
    <3> QED
      BY <1>33, <3>2 DEF VerifyServerCert
  <2>2. spc = "servercert" /\ spc' \in {"hello", "failed"}
    BY <1>33 DEF VerifyServerCert
  <2> QED
    BY <1>33, <2>1, <2>2 DEF VerifyServerCert
<1>34. CASE ReceiverPlain
  BY <1>34 DEF ReceiverPlain
<1>35. CASE ReceiverFinished
  BY <1>35, HasTail, HeadIn DEF ReceiverFinished
<1>36. CASE ReadClientHello
  BY <1>36, HasTail, HeadIn DEF ReadClientHello
<1>37. CASE ReceiverStartFails
  BY <1>37 DEF ReceiverStartFails
<1>16. CASE ReadHello
  BY <1>16, HasTail, HeadIn, HasAppend DEF ReadHello
<1>17. CASE WriteHelloAck
  BY <1>17, HasAppend DEF WriteHelloAck
<1>18. CASE ReadManifest
  BY <1>18, HasTail, HeadIn DEF ReadManifest
<1>19. CASE WriteManifestAck
  BY <1>19, HasAppend DEF WriteManifestAck
<1>20. CASE ReceiverPeerGone
  BY <1>20 DEF ReceiverPeerGone
<1>21. CASE SenderBindFails
  BY <1>21 DEF SenderBindFails
<1>22. CASE ReadFlowFails
  BY <1>22 DEF ReadFlowFails
<1>23. CASE ReceiverBindFails
  BY <1>23, HasTail, HeadIn DEF ReceiverBindFails
<1>24. CASE CreateFails
  BY <1>24, HasTail, HeadIn DEF CreateFails
<1>25. CASE KeepaliveBreaks
  BY <1>25 DEF KeepaliveBreaks
<1>26. CASE Lose
  BY <1>26 DEF Lose
<1>27. CASE StrayArrives
  BY <1>27 DEF StrayArrives
<1>28. CASE SenderCrash
  BY <1>28 DEF SenderCrash
<1>29. CASE ReceiverCrash
  BY <1>29 DEF ReceiverCrash
<1>30. CASE Keepalive
  BY <1>30 DEF Keepalive
<1>31. CASE Deliver
  BY <1>31 DEF Deliver
<1>32. CASE UNCHANGED vars
  BY <1>32 DEF vars
<1> QED
  BY <1>1, <1>2, <1>3, <1>4, <1>5, <1>6, <1>7, <1>8, <1>9, <1>10, <1>11, <1>12, <1>13, <1>14, <1>15, <1>16, <1>17, <1>18, <1>19, <1>20, <1>21, <1>22, <1>23, <1>24, <1>25, <1>26, <1>27, <1>28, <1>29, <1>30, <1>31, <1>32, <1>33, <1>34, <1>35, <1>36, <1>37 DEF Next, SenderNext, ReceiverNext, FaultNext

(* Every step keeps what a connection says of the two modes. *)
LEMMA NextConn == IInv /\ [Next]_vars => ConnInv'
<1> SUFFICES ASSUME IInv, [Next]_vars PROVE ConnInv'
  OBVIOUS
<1> USE RendezvousAssumption DEF IInv, ConnInv, TypeOK, Args, Hellos, HelloAcks,
         ToRecv, ToSend, SenderSteps, SenderEnds, ReceiverSteps, ReceiverEnds,
         sender, receiver, control, flow, SenderUp, ReceiverUp
<1>1. CASE SenderDials
  BY <1>1 DEF SenderDials
<1>2. CASE SenderListens
  BY <1>2 DEF SenderListens
<1>3. CASE SenderAccepts
  BY <1>3 DEF SenderAccepts
<1>4. CASE SenderTls
  BY <1>4, HasAppend DEF SenderTls, ParsePin
<1>5. CASE WriteHello
  BY <1>5, HasAppend DEF WriteHello
<1>6. CASE ReadHelloAck
  BY <1>6, HasTail, HeadIn DEF ReadHelloAck
<1>7. CASE WriteManifest
  BY <1>7, HasAppend DEF WriteManifest
<1>8. CASE ReadManifestAck
  BY <1>8, HasTail, HeadIn DEF ReadManifestAck
<1>9. CASE SenderPeerGone
  BY <1>9 DEF SenderPeerGone
<1>10. CASE ReadFlow
  BY <1>10, HasTail, HeadIn DEF ReadFlow
<1>11. CASE AcceptTimesOut
  BY <1>11 DEF AcceptTimesOut
<1>12. CASE ReceiverListens
  BY <1>12 DEF ReceiverListens
<1>13. CASE ReceiverAccepts
  BY <1>13 DEF ReceiverAccepts
<1>14. CASE ReceiverDials
  BY <1>14 DEF ReceiverDials
<1>15. CASE ReceiverTls
  BY <1>15, HasTail, HeadIn, HasAppend DEF ReceiverTls
<1>33. CASE VerifyServerCert
  BY <1>33, HasTail, HeadIn, HasAppend DEF VerifyServerCert
<1>34. CASE ReceiverPlain
  BY <1>34 DEF ReceiverPlain
<1>35. CASE ReceiverFinished
  BY <1>35, HasTail, HeadIn DEF ReceiverFinished
<1>36. CASE ReadClientHello
  BY <1>36, HasTail, HeadIn DEF ReadClientHello
<1>37. CASE ReceiverStartFails
  BY <1>37 DEF ReceiverStartFails
<1>16. CASE ReadHello
  BY <1>16, HasTail, HeadIn, HasAppend DEF ReadHello
<1>17. CASE WriteHelloAck
  BY <1>17, HasAppend DEF WriteHelloAck
<1>18. CASE ReadManifest
  BY <1>18, HasTail, HeadIn DEF ReadManifest
<1>19. CASE WriteManifestAck
  BY <1>19, HasAppend DEF WriteManifestAck
<1>20. CASE ReceiverPeerGone
  BY <1>20 DEF ReceiverPeerGone
<1>21. CASE SenderBindFails
  BY <1>21 DEF SenderBindFails
<1>22. CASE ReadFlowFails
  BY <1>22 DEF ReadFlowFails
<1>23. CASE ReceiverBindFails
  BY <1>23, HasTail, HeadIn DEF ReceiverBindFails
<1>24. CASE CreateFails
  BY <1>24, HasTail, HeadIn DEF CreateFails
<1>25. CASE KeepaliveBreaks
  BY <1>25 DEF KeepaliveBreaks
<1>26. CASE Lose
  BY <1>26 DEF Lose
<1>27. CASE StrayArrives
  BY <1>27 DEF StrayArrives
<1>28. CASE SenderCrash
  BY <1>28 DEF SenderCrash
<1>29. CASE ReceiverCrash
  BY <1>29 DEF ReceiverCrash
<1>30. CASE Keepalive
  BY <1>30 DEF Keepalive
<1>31. CASE Deliver
  BY <1>31 DEF Deliver
<1>32. CASE UNCHANGED vars
  BY <1>32 DEF vars
<1> QED
  BY <1>1, <1>2, <1>3, <1>4, <1>5, <1>6, <1>7, <1>8, <1>9, <1>10, <1>11, <1>12, <1>13, <1>14, <1>15, <1>16, <1>17, <1>18, <1>19, <1>20, <1>21, <1>22, <1>23, <1>24, <1>25, <1>26, <1>27, <1>28, <1>29, <1>30, <1>31, <1>32, <1>33, <1>34, <1>35, <1>36, <1>37 DEF Next, SenderNext, ReceiverNext, FaultNext

(* Every step keeps what the TLS handshake says of the encryption. *)
LEMMA NextTls == IInv /\ [Next]_vars => TlsInv'
<1> SUFFICES ASSUME IInv, [Next]_vars PROVE TlsInv'
  OBVIOUS
<1> USE RendezvousAssumption DEF IInv, ConnInv, TlsInv, PastTls, SymbolPlane, TypeOK, Args, Hellos, HelloAcks,
         ToRecv, ToSend, SenderSteps, SenderEnds, ReceiverSteps, ReceiverEnds,
         sender, receiver, control, flow, SenderUp, ReceiverUp
<1>1. CASE SenderDials
  BY <1>1 DEF SenderDials
<1>2. CASE SenderListens
  BY <1>2 DEF SenderListens
<1>3. CASE SenderAccepts
  BY <1>3 DEF SenderAccepts
<1>4. CASE SenderTls
  <2>1. \A f \in {"finished", "push", "pull"} : Has(toRecv', f) => Has(toRecv, f)
    <3>1. "clienthello" \in ToRecv /\ \A f \in {"finished", "push", "pull"} : "clienthello" # f
      OBVIOUS
    <3>2. \A f \in {"finished", "push", "pull"} :
            Has(Append(toRecv, "clienthello"), f) => Has(toRecv, f)
      BY <3>1, HasAppend
    <3> QED
      BY <1>4, <3>2 DEF SenderTls, ParsePin
  <2>2. spc' \in PastTls \cup SymbolPlane => args.pin = "nocrypto"
    BY <1>4 DEF SenderTls, ParsePin
  <2> QED
    BY <1>4, <2>1, <2>2 DEF SenderTls, ParsePin
<1>5. CASE WriteHello
  BY <1>5, HasAppend DEF WriteHello
<1>6. CASE ReadHelloAck
  BY <1>6, HasTail, HeadIn DEF ReadHelloAck
<1>7. CASE WriteManifest
  BY <1>7, HasAppend DEF WriteManifest
<1>8. CASE ReadManifestAck
  BY <1>8, HasTail, HeadIn DEF ReadManifestAck
<1>9. CASE SenderPeerGone
  BY <1>9 DEF SenderPeerGone
<1>10. CASE ReadFlow
  BY <1>10, HasTail, HeadIn DEF ReadFlow
<1>11. CASE AcceptTimesOut
  BY <1>11 DEF AcceptTimesOut
<1>12. CASE ReceiverListens
  BY <1>12 DEF ReceiverListens
<1>13. CASE ReceiverAccepts
  BY <1>13 DEF ReceiverAccepts
<1>14. CASE ReceiverDials
  BY <1>14 DEF ReceiverDials
<1>15. CASE ReceiverTls
  BY <1>15, HasTail, HeadIn, HasAppend DEF ReceiverTls
<1>33. CASE VerifyServerCert
  BY <1>33, HasTail, HeadIn, HasAppend DEF VerifyServerCert
<1>34. CASE ReceiverPlain
  BY <1>34 DEF ReceiverPlain
<1>35. CASE ReceiverFinished
  BY <1>35, HasTail, HeadIn DEF ReceiverFinished
<1>36. CASE ReadClientHello
  BY <1>36, HasTail, HeadIn DEF ReadClientHello
<1>37. CASE ReceiverStartFails
  BY <1>37 DEF ReceiverStartFails
<1>16. CASE ReadHello
  <2>1. \A f \in {"finished", "push", "pull"} : Has(toRecv', f) => Has(toRecv, f)
    BY <1>16, HasTail DEF ReadHello
  <2>2. Has(toSend', "servercert") => Has(toSend, "servercert")
    <3>1. "done" \in ToSend /\ "done" # "servercert"
      OBVIOUS
    <3>2. Has(Append(toSend, "done"), "servercert") => Has(toSend, "servercert")
      BY <3>1, HasAppend
    <3> QED
      BY <1>16, <3>2 DEF ReadHello
  <2>3. rpc' \in {"failed", "helloack"} /\ UNCHANGED <<args, spc>>
    BY <1>16 DEF ReadHello
  <2> QED
    BY <2>1, <2>2, <2>3
<1>17. CASE WriteHelloAck
  BY <1>17, HasAppend DEF WriteHelloAck
<1>18. CASE ReadManifest
  BY <1>18, HasTail, HeadIn DEF ReadManifest
<1>19. CASE WriteManifestAck
  BY <1>19, HasAppend DEF WriteManifestAck
<1>20. CASE ReceiverPeerGone
  BY <1>20 DEF ReceiverPeerGone
<1>21. CASE SenderBindFails
  BY <1>21 DEF SenderBindFails
<1>22. CASE ReadFlowFails
  BY <1>22 DEF ReadFlowFails
<1>23. CASE ReceiverBindFails
  BY <1>23, HasTail, HeadIn DEF ReceiverBindFails
<1>24. CASE CreateFails
  BY <1>24, HasTail, HeadIn DEF CreateFails
<1>25. CASE KeepaliveBreaks
  BY <1>25 DEF KeepaliveBreaks
<1>26. CASE Lose
  BY <1>26 DEF Lose
<1>27. CASE StrayArrives
  BY <1>27 DEF StrayArrives
<1>28. CASE SenderCrash
  BY <1>28 DEF SenderCrash
<1>29. CASE ReceiverCrash
  BY <1>29 DEF ReceiverCrash
<1>30. CASE Keepalive
  BY <1>30 DEF Keepalive
<1>31. CASE Deliver
  BY <1>31 DEF Deliver
<1>32. CASE UNCHANGED vars
  BY <1>32 DEF vars
<1> QED
  BY <1>1, <1>2, <1>3, <1>4, <1>5, <1>6, <1>7, <1>8, <1>9, <1>10, <1>11, <1>12, <1>13, <1>14, <1>15, <1>16, <1>17, <1>18, <1>19, <1>20, <1>21, <1>22, <1>23, <1>24, <1>25, <1>26, <1>27, <1>28, <1>29, <1>30, <1>31, <1>32, <1>33, <1>34, <1>35, <1>36, <1>37 DEF Next, SenderNext, ReceiverNext, FaultNext

(* Every step keeps what the steps of the handshake say. *)
LEMMA NextStep == IInv /\ [Next]_vars => StepInv'
<1> SUFFICES ASSUME IInv, [Next]_vars PROVE StepInv'
  OBVIOUS
<1> USE RendezvousAssumption DEF IInv, ConnInv, TlsInv, StepInv, Agreed, PastTls, SymbolPlane, TypeOK, Args, Hellos,
         HelloAcks, ToRecv, ToSend, SenderSteps, SenderEnds, ReceiverSteps,
         ReceiverEnds, sender, receiver, control, flow, SenderUp,
         ReceiverUp
<1>1. CASE SenderDials
  BY <1>1 DEF SenderDials
<1>2. CASE SenderListens
  BY <1>2 DEF SenderListens
<1>3. CASE SenderAccepts
  BY <1>3 DEF SenderAccepts
<1>4. CASE SenderTls
  BY <1>4, HasAppend DEF SenderTls, ParsePin
<1>5. CASE WriteHello
  BY <1>5, HasAppend DEF WriteHello
<1>6. CASE ReadHelloAck
  BY <1>6, HasTail, HeadIn DEF ReadHelloAck
<1>7. CASE WriteManifest
  BY <1>7, HasAppend DEF WriteManifest
<1>8. CASE ReadManifestAck
  BY <1>8, HasTail, HeadIn DEF ReadManifestAck
<1>9. CASE SenderPeerGone
  BY <1>9 DEF SenderPeerGone
<1>10. CASE ReadFlow
  BY <1>10, HasTail, HeadIn DEF ReadFlow
<1>11. CASE AcceptTimesOut
  BY <1>11 DEF AcceptTimesOut
<1>12. CASE ReceiverListens
  BY <1>12 DEF ReceiverListens
<1>13. CASE ReceiverAccepts
  BY <1>13 DEF ReceiverAccepts
<1>14. CASE ReceiverDials
  BY <1>14 DEF ReceiverDials
<1>15. CASE ReceiverTls
  BY <1>15, HasTail, HeadIn, HasAppend DEF ReceiverTls
<1>33. CASE VerifyServerCert
  BY <1>33, HasTail, HeadIn, HasAppend DEF VerifyServerCert
<1>34. CASE ReceiverPlain
  BY <1>34 DEF ReceiverPlain
<1>35. CASE ReceiverFinished
  BY <1>35, HasTail, HeadIn DEF ReceiverFinished
<1>36. CASE ReadClientHello
  BY <1>36, HasTail, HeadIn DEF ReadClientHello
<1>37. CASE ReceiverStartFails
  BY <1>37 DEF ReceiverStartFails
<1>16. CASE ReadHello
  <2>1. Has(toSend', "manifestack") => Has(toSend, "manifestack")
    <3>1. "done" \in ToSend /\ "done" # "manifestack"
      OBVIOUS
    <3>2. Has(Append(toSend, "done"), "manifestack") => Has(toSend, "manifestack")
      BY <3>1, HasAppend
    <3> QED
      BY <1>16, <3>2 DEF ReadHello
  <2>2. rpc = "hello" /\ (Has(toRecv, "push") \/ Has(toRecv, "pull"))
    BY <1>16, HeadIn DEF ReadHello
  <2>3. args.smode = args.rmode
    BY <2>2
  <2>4. args.pin = IF args.identity THEN "right" ELSE "nocrypto"
    BY <2>2
  <2>5. rpc' = "helloack" => udp' /\ Agreed'
    <3>1. ASSUME rpc' = "helloack" PROVE args.version = "same" /\ udp' = TRUE
      BY <1>16, <3>1 DEF ReadHello
    <3> QED
      BY <1>16, <2>3, <2>4, <3>1 DEF ReadHello
  <2>6. rpc' \in {"failed", "helloack"} /\ UNCHANGED <<args, spc, made, target>>
    BY <1>16 DEF ReadHello
  <2>7. udp' = udp \/ udp' = TRUE
    BY <1>16 DEF ReadHello
  <2> QED
    BY <2>1, <2>5, <2>6, <2>7
<1>17. CASE WriteHelloAck
  <2>1. \A e \in HelloAcks :
          Has(Append(toSend, e), "manifestack") => Has(toSend, "manifestack")
    BY HasAppend
  <2>2. Has(toSend', "manifestack") => Has(toSend, "manifestack")
    BY <1>17, <2>1 DEF WriteHelloAck
  <2> QED
    BY <1>17, <2>2 DEF WriteHelloAck
<1>18. CASE ReadManifest
  BY <1>18, HasTail, HeadIn DEF ReadManifest
<1>19. CASE WriteManifestAck
  BY <1>19, HasAppend DEF WriteManifestAck
<1>20. CASE ReceiverPeerGone
  BY <1>20 DEF ReceiverPeerGone
<1>21. CASE SenderBindFails
  BY <1>21 DEF SenderBindFails
<1>22. CASE ReadFlowFails
  BY <1>22 DEF ReadFlowFails
<1>23. CASE ReceiverBindFails
  BY <1>23, HasTail, HeadIn DEF ReceiverBindFails
<1>24. CASE CreateFails
  BY <1>24, HasTail, HeadIn DEF CreateFails
<1>25. CASE KeepaliveBreaks
  BY <1>25 DEF KeepaliveBreaks
<1>26. CASE Lose
  BY <1>26 DEF Lose
<1>27. CASE StrayArrives
  BY <1>27 DEF StrayArrives
<1>28. CASE SenderCrash
  BY <1>28 DEF SenderCrash
<1>29. CASE ReceiverCrash
  BY <1>29 DEF ReceiverCrash
<1>30. CASE Keepalive
  BY <1>30 DEF Keepalive
<1>31. CASE Deliver
  BY <1>31 DEF Deliver
<1>32. CASE UNCHANGED vars
  BY <1>32 DEF vars
<1> QED
  BY <1>1, <1>2, <1>3, <1>4, <1>5, <1>6, <1>7, <1>8, <1>9, <1>10, <1>11, <1>12, <1>13, <1>14, <1>15, <1>16, <1>17, <1>18, <1>19, <1>20, <1>21, <1>22, <1>23, <1>24, <1>25, <1>26, <1>27, <1>28, <1>29, <1>30, <1>31, <1>32, <1>33, <1>34, <1>35, <1>36, <1>37 DEF Next, SenderNext, ReceiverNext, FaultNext


-----------------------------------------------------------------------------
(* The inductive invariant holds in every state of the handshake.          *)
THEOREM RendezvousInvariant == Spec => []IInv
<1>1. Init => IInv
  <2> SUFFICES ASSUME Init PROVE IInv
    OBVIOUS
  <2>1. TypeOK
    <3>1. toRecv \in Seq(ToRecv) /\ toSend \in Seq(ToSend) /\ inbox \in Seq({"open", "stray"})
      BY EmptySeq DEF Init
    <3>2. attempts \in 0..MaxAttempts /\ flight \in 0..MaxFlight /\ lost \in 0..MaxLoss
      BY RendezvousAssumption DEF Init
    <3> QED
      BY <3>1, <3>2 DEF Init, TypeOK, HelloAcks, SenderSteps, SenderEnds, ReceiverSteps, ReceiverEnds
  <2>2. \A f : ~Has(toRecv, f) /\ ~Has(toSend, f)
    BY DEF Init, Has
  <2>3. FlowInv
    BY RendezvousAssumption, <2>2 DEF Init, FlowInv
  <2>4. ConnInv
    BY DEF Init, ConnInv
  <2>5. TlsInv
    BY <2>2 DEF Init, TlsInv, PastTls, SymbolPlane
  <2>6. StepInv
    BY <2>2 DEF Init, StepInv, PastTls, SymbolPlane
  <2> QED
    BY <2>1, <2>3, <2>4, <2>5, <2>6 DEF IInv
<1>2. IInv /\ [Next]_vars => IInv'
  BY NextType, NextFlow, NextConn, NextTls, NextStep DEF IInv
<1> QED
  BY <1>1, <1>2, PTL DEF Spec

(* The state of the handshake stays in its type; connect_with_retry never  *)
(* makes more than its attempts.                                           *)
THEOREM RendezvousTypeOK == Spec => []TypeOK
<1>1. IInv => TypeOK
  BY DEF IInv
<1> QED
  BY <1>1, RendezvousInvariant, PTL

(* A sender that sprays does so at a receiver with its socket bound and    *)
(* its file made.                                                          *)
THEOREM RendezvousSprayReady == Spec => []SprayReady
<1>1. IInv => SprayReady
  BY DEF IInv, StepInv, SprayReady, SymbolPlane
<1> QED
  BY <1>1, RendezvousInvariant, PTL

(* Nobody gets past the handshake without agreement on version and         *)
(* certificate.                                                            *)
THEOREM RendezvousOnlyAgreed == Spec => []OnlyAgreed
<1>1. IInv => OnlyAgreed
  BY DEF IInv, StepInv, OnlyAgreed, PastTls, SymbolPlane
<1> QED
  BY <1>1, RendezvousInvariant, PTL

(* The acceptor's socket is bound before any flow-open can arrive.         *)
THEOREM RendezvousEarlyOpenKept == Spec => []EarlyOpenKept
<1>1. IInv => EarlyOpenKept
  BY DEF IInv, FlowInv, EarlyOpenKept
<1> QED
  BY <1>1, RendezvousInvariant, PTL

-----------------------------------------------------------------------------
(* The frames under way by where the two sides are.                        *)

Early == {"listening", "tls", "hello"}

(* The sender is in s, the receiver in r, and these frames are under way. *)
Phase(s, r, tr, ts) == spc \in s /\ rpc \in r /\ toRecv = tr /\ toSend = ts

(* The handshake is in lock step: while both sides are up, where they are  *)
(* determines the frames under way, and there is one wherever both read.   *)
(* The one exception is a sender with a pin facing a receiver without an   *)
(* identity that took the ClientHello for the start of a long frame.       *)
LinkInv ==
  /\ ~conn => toRecv = <<>> /\ toSend = <<>>
  /\ conn /\ SenderUp /\ ReceiverUp =>
      \/ Phase({"listening", "tls", "hello"}, Early, <<>>, <<>>)
      \/ Phase({"servercert"}, Early, <<"clienthello">>, <<>>)
      \/ Phase({"servercert"}, {"finished"}, <<>>, <<"servercert">>)
      \/ Phase({"servercert"}, {"stuck"}, <<>>, <<>>)
      \/ Phase({"hello"}, {"finished"}, <<"finished">>, <<>>)
      \/ Phase({"helloack"}, {"finished"}, <<"finished", args.smode>>, <<>>)
      \/ Phase({"helloack"}, Early, <<args.smode>>, <<>>)
      \/ Phase({"helloack"}, {"helloack"}, <<>>, <<>>)
      \/ \E a \in HelloAcks : Phase({"helloack"}, {"manifest"}, <<>>, <<a>>)
      \/ Phase({"manifest"}, {"manifest"}, <<>>, <<>>)
      \/ Phase({"manifestack"}, {"manifest"}, <<"manifest">>, <<>>)
      \/ Phase({"manifestack"}, {"manifestack"}, <<>>, <<>>)
      \/ Phase({"manifestack"}, {"ready"}, <<>>, <<"manifestack">>)
      \/ Phase({"acceptflow", "spraying"}, {"ready"}, <<>>, <<>>)

(* What a receiver may still find to read, also after its sender ended. *)
RecvInv ==
  /\ rpc \in Early => toRecv \in {<<>>, <<"clienthello">>, <<args.smode>>}
  /\ rpc = "finished" => toRecv \in {<<>>, <<"finished">>, <<"finished", args.smode>>}
  /\ rpc = "manifest" => toRecv \in {<<>>, <<"manifest">>}
  /\ rpc \in {"start", "stuck", "helloack", "manifestack", "ready"} => toRecv = <<>>

(* Queues of at most two frames. *)
LEMMA ShortQueues ==
  /\ \A x : <<x>> # <<>>
  /\ \A x, y : <<x, y>> # <<>>
  /\ \A x, y : <<x>> = <<y>> => x = y
  /\ \A x : Append(<<>>, x) = <<x>>
  /\ \A x, y : Append(<<x>>, y) = <<x, y>>
  /\ \A x : Head(<<x>>) = x
  /\ \A x, y : Head(<<x, y>>) = x
  /\ \A x : Tail(<<x>>) = <<>>
  /\ \A x, y : Tail(<<x, y>>) = <<y>>
<1>1. \A x : <<x>> # <<>>
  OBVIOUS
<1>2. \A x, y : <<x, y>> # <<>>
  OBVIOUS
<1>3. \A x, y : <<x>> = <<y>> => x = y
  OBVIOUS
<1>4. \A x : Append(<<>>, x) = <<x>>
  OBVIOUS
<1>5. ASSUME NEW x, NEW y
      PROVE  Append(<<x>>, y) = <<x, y>>
  <2>1. <<x>> \in Seq({x, y}) /\ <<x, y>> \in Seq({x, y})
    OBVIOUS
  <2>2. Append(<<x>>, y) \in Seq({x, y}) /\ Len(Append(<<x>>, y)) = 2
    BY <2>1
  <2>3. Append(<<x>>, y)[1] = x /\ Append(<<x>>, y)[2] = y
    BY <2>1
  <2>4. Len(<<x, y>>) = 2 /\ <<x, y>>[1] = x /\ <<x, y>>[2] = y
    OBVIOUS
  <2>5. \A i \in 1 .. 2 : i = 1 \/ i = 2
    OBVIOUS
  <2>6. \A i \in 1 .. Len(Append(<<x>>, y)) : Append(<<x>>, y)[i] = <<x, y>>[i]
    BY <2>2, <2>3, <2>4, <2>5
  <2> QED
    BY <2>1, <2>2, <2>4, <2>6, SeqEqual
<1>6. \A x : Head(<<x>>) = x
  OBVIOUS
<1>7. \A x, y : Head(<<x, y>>) = x
  OBVIOUS
<1>8. \A x : Tail(<<x>>) = <<>>
  OBVIOUS
<1>9. \A x, y : Tail(<<x, y>>) = <<y>>
  OBVIOUS
<1> QED
  BY <1>1, <1>2, <1>3, <1>4, <1>5, <1>6, <1>7, <1>8, <1>9

(* Every step keeps the two sides in lock step. *)
LEMMA NextLink == IInv /\ LinkInv /\ [Next]_vars => LinkInv'
<1> SUFFICES ASSUME IInv, LinkInv, [Next]_vars PROVE LinkInv'
  OBVIOUS
<1> USE ShortQueues DEF LinkInv, Phase, Early, HelloAcks, SenderSteps, ReceiverSteps,
        sender, receiver, control, SenderUp, ReceiverUp
<1>0. ConnInv /\ TypeOK
  BY DEF IInv
<1>1. CASE SenderDials
  BY <1>0, <1>1 DEF SenderDials, ConnInv
<1>2. CASE SenderListens \/ SenderAccepts
  BY <1>0, <1>2 DEF SenderListens, SenderAccepts, ConnInv
<1>3. CASE SenderTls
  BY <1>0, <1>3 DEF SenderTls, ConnInv
<1>4. CASE VerifyServerCert
  <2>1. /\ spc = "servercert" /\ toSend # <<>> /\ conn
        /\ spc' \in {"hello", "failed"} /\ UNCHANGED <<args, rpc, conn>>
    BY <1>0, <1>4 DEF VerifyServerCert, ConnInv
  <2>2. spc' = "hello" => toRecv' = Append(toRecv, "finished") /\ toSend' = Tail(toSend)
    BY <1>4 DEF VerifyServerCert
  <2>3. ReceiverUp => rpc = "finished" /\ toRecv = <<>> /\ toSend = <<"servercert">>
    BY <2>1
  <2>4. ReceiverUp /\ spc' = "hello" => toRecv' = <<"finished">> /\ toSend' = <<>>
    BY <2>2, <2>3
  <2> QED
    BY <2>1, <2>3, <2>4
<1>5. CASE WriteHello
  <2>1. /\ spc = "hello" /\ spc' = "helloack" /\ conn
        /\ toRecv' = Append(toRecv, args.smode) /\ UNCHANGED <<args, rpc, conn, toSend>>
    BY <1>0, <1>5 DEF WriteHello, ConnInv
  <2>2. CASE toRecv = <<>>
    <3>1. toRecv' = <<args.smode>>
      BY <2>1, <2>2
    <3> QED
      BY <2>1, <2>2, <3>1
  <2>3. CASE toRecv = <<"finished">>
    <3>1. toRecv' = <<"finished", args.smode>>
      BY <2>1, <2>3
    <3> QED
      BY <2>1, <2>3, <3>1
  <2> QED
    BY <2>1, <2>2, <2>3
<1>6. CASE ReadHelloAck
  BY <1>0, <1>6 DEF ReadHelloAck, ConnInv
<1>7. CASE WriteManifest
  BY <1>0, <1>7 DEF WriteManifest, ConnInv
<1>8. CASE ReadManifestAck
  BY <1>0, <1>8 DEF ReadManifestAck, ConnInv
<1>9. CASE SenderPeerGone \/ AcceptTimesOut \/ SenderBindFails \/ ReadFlowFails \/ SenderCrash
  BY <1>9 DEF SenderPeerGone, AcceptTimesOut, SenderBindFails, ReadFlowFails, SenderCrash
<1>10. CASE ReadFlow
  BY <1>10 DEF ReadFlow
<1>11. CASE ReceiverListens \/ ReceiverAccepts
  <2>1. /\ rpc \in {"start", "listening"} /\ rpc' \in {"listening", "tls"}
        /\ rpc' = "tls" => rpc = "listening" /\ conn
        /\ UNCHANGED <<args, spc, conn, toRecv, toSend>>
    BY <1>11 DEF ReceiverListens, ReceiverAccepts
  <2> QED
    BY <1>0, <2>1 DEF ConnInv
<1>12. CASE ReceiverDials
  BY <1>0, <1>12 DEF ReceiverDials, ConnInv
<1>13. CASE ReceiverPlain
  BY <1>13 DEF ReceiverPlain
<1>14. CASE ReceiverTls
  <2>1. /\ rpc = "tls" /\ toRecv # <<>> /\ conn
        /\ rpc' \in {"finished", "failed"} /\ UNCHANGED <<args, spc, conn>>
    BY <1>0, <1>14 DEF ReceiverTls, ConnInv
  <2>2. rpc' = "finished" => /\ Head(toRecv) = "clienthello"
                             /\ toRecv' = Tail(toRecv) /\ toSend' = Append(toSend, "servercert")
    BY <1>14 DEF ReceiverTls
  <2>3. SenderUp => /\ toSend = <<>>
                    /\ \/ spc = "servercert" /\ toRecv = <<"clienthello">>
                       \/ spc = "helloack" /\ toRecv = <<args.smode>>
    BY <2>1
  <2>4. args.smode # "clienthello"
    BY <1>0 DEF TypeOK, Args
  <2>5. SenderUp /\ rpc' = "finished"
          => spc = "servercert" /\ toRecv' = <<>> /\ toSend' = <<"servercert">>
    BY <2>2, <2>3, <2>4
  <2> QED
    BY <2>1, <2>5
<1>15. CASE ReceiverFinished
  <2>1. /\ rpc = "finished" /\ toRecv # <<>> /\ conn /\ toRecv' = Tail(toRecv)
        /\ rpc' \in {"hello", "failed"} /\ UNCHANGED <<args, spc, conn, toSend>>
    BY <1>0, <1>15 DEF ReceiverFinished, ConnInv
  <2>2. SenderUp => /\ toSend = <<>>
                    /\ \/ spc = "hello" /\ toRecv = <<"finished">>
                       \/ spc = "helloack" /\ toRecv = <<"finished", args.smode>>
    BY <2>1
  <2>3. SenderUp => \/ spc = "hello" /\ toRecv' = <<>>
                    \/ spc = "helloack" /\ toRecv' = <<args.smode>>
    <3>1. Tail(<<"finished">>) = <<>> /\ Tail(<<"finished", args.smode>>) = <<args.smode>>
      OBVIOUS
    <3> QED
      BY <2>1, <2>2, <3>1
  <2> QED
    BY <2>1, <2>2, <2>3
<1>16. CASE ReadClientHello
  <2>1. /\ rpc = "hello" /\ toRecv # <<>> /\ Head(toRecv) = "clienthello"
        /\ toRecv' = Tail(toRecv) /\ rpc' \in {"failed", "stuck"}
        /\ UNCHANGED <<args, spc, conn, toSend>>
    BY <1>16 DEF ReadClientHello
  <2>2. args.smode # "clienthello" /\ conn
    BY <1>0, <2>1 DEF TypeOK, Args, ConnInv
  <2> QED
    BY <2>1, <2>2
<1>17. CASE ReadHello
  <2>1. /\ rpc = "hello" /\ toRecv # <<>> /\ Head(toRecv) \in Hellos
        /\ toRecv' = Tail(toRecv) /\ rpc' \in {"failed", "helloack"}
        /\ rpc' = "helloack" => toSend' = toSend
        /\ UNCHANGED <<args, spc, conn>>
    BY <1>17 DEF ReadHello
  <2>2. conn /\ "clienthello" \notin Hellos
    BY <1>0, <2>1 DEF ConnInv, Hellos
  <2>3. SenderUp => spc = "helloack" /\ toRecv = <<args.smode>> /\ toSend = <<>>
    <3>1. SenderUp => \/ toRecv = <<"clienthello">>
                      \/ spc = "helloack" /\ toRecv = <<args.smode>> /\ toSend = <<>>
      BY <2>1, <2>2
    <3>2. toRecv # <<"clienthello">>
      BY <2>1, <2>2
    <3> QED
      BY <3>1, <3>2
  <2>4. SenderUp => toRecv' = <<>>
    BY <2>1, <2>3
  <2> QED
    BY <2>1, <2>2, <2>3, <2>4
<1>18. CASE WriteHelloAck
  BY <1>0, <1>18 DEF WriteHelloAck, ConnInv
<1>19. CASE ReadManifest
  BY <1>0, <1>19 DEF ReadManifest, ConnInv
<1>20. CASE WriteManifestAck
  BY <1>0, <1>20 DEF WriteManifestAck, ConnInv
<1>21. CASE ReceiverBindFails \/ CreateFails
  BY <1>0, <1>21 DEF ReceiverBindFails, CreateFails, ConnInv
<1>22. CASE ReceiverPeerGone \/ ReceiverStartFails \/ ReceiverCrash
  BY <1>22 DEF ReceiverPeerGone, ReceiverStartFails, ReceiverCrash
<1>23. CASE Keepalive \/ KeepaliveBreaks \/ Deliver \/ Lose \/ StrayArrives \/ UNCHANGED vars
  <2>1. UNCHANGED <<args, spc, rpc, conn, toRecv, toSend>>
    BY <1>23 DEF Keepalive, KeepaliveBreaks, Deliver, Lose, StrayArrives, vars
  <2> QED
    BY <2>1
<1> QED
  BY <1>1, <1>2, <1>3, <1>4, <1>5, <1>6, <1>7, <1>8, <1>9, <1>10, <1>11, <1>12, <1>13,
     <1>14, <1>15, <1>16, <1>17, <1>18, <1>19, <1>20, <1>21, <1>22, <1>23
     DEF Next, SenderNext, ReceiverNext, FaultNext

(* Every step leaves the receiver frames it can place. *)
LEMMA NextRecv == IInv /\ LinkInv /\ LinkInv' /\ RecvInv /\ [Next]_vars => RecvInv'
<1> SUFFICES ASSUME IInv, LinkInv, LinkInv', RecvInv, [Next]_vars PROVE RecvInv'
  OBVIOUS
<1>0. ConnInv /\ TypeOK /\ TypeOK'
  BY NextType DEF IInv
<1>1. CASE conn' /\ SenderUp' /\ ReceiverUp'
  BY <1>1 DEF LinkInv, RecvInv, Phase, Early
<1>2. CASE ~conn'
  BY <1>2 DEF LinkInv, RecvInv
<1>3. CASE ~ReceiverUp'
  BY <1>3 DEF RecvInv, ReceiverUp, ReceiverSteps, Early
<1>4. CASE ~SenderUp' /\ UNCHANGED <<args, rpc, toRecv>>
  BY <1>4 DEF RecvInv, Early
<1>5. ASSUME ~SenderUp', UNCHANGED <<args, spc>>, toRecv # <<>>, toRecv' = Tail(toRecv), conn, conn',
             \/ rpc = "finished" /\ rpc' = "hello"
             \/ rpc \in {"tls", "hello"} /\ rpc' \in {"finished", "stuck", "helloack"}
             \/ rpc = "manifest" /\ rpc' = "manifestack"
      PROVE  RecvInv'
  <2>1. CASE rpc = "finished"
    <3>1. toRecv = <<"finished">> \/ toRecv = <<"finished", args.smode>>
      BY <1>5, <2>1 DEF RecvInv
    <3>2. Tail(<<"finished">>) = <<>> /\ Tail(<<"finished", args.smode>>) = <<args.smode>>
      BY ShortQueues
    <3>3. toRecv' \in {<<>>, <<args.smode>>}
      BY <1>5, <3>1, <3>2
    <3> QED
      BY <1>5, <2>1, <3>3 DEF RecvInv, Early
  <2>2. CASE rpc # "finished"
    <3>1. \E x : toRecv = <<x>>
      BY <1>5, <2>2 DEF RecvInv, Early
    <3>2. toRecv' = <<>>
      BY <1>5, <3>1, ShortQueues
    <3> QED
      BY <1>5, <2>2, <3>2 DEF RecvInv, Early
  <2> QED
    BY <2>1, <2>2
<1>6. CASE ~SenderUp' /\ conn' /\ ReceiverUp'
  <2> USE <1>4, <1>5, <1>6 DEF sender, receiver, control, SenderUp, ReceiverUp,
             SenderSteps, ReceiverSteps
  <2>1. CASE SenderDials \/ SenderListens \/ SenderAccepts \/ ReadHelloAck \/ ReadManifestAck
    BY <2>1 DEF SenderDials, SenderListens, SenderAccepts, ReadHelloAck, ReadManifestAck
  <2>2. CASE SenderTls \/ VerifyServerCert
    BY <2>2 DEF SenderTls, VerifyServerCert
  <2>3. CASE WriteHello \/ WriteManifest
    BY <2>3 DEF WriteHello, WriteManifest
  <2>4. CASE \/ SenderPeerGone \/ AcceptTimesOut \/ SenderBindFails \/ ReadFlowFails
             \/ SenderCrash \/ ReadFlow
    BY <2>4 DEF SenderPeerGone, AcceptTimesOut, SenderBindFails, ReadFlowFails,
         SenderCrash, ReadFlow
  <2>5. CASE ReceiverListens \/ ReceiverAccepts \/ ReceiverDials \/ ReceiverPlain
    BY <1>0, <2>5 DEF ReceiverListens, ReceiverAccepts, ReceiverDials, ReceiverPlain,
         ConnInv, RecvInv, Early
  <2>6. CASE ReceiverTls
    BY <1>0, <2>6 DEF ReceiverTls, ConnInv
  <2>7. CASE ReceiverFinished
    BY <1>0, <2>7 DEF ReceiverFinished, ConnInv
  <2>8. CASE ReadClientHello
    BY <1>0, <2>8 DEF ReadClientHello, ConnInv
  <2>9. CASE ReadHello
    BY <1>0, <2>9 DEF ReadHello, ConnInv
  <2>10. CASE ReadManifest
    BY <1>0, <2>10 DEF ReadManifest, ConnInv
  <2>11. CASE WriteHelloAck \/ WriteManifestAck
    BY <2>11 DEF WriteHelloAck, WriteManifestAck, RecvInv, Early
  <2>12. CASE \/ ReceiverBindFails \/ CreateFails \/ ReceiverPeerGone
              \/ ReceiverStartFails \/ ReceiverCrash
    BY <2>12 DEF ReceiverBindFails, CreateFails, ReceiverPeerGone, ReceiverStartFails,
         ReceiverCrash
  <2>13. CASE Keepalive \/ KeepaliveBreaks \/ Deliver \/ Lose \/ StrayArrives \/ UNCHANGED vars
    BY <2>13 DEF Keepalive, KeepaliveBreaks, Deliver, Lose, StrayArrives, vars
  <2> QED
    BY <2>1, <2>2, <2>3, <2>4, <2>5, <2>6, <2>7, <2>8, <2>9, <2>10, <2>11, <2>12, <2>13
       DEF Next, SenderNext, ReceiverNext, FaultNext
<1> QED
  BY <1>0, <1>1, <1>2, <1>3, <1>6

(* The two sides stay in lock step for the whole handshake. *)
THEOREM RendezvousLockStep == Spec => [](LinkInv /\ RecvInv)
<1>1. Init => LinkInv /\ RecvInv
  BY DEF Init, LinkInv, RecvInv, Early
<1>2. IInv /\ LinkInv /\ RecvInv /\ [Next]_vars => (LinkInv /\ RecvInv)'
  BY NextLink, NextRecv
<1> QED
  BY <1>1, <1>2, RendezvousInvariant, PTL DEF Spec

(* Every frame is read where it belongs: what the receiver takes for a     *)
(* manifest is one, also after its sender has ended, and a sender never    *)
(* gives up on an unexpected frame while its receiver is running.          *)
FramesExpected ==
  /\ rpc = "manifest" /\ toRecv # <<>> => Head(toRecv) = "manifest"
  /\ ReceiverUp /\ toSend # <<>> =>
       /\ spc = "servercert"  => Head(toSend) = "servercert"
       /\ spc = "helloack"    => Head(toSend) \in HelloAcks
       /\ spc = "manifestack" => Head(toSend) = "manifestack"

(* run and transfer (send.rs) and handle_transfer read the frames in the   *)
(* order they are written, for every pair of command lines.                *)
THEOREM RendezvousFramesExpected == Spec => []FramesExpected
<1>1. ASSUME IInv, LinkInv, RecvInv
      PROVE  FramesExpected
  <2>1. rpc = "manifest" /\ toRecv # <<>> => Head(toRecv) = "manifest"
    BY <1>1, ShortQueues DEF RecvInv
  <2>2. ASSUME ReceiverUp, toSend # <<>>, spc \in {"servercert", "helloack", "manifestack"}
        PROVE  /\ spc = "servercert"  => Head(toSend) = "servercert"
               /\ spc = "helloack"    => Head(toSend) \in HelloAcks
               /\ spc = "manifestack" => Head(toSend) = "manifestack"
    <3>1. conn /\ SenderUp
      BY <1>1, <2>2 DEF IInv, ConnInv, SenderUp, SenderSteps
    <3> QED
      BY <1>1, <2>2, <3>1, ShortQueues DEF LinkInv, Phase
  <2> QED
    BY <2>1, <2>2 DEF FramesExpected
<1> QED
  BY <1>1, RendezvousInvariant, RendezvousLockStep, PTL

(* The sender's next step does not wait for anyone: it writes or dials,    *)
(* what it reads is there, or its peer has closed the connection.          *)
SenderCanMove ==
  \/ spc \in {"start", "tls", "hello", "manifest"}
  \/ spc = "listening" /\ conn
  \/ /\ spc \in {"servercert", "helloack", "manifestack"}
     /\ toSend # <<>> \/ (conn /\ ~ReceiverUp)

(* The same for the receiver, whose read_frame takes a Hello or, for want  *)
(* of encryption, a ClientHello.                                           *)
ReceiverCanMove ==
  \/ rpc \in {"start", "helloack", "manifestack"}
  \/ rpc = "listening" /\ conn
  \/ rpc = "tls" /\ ~args.identity
  \/ rpc \in {"tls", "finished", "manifest"} /\ toRecv # <<>>
  \/ rpc = "hello" /\ toRecv # <<>> /\ Head(toRecv) \in Hellos \cup {"clienthello"}
  \/ rpc \in {"tls", "finished", "hello", "stuck", "manifest"} /\ conn /\ ~SenderUp

(* A sender that waits for the flow has a datagram to read, or one is on   *)
(* its way or can be sent, or its timeout can fire.                        *)
FlowCanMove ==
  /\ spc = "acceptflow"
  /\ \/ inbox # <<>> \/ flight > 0 \/ NoMoreOpens
     \/ keepalive = "running" /\ ReceiverUp /\ flight + Len(inbox) < MaxFlight

(* The handshake has no deadlock but the two AtRest names (a listener no   *)
(* one dials; a sender with a pin at a receiver with --nocrypto): in every *)
(* other state some side can move on, whatever the command lines were and  *)
(* wherever a side crashed.                                                *)
NobodyStranded == AtRest \/ SenderCanMove \/ ReceiverCanMove \/ FlowCanMove

(* The handshake of transfer and handle_transfer does not deadlock: the    *)
(* lock step leaves a frame wherever both sides read.                      *)
THEOREM RendezvousNobodyStranded == Spec => []NobodyStranded
<1>1. ASSUME IInv, LinkInv, RecvInv
      PROVE  NobodyStranded
  <2>1. TypeOK /\ ConnInv
    BY <1>1 DEF IInv
  <2> USE DEF SenderUp, ReceiverUp, SenderSteps, ReceiverSteps, SenderEnds, ReceiverEnds
  <2>2. CASE ~SenderUp
    BY <2>1, <2>2 DEF TypeOK, ConnInv, NobodyStranded, AtRest, ReceiverCanMove
  <2>3. CASE SenderUp /\ ~ReceiverUp /\ spc # "acceptflow"
    BY <2>1, <2>3 DEF TypeOK, ConnInv, NobodyStranded, AtRest, SenderCanMove
  <2>4. CASE SenderUp /\ ReceiverUp /\ ~conn
    BY <2>1, <2>4 DEF ConnInv, NobodyStranded, AtRest, SenderCanMove, ReceiverCanMove
  <2>5. CASE spc = "acceptflow"
    <3>1. CASE inbox = <<>> /\ flight = 0
      <4>1. flight + Len(inbox) < MaxFlight
        BY <3>1, RendezvousAssumption
      <4> QED
        BY <2>5, <3>1, <4>1 DEF NobodyStranded, FlowCanMove, NoMoreOpens
    <3>2. CASE flight # 0
      BY <2>1, <2>5, <3>2 DEF TypeOK, NobodyStranded, FlowCanMove
    <3> QED
      BY <2>5, <3>1, <3>2 DEF NobodyStranded, FlowCanMove
  <2>6. CASE SenderUp /\ ReceiverUp /\ conn
    <3>1. \A x : <<x>> # <<>> /\ Head(<<x>>) = x
      BY ShortQueues
    <3>2. args.smode \in Hellos
      BY <2>1 DEF TypeOK, Args, Hellos
    <3>3. CASE spc \in {"listening", "tls", "hello", "manifest"}
      BY <2>6, <3>3 DEF NobodyStranded, SenderCanMove
    <3>4. CASE spc = "servercert"
      BY <1>1, <2>6, <3>1, <3>4 DEF LinkInv, Phase, Early, NobodyStranded, AtRest,
         SenderCanMove, ReceiverCanMove
    <3>5. CASE spc = "helloack"
      BY <1>1, <2>6, <3>1, <3>2, <3>5, ShortQueues DEF LinkInv, Phase, Early, NobodyStranded,
         SenderCanMove, ReceiverCanMove
    <3>6. CASE spc \in {"manifestack", "spraying"}
      BY <1>1, <2>6, <3>1, <3>6 DEF LinkInv, Phase, Early, NobodyStranded, AtRest,
         SenderCanMove, ReceiverCanMove
    <3>7. spc # "start"
      BY <2>1, <2>6 DEF ConnInv
    <3> QED
      BY <2>5, <2>6, <3>3, <3>4, <3>5, <3>6, <3>7
  <2> QED
    BY <2>2, <2>3, <2>4, <2>5, <2>6
<1> QED
  BY <1>1, RendezvousInvariant, RendezvousLockStep, PTL

=============================================================================
