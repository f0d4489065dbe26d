-------------------------- MODULE XHandshakeProofs --------------------------
(***************************************************************************)
(* Proofs about XHandshake, for every client, every list of shortIDs and   *)
(* every TimeSkew.                                                         *)
(***************************************************************************)
EXTENDS XHandshake, SequenceTheorems, TLAPS

Flight(whom) == [kind |-> "flight", ekm |-> whom]
Finished == [kind |-> "finished"]
HelloMsg == [kind |-> "hello", sid |-> SealAuth(ClientKey, Random, conf.shortID, sealed)]

\* handle has written its proof, or has ended.
Past == {"proof", "accepted", "closed"}

\* What may be on its way: to the server its client's hello, and the client's proof
\* only after Client has returned; to the client no proof but the server's, under
\* the key handle works with and only after handle has written it.
ClientMsgs ==
  {HelloMsg, Finished}
    \cup (IF cli = "returned" THEN {Proof(ClientKey, "client", ekm)} ELSE {})
ServerMsgs ==
  {Flight("server"), Flight("stranger"), [kind |-> "data"]}
    \cup (IF srv \in Past THEN {Proof(authKey, "server", "server")} ELSE {})

TypeOK ==
  /\ conf \in Confs
  /\ now \in Nat
  /\ cli \in {"start", "shake", "proof", "returned", "failed"}
  /\ srv \in {"peek", "shake", "pass"} \cup Past
  /\ sealed \in Int
  /\ judged \in Int
  /\ toS \in Seq(ClientMsgs)
  /\ toC \in Seq(ServerMsgs)

\* Nothing was sent before Client has started.
StartInv == cli = "start" => toS = <<>> /\ judged = -1

\* While handle peeks the client waits, with nothing but its hello sent.
PeekInv ==
  conf.direct /\ srv = "peek" =>
    /\ toC = <<>>
    /\ cli \in {"start", "shake", "failed"}
    /\ toS = <<>> \/ toS = <<HelloMsg>>

ReturnedInv == cli = "returned" => srv \in Past /\ authKey = ClientKey /\ ekm = "server"

AcceptedInv == srv = "accepted" => cli = "returned"

\* The verdict of handle on the hello at time t.
Verdict(t) ==
  LET info == Parsed[conf] IN
  /\ info.ok /\ info.x25519 # <<>> /\ info.sid = Sid
  /\ ServerAuthenticate(info, SealAuth(ClientKey, Random, conf.shortID, sealed), t)

\* There is a key iff the verdict was good at the time it was given.
JudgedInv ==
  /\ srv = "peek" => judged = -1
  /\ judged = -1 => authKey = None
  /\ judged # -1 => (authKey # None <=> Verdict(judged))

\* A hello is only sent by a client with a key share and a shortID that fits, and
\* only judged when it has reached the server.
FitInv ==
  /\ cli \in {"shake", "proof", "returned"} \/ toS # <<>> \/ judged # -1 =>
       HasX25519Share(conf) /\ Len(conf.shortID) <= ShortIDLen
  /\ judged # -1 => conf.direct

IInv == TypeOK /\ StartInv /\ PeekInv /\ ReturnedInv /\ AcceptedInv /\ JudgedInv /\ FitInv
-----------------------------------------------------------------------------
\* The initial state satisfies the inductive invariant.
LEMMA InitIInv == Init => IInv
<1>. SUFFICES ASSUME Init PROVE IInv
  OBVIOUS
<1>1. TypeOK
  <2>1. toS \in Seq(ClientMsgs) /\ toC \in Seq(ServerMsgs)
    BY EmptySeq DEF Init
  <2>. QED
    BY <2>1 DEF Init, TypeOK
<1>. QED
  BY <1>1 DEF Init, IInv, StartInv, PeekInv, ReturnedInv, AcceptedInv, JudgedInv, FitInv, Past

\* A key is never None.
LEMMA KeyIsNotNone ==
  ASSUME NEW e, NEW s, NEW r
  PROVE  DeriveAuthKey(e, s, r) # None
<1>1. "kind" \in DOMAIN None
  BY DEF None
<1>2. "kind" \notin DOMAIN DeriveAuthKey(e, s, r)
  BY DEF DeriveAuthKey
<1>. QED
  BY <1>1, <1>2

\* A write appends to the queue or is lost.
LEMMA SentSeq ==
  ASSUME NEW S, NEW q \in Seq(S), NEW m \in S
  PROVE  Sent(q, m) \in Seq(S)
BY DEF Sent

\* Neither does the set of messages that may be on their way shrink, nor the rest
\* of a queue leave it.
LEMMA TailSeq ==
  ASSUME NEW S, NEW q \in Seq(S), q # <<>>
  PROVE  Head(q) \in S /\ Tail(q) \in Seq(S)
BY HeadTailProperties
-----------------------------------------------------------------------------
\* Client builds its hello and sends it, or gives up.
LEMMA ClientStartsStep ==
  ASSUME IInv, ClientStarts
  PROVE  IInv'
<1>. USE DEF sVars
<1>1. /\ cli = "start" /\ toS = <<>> /\ judged = -1
      /\ UNCHANGED <<conf, now, toC, srv, sArmed, sOpen, judged, authKey, hurt, ekm>>
      /\ cli' \in {"shake", "failed"} /\ sealed' \in Int
      /\ toS' = <<>> \/ toS' = <<HelloMsg'>>
      /\ \/ HasX25519Share(conf) /\ Len(conf.shortID) <= ShortIDLen
         \/ cli' = "failed" /\ toS' = <<>>
  <2>1. cli = "start" /\ toS = <<>> /\ judged = -1
    BY DEF IInv, StartInv, ClientStarts
  <2>2. CASE HasX25519Share(conf) /\ Len(conf.shortID) <= ShortIDLen
    <3>1. /\ cli' = "shake" /\ sealed' = now + conf.ahead
          /\ SendS([kind |-> "hello",
                sid |-> SealAuth(ClientKey, Random, conf.shortID, now + conf.ahead)])
          /\ UNCHANGED <<conf, now, toC, srv, sArmed, sOpen, judged, authKey, hurt, ekm>>
      BY <2>2 DEF ClientStarts
    <3>2. HelloMsg' = [kind |-> "hello",
                sid |-> SealAuth(ClientKey, Random, conf.shortID, now + conf.ahead)]
      BY <3>1 DEF HelloMsg, ClientKey
    <3>3. toS' = <<>> \/ toS' = <<HelloMsg'>>
      BY <2>1, <3>1, <3>2 DEF SendS, Sent
    <3>4. sealed' \in Int
      BY <3>1, XHandshakeAssumption DEF IInv, TypeOK
    <3>. QED
      BY <2>1, <2>2, <3>1, <3>3, <3>4
  <2>3. CASE ~(HasX25519Share(conf) /\ Len(conf.shortID) <= ShortIDLen)
    BY <2>1, <2>3 DEF ClientStarts, ClientGivesUp, IInv, TypeOK
  <2>. QED
    BY <2>2, <2>3
<1>2. ServerMsgs' = ServerMsgs
  BY <1>1 DEF ServerMsgs
<1>3. toS' \in Seq(ClientMsgs')
  <2>1. HelloMsg' \in ClientMsgs'
    BY DEF ClientMsgs
  <2>2. <<>> \in Seq(ClientMsgs') /\ <<HelloMsg'>> \in Seq(ClientMsgs')
    <3>. HIDE DEF HelloMsg
    <3>. QED
      BY <2>1
  <2>. QED
    BY <1>1, <2>2, Zenon
<1>4. TypeOK'
  BY <1>1, <1>2, <1>3 DEF IInv, TypeOK, Past
<1>5. StartInv' /\ PeekInv'
  BY <1>1 DEF IInv, StartInv, PeekInv
<1>6. ReturnedInv' /\ AcceptedInv'
  BY <1>1 DEF IInv, ReturnedInv, AcceptedInv
<1>7. JudgedInv'
  BY <1>1 DEF IInv, JudgedInv
<1>8. FitInv'
  <2>1. HasX25519Share(conf)' <=> HasX25519Share(conf)
    BY <1>1 DEF HasX25519Share
  <2>. QED
    BY <1>1, <2>1 DEF FitInv
<1>. QED
  BY <1>4, <1>5, <1>6, <1>7, <1>8 DEF IInv

\* u.Handshake() completes; while handle peeks nothing has come to complete it.
LEMMA ClientShakesStep ==
  ASSUME IInv, ClientShakes
  PROVE  IInv'
<1>. USE DEF sVars
<1>1. /\ cli = "shake" /\ cli' = "proof" /\ toC # <<>> /\ toC' = Tail(toC)
      /\ toS' = Sent(toS, Finished)
      /\ UNCHANGED <<conf, now, sealed, srv, judged, authKey>>
  BY DEF ClientShakes, SendS, Finished
<1>2. ServerMsgs' = ServerMsgs /\ ClientMsgs' = ClientMsgs
  BY <1>1 DEF ServerMsgs, ClientMsgs, HelloMsg, ClientKey
<1>3. toS' \in Seq(ClientMsgs)
  <2>1. Finished \in ClientMsgs
    BY DEF ClientMsgs
  <2>. QED
    BY <1>1, <2>1, SentSeq DEF IInv, TypeOK
<1>4. toC' \in Seq(ServerMsgs)
  BY <1>1, TailSeq DEF IInv, TypeOK
<1>5. TypeOK'
  BY <1>1, <1>2, <1>3, <1>4 DEF IInv, TypeOK
<1>6. StartInv' /\ PeekInv'
  BY <1>1 DEF IInv, StartInv, PeekInv
<1>7. ReturnedInv' /\ AcceptedInv'
  BY <1>1 DEF IInv, ReturnedInv, AcceptedInv
<1>8. JudgedInv'
  BY <1>1 DEF IInv, JudgedInv, Verdict, ClientKey
<1>9. FitInv'
  BY <1>1 DEF IInv, FitInv, HasX25519Share
<1>. QED
  BY <1>5, <1>6, <1>7, <1>8, <1>9 DEF IInv

\* A client that gives up has not returned.
LEMMA GivesUpStep ==
  ASSUME IInv, ClientGivesUp, cli \in Waiting,
         UNCHANGED <<conf, now, toS, sVars>>,
         toC' = toC \/ (toC # <<>> /\ toC' = Tail(toC))
  PROVE  IInv'
<1>. USE DEF sVars
<1>1. /\ cli \in {"shake", "proof"} /\ cli' = "failed"
      /\ UNCHANGED <<conf, now, toS, sealed, ekm, srv, judged, authKey>>
  BY DEF ClientGivesUp, Waiting
<1>2. ServerMsgs' = ServerMsgs /\ ClientMsgs' = ClientMsgs
  BY <1>1 DEF ServerMsgs, ClientMsgs, HelloMsg, ClientKey
<1>3. toC' \in Seq(ServerMsgs)
  BY TailSeq DEF IInv, TypeOK
<1>4. TypeOK'
  BY <1>1, <1>2, <1>3 DEF IInv, TypeOK
<1>5. StartInv' /\ PeekInv'
  BY <1>1 DEF IInv, StartInv, PeekInv, HelloMsg, ClientKey
<1>6. ReturnedInv' /\ AcceptedInv'
  BY <1>1 DEF IInv, ReturnedInv, AcceptedInv
<1>7. JudgedInv'
  BY <1>1 DEF IInv, JudgedInv, Verdict, ClientKey
<1>8. FitInv'
  BY <1>1 DEF IInv, FitInv, HasX25519Share
<1>. QED
  BY <1>4, <1>5, <1>6, <1>7, <1>8 DEF IInv

\* The proof Client accepts is the one handle wrote, under the client's own key and
\* on the channel Client has.
LEMMA ClientVerifiesStep ==
  ASSUME IInv, ClientVerifies
  PROVE  IInv'
<1>. USE DEF sVars
<1>1. cli = "proof" /\ toC # <<>> /\ toC' = Tail(toC) /\ UNCHANGED <<conf, now, sVars>>
  BY DEF ClientVerifies
<1>2. CASE ClientGivesUp /\ UNCHANGED toS
  BY <1>1, <1>2, GivesUpStep DEF Waiting
<1>3. CASE ~(ClientGivesUp /\ UNCHANGED toS)
  <2>1. /\ Equal(Head(toC), Proof(ClientKey, "server", ekm))
        /\ cli' = "returned" /\ toS' = Sent(toS, Proof(ClientKey, "client", ekm))
        /\ UNCHANGED <<ekm, sealed>>
    BY <1>3 DEF ClientVerifies, SendS
  <2>2. Head(toC) \in ServerMsgs /\ toC' \in Seq(ServerMsgs)
    BY <1>1, TailSeq DEF IInv, TypeOK
  <2>3. Head(toC) = Proof(ClientKey, "server", ekm)
    BY <2>1 DEF Equal
  <2>4. Head(toC).kind = "proof"
    BY <2>3 DEF Proof
  <2>5. srv \in Past /\ Head(toC) = Proof(authKey, "server", "server")
    BY <2>2, <2>4 DEF ServerMsgs, Flight
  <2>6. authKey = ClientKey /\ ekm = "server"
    <3>1. /\ Proof(ClientKey, "server", ekm).key = ClientKey
          /\ Proof(ClientKey, "server", ekm).ekm = ekm
          /\ Proof(authKey, "server", "server").key = authKey
          /\ Proof(authKey, "server", "server").ekm = "server"
      BY DEF Proof
    <3>. QED
      BY <2>3, <2>5, <3>1
  <2>7. ServerMsgs' = ServerMsgs
    BY <1>1 DEF ServerMsgs
  <2>8. toS' \in Seq(ClientMsgs')
    <3>1. ClientMsgs \subseteq ClientMsgs' /\ Proof(ClientKey, "client", ekm) \in ClientMsgs'
      BY <1>1, <2>1 DEF ClientMsgs, HelloMsg, ClientKey
    <3>2. toS \in Seq(ClientMsgs')
      BY <3>1, SeqMonotonic DEF IInv, TypeOK
    <3>. QED
      BY <2>1, <3>1, <3>2, SentSeq
  <2>9. TypeOK'
    BY <1>1, <2>1, <2>2, <2>7, <2>8 DEF IInv, TypeOK
  <2>10. StartInv' /\ PeekInv'
    BY <1>1, <2>1, <2>5 DEF IInv, StartInv, PeekInv, Past
  <2>11. ReturnedInv' /\ AcceptedInv'
    BY <1>1, <2>1, <2>5, <2>6 DEF IInv, ReturnedInv, AcceptedInv, ClientKey
  <2>12. JudgedInv'
    BY <1>1, <2>1 DEF IInv, JudgedInv, Verdict, ClientKey
  <2>13. FitInv'
    BY <1>1, <2>1 DEF IInv, FitInv, HasX25519Share
  <2>. QED
    BY <2>9, <2>10, <2>11, <2>12, <2>13 DEF IInv
<1>. QED
  BY <1>2, <1>3

\* What Authenticate reads is the hello of this client, and the only message there
\* is.
LEMMA AuthenticateStep ==
  ASSUME IInv, Authenticate
  PROVE  IInv'
<1>. USE DEF cVars
<1>1. /\ srv = "peek" /\ conf.direct /\ toS = <<HelloMsg>> /\ toC = <<>>
      /\ cli \in {"shake", "failed"} /\ authKey = None
      /\ toS' = Tail(toS) /\ judged' = now
      /\ UNCHANGED <<conf, now, cli, ekm, sealed>>
  BY DEF Authenticate, IInv, TypeOK, StartInv, PeekInv, JudgedInv
<1>2. toS' = <<>> /\ Head(toS).sid = SealAuth(ClientKey, Random, conf.shortID, sealed)
  BY <1>1 DEF HelloMsg
<1>3. IF Verdict(now)
      THEN /\ srv' = "shake"
           /\ authKey' = DeriveAuthKey(Parsed[conf].x25519, "server", Parsed[conf].random)
           /\ toC' = Sent(toC, Flight("server"))
      ELSE srv' \in {"pass", "closed"} /\ authKey' = authKey /\ toC' = toC
  BY <1>2 DEF Authenticate, Passthrough, Verdict, SendC, Flight
<1>4. toC' \in Seq(ServerMsgs')
  <2>1. Flight("server") \in ServerMsgs' /\ <<>> \in Seq(ServerMsgs')
    BY EmptySeq DEF ServerMsgs
  <2>. QED
    BY <1>1, <1>3, <2>1, SentSeq
<1>5. TypeOK'
  <2>1. toS' \in Seq(ClientMsgs') /\ srv' \in {"shake", "pass", "closed"}
    BY <1>2, <1>3, EmptySeq
  <2>. QED
    BY <1>1, <1>4, <2>1 DEF IInv, TypeOK, Past
<1>6. StartInv' /\ PeekInv'
  BY <1>1, <1>2, <1>3 DEF StartInv, PeekInv
<1>7. ReturnedInv' /\ AcceptedInv'
  BY <1>1, <1>3 DEF ReturnedInv, AcceptedInv
<1>8. JudgedInv'
  <2>1. Verdict(now) <=> Verdict(now)'
    BY <1>1 DEF Verdict, ClientKey
  <2>2. authKey' # None <=> Verdict(now)
    BY <1>1, <1>3, KeyIsNotNone
  <2>3. judged' = now' /\ srv' # "peek"
    BY <1>1, <1>3
  <2>. QED
    BY <1>1, <2>1, <2>2, <2>3 DEF JudgedInv, IInv, TypeOK
<1>9. FitInv'
  <2>1. HasX25519Share(conf) /\ Len(conf.shortID) <= ShortIDLen
    BY <1>1 DEF IInv, FitInv
  <2>. QED
    BY <1>1, <2>1 DEF FitInv, HasX25519Share
<1>. QED
  BY <1>5, <1>6, <1>7, <1>8, <1>9 DEF IInv

\* The other steps of handle keep its key, and a proof that was written stays
\* written.
LEMMA ServerMoves ==
  ASSUME IInv,
         UNCHANGED <<conf, now, cli, ekm, sealed, judged, authKey>>,
         srv' \in {"pass", "proof", "accepted", "closed"},
         srv \in Past => srv' \in Past,
         toS' = toS \/ (toS # <<>> /\ toS' = Tail(toS)),
         toC' \in Seq(ServerMsgs'),
         AcceptedInv'
  PROVE  IInv'
<1>1. ClientMsgs' = ClientMsgs
  BY DEF ClientMsgs, HelloMsg, ClientKey
<1>2. toS' \in Seq(ClientMsgs)
  BY TailSeq DEF IInv, TypeOK
<1>3. TypeOK'
  BY <1>1, <1>2 DEF IInv, TypeOK, Past
<1>4. StartInv' /\ PeekInv'
  BY DEF IInv, StartInv, PeekInv
<1>5. ReturnedInv'
  BY DEF IInv, ReturnedInv, ClientKey
<1>6. JudgedInv'
  BY DEF IInv, JudgedInv, Verdict, ClientKey
<1>7. FitInv'
  BY DEF IInv, FitInv, HasX25519Share
<1>. QED
  BY <1>3, <1>4, <1>5, <1>6, <1>7 DEF IInv

\* When nothing but the stage of handle changes, what is on its way to the client
\* still may be.
LEMMA ServerMsgsGrow ==
  ASSUME IInv, authKey' = authKey, srv \in Past => srv' \in Past
  PROVE  toC \in Seq(ServerMsgs')
<1>1. ServerMsgs \subseteq ServerMsgs'
  BY DEF ServerMsgs
<1>. QED
  BY <1>1, SeqMonotonic DEF IInv, TypeOK

\* The steps of handle after the peek, its timeout, and the end of the splice.
LEMMA HandleStep ==
  ASSUME IInv, ServerShakes \/ ServerVerifies \/ ServerEnds \/ ServerTimesOut \/ SiteEnds
  PROVE  IInv'
<1>. USE DEF cVars
<1>1. CASE ServerShakes
  <2>1. /\ srv = "shake" /\ srv' = "proof" /\ toS # <<>> /\ toS' = Tail(toS)
        /\ toC' = Sent(toC, Proof(authKey, "server", "server"))
        /\ UNCHANGED <<conf, now, cli, ekm, sealed, judged, authKey>>
    BY <1>1 DEF ServerShakes, SendC
  <2>2. srv' \in Past /\ Proof(authKey, "server", "server") \in ServerMsgs'
    BY <2>1 DEF ServerMsgs, Past
  <2>3. toC' \in Seq(ServerMsgs')
    BY <2>1, <2>2, ServerMsgsGrow, SentSeq
  <2>. QED
    BY <2>1, <2>2, <2>3, ServerMoves DEF AcceptedInv
<1>2. CASE ServerVerifies
  <2>1. /\ srv = "proof" /\ toS # <<>> /\ toS' = Tail(toS)
        /\ UNCHANGED <<conf, now, toC, cli, ekm, sealed, judged, authKey>>
        /\ srv' = IF Equal(Head(toS), Proof(authKey, "client", "server"))
                  THEN "accepted" ELSE "closed"
    BY <1>2 DEF ServerVerifies
  <2>2. AcceptedInv'
    <3>. SUFFICES ASSUME Equal(Head(toS), Proof(authKey, "client", "server"))
                  PROVE  cli = "returned"
      BY <2>1 DEF AcceptedInv
    <3>1. Head(toS) \in ClientMsgs
      BY <2>1, TailSeq DEF IInv, TypeOK
    <3>2. Head(toS).kind = "proof"
      BY DEF Equal, Proof
    <3>. QED
      BY <3>1, <3>2 DEF ClientMsgs, HelloMsg, Finished
  <2>3. srv' \in Past
    BY <2>1 DEF Past
  <2>. QED
    BY <2>1, <2>2, <2>3, ServerMsgsGrow, ServerMoves DEF Past
<1>3. CASE ServerEnds \/ ServerTimesOut \/ SiteEnds
  <2>1. /\ UNCHANGED <<conf, now, toS, toC, cli, ekm, sealed, judged, authKey>>
        /\ srv' \in {"pass", "closed"}
        /\ srv \in Past => srv' \in Past
    BY <1>3 DEF ServerEnds, ServerTimesOut, SiteEnds, Passthrough, Past
  <2>2. AcceptedInv'
    BY <2>1 DEF AcceptedInv
  <2>. QED
    BY <2>1, <2>2, ServerMsgsGrow, ServerMoves
<1>. QED
  BY <1>1, <1>2, <1>3

\* Neither a stranger nor the carrier can add a proof.
LEMMA WorldStep ==
  ASSUME IInv, StrangerAnswers \/ Cut \/ Tick \/ UNCHANGED vars
  PROVE  IInv'
<1>. USE DEF cVars, sVars
<1>1. /\ UNCHANGED <<conf, cli, ekm, sealed, srv, judged, authKey>>
      /\ now' \in Nat
  BY DEF StrangerAnswers, Cut, Tick, vars, IInv, TypeOK
<1>2. ClientMsgs' = ClientMsgs /\ ServerMsgs' = ServerMsgs /\ HelloMsg' = HelloMsg
  BY <1>1 DEF ClientMsgs, ServerMsgs, HelloMsg, ClientKey
<1>3. toS' = toS \/ toS' = <<>>
  BY DEF StrangerAnswers, Cut, Tick, vars
<1>4. toC' = toC \/ toC' = <<>> \/ (StrangerAnswers /\ toC' \in Seq(ServerMsgs))
  <2>1. CASE StrangerAnswers
    <3>. DEFINE f == Flight("stranger")
                d == [kind |-> "data"]
    <3>1. f \in ServerMsgs /\ d \in ServerMsgs
      BY DEF ServerMsgs
    <3>2. toC' = <<f>> \o <<>> \/ toC' = <<f>> \o <<d>>
      BY <2>1 DEF StrangerAnswers, Flight
    <3>. HIDE DEF f, d
    <3>3. <<f>> \in Seq(ServerMsgs) /\ <<d>> \in Seq(ServerMsgs) /\ <<>> \in Seq(ServerMsgs)
      BY <3>1
    <3>. QED
      BY <2>1, <3>2, <3>3, ConcatProperties
  <2>2. CASE ~StrangerAnswers
    BY <2>2 DEF Cut, Tick, vars
  <2>. QED
    BY <2>1, <2>2
<1>5. TypeOK'
  <2>1. toS' \in Seq(ClientMsgs) /\ toC' \in Seq(ServerMsgs)
    BY <1>3, <1>4, EmptySeq DEF IInv, TypeOK
  <2>. QED
    BY <1>1, <1>2, <2>1 DEF IInv, TypeOK
<1>6. StartInv'
  BY <1>1, <1>3 DEF IInv, StartInv
<1>7. PeekInv'
  BY <1>1, <1>2, <1>3, <1>4 DEF IInv, PeekInv, StrangerAnswers
<1>8. ReturnedInv' /\ AcceptedInv'
  BY <1>1 DEF IInv, ReturnedInv, AcceptedInv, ClientKey
<1>9. JudgedInv'
  BY <1>1 DEF IInv, JudgedInv, Verdict, ClientKey
<1>10. FitInv'
  BY <1>1, <1>3 DEF IInv, FitInv, HasX25519Share
<1>. QED
  BY <1>5, <1>6, <1>7, <1>8, <1>9, <1>10 DEF IInv

\* Every step of the handshake keeps the invariant.
LEMMA NextIInv == IInv /\ [Next]_vars => IInv'
<1>. SUFFICES ASSUME IInv, [Next]_vars PROVE IInv'
  OBVIOUS
<1>1. CASE ClientEnds \/ ClientTimesOut
  BY <1>1, GivesUpStep DEF ClientEnds, ClientTimesOut
<1>. QED
  BY <1>1, ClientStartsStep, ClientShakesStep, ClientVerifiesStep, AuthenticateStep, HandleStep,
     WorldStep DEF Next, Client, Handle

\* The inductive invariant holds in every reachable state.
LEMMA Invariance == Spec => []IInv
BY InitIInv, NextIInv, PTL DEF Spec
-----------------------------------------------------------------------------
\* handle answers a hello itself only for a client that holds its public key and one
\* of its shortIDs, whatever the parsers make of the hello.
THEOREM NobodyElse == Spec => []OnlyEntitled
<1>1. IInv => OnlyEntitled
  <2>. SUFFICES ASSUME IInv, authKey # None PROVE Entitled
    BY DEF OnlyEntitled
  <2>. DEFINE sid == SealAuth(ClientKey, Random, conf.shortID, sealed)
              info == Parsed[conf]
  <2>1. /\ conf.direct /\ HasX25519Share(conf) /\ Len(conf.shortID) <= ShortIDLen
        /\ Verdict(judged)
    BY DEF IInv, JudgedInv, FitInv
  <2>2. Opened(DeriveAuthKey(info.x25519, "server", info.random), info.random, sid)
    BY <2>1 DEF Verdict, ServerAuthenticate
  <2>3. ClientKey = DeriveAuthKey(info.x25519, "server", info.random)
    BY <2>2 DEF Opened, SealAuth
  <2>4. conf.pub = "server"
    <3>1. /\ ClientKey.static = conf.pub
          /\ DeriveAuthKey(info.x25519, "server", info.random).static = "server"
      BY DEF ClientKey, DeriveAuthKey
    <3>. QED
      BY <2>3, <3>1
  <2>5. AcceptShortID(sid.shortID) /\ sid.shortID = Padded(conf.shortID)
    BY <2>1 DEF Verdict, ServerAuthenticate, SealAuth
  <2>. QED
    BY <2>1, <2>4, <2>5 DEF Entitled, AcceptShortID
<1>. QED
  BY <1>1, Invariance, PTL

\* A tunnel Client returns is shared with a server that holds the client's key on
\* the client's channel, never with a stranger, and a tunnel handle offers is one
\* that Client has returned; nobody but an entitled client gets a key.
THEOREM BothAgree == Spec => []Agreement
<1>1. IInv /\ OnlyEntitled => Agreement
  BY DEF IInv, ReturnedInv, AcceptedInv, Agreement, Past
<1>. QED
  BY <1>1, Invariance, NobodyElse, PTL

\* Unix cuts off less than a second.
LEMMA UnixBounds ==
  ASSUME NEW t \in Int
  PROVE  Unix(t) \in Int /\ Unix(t) <= t /\ t < Unix(t) + Sec
<1>. DEFINE q == t \div Sec
<1>1. Sec \in Int /\ Sec > 0
  BY XHandshakeAssumption
<1>2. q \in Int /\ Sec * q <= t /\ t < Sec * q + Sec
  BY <1>1
<1>3. q * Sec = Sec * q
  BY <1>1, <1>2
<1>. QED
  BY <1>1, <1>2, <1>3 DEF Unix

\* Where the parsers return what the fingerprint holds, handle has a key for a
\* client with the right keys exactly if the client's clock, in whole seconds, is
\* within TimeSkew of the server's.
LEMMA VerdictIsTime ==
  ASSUME IInv, ParsedRight, Entitled, TimeSkew > 0, NEW t \in Int
  PROVE  Verdict(t) <=> Within(t - Unix(sealed))
<1>. DEFINE sid == SealAuth(ClientKey, Random, conf.shortID, sealed)
            info == Parsed[conf]
<1>1. /\ info.ok /\ info.random = Random /\ info.sid = Sid /\ info.x25519 = Eph
  BY DEF ParsedRight, Entitled, RightlyParsed, IInv, TypeOK
<1>2. Eph # <<>>
  <2>1. 1 \in DOMAIN Eph
    BY HelloAssumption DEF Eph
  <2>. QED
    BY <2>1
<1>3. /\ sid.key = DeriveAuthKey(Eph, "server", Random) /\ sid.random = Random
      /\ sid.t = Unix(sealed) /\ sid.shortID = Padded(conf.shortID)
  BY DEF SealAuth, ClientKey, Entitled
<1>4. AcceptShortID(sid.shortID)
  BY <1>3 DEF AcceptShortID, Entitled
<1>. HIDE DEF sid, info
<1>5. ServerAuthenticate(info, sid, t) <=> Within(t - Unix(sealed))
  BY <1>1, <1>3, <1>4 DEF ServerAuthenticate, Opened
<1>. QED
  BY <1>1, <1>2, <1>5 DEF Verdict, info, sid

\* The window in which a hello authenticates, for every TimeSkew and length of a
\* second in ticks: given that the parsers return what the fingerprint holds.
THEOREM TimeWindow == Spec /\ []ParsedRight => []Window
<1>1. IInv /\ ParsedRight => Window
  <2>. SUFFICES ASSUME IInv, ParsedRight, Entitled, TimeSkew > 0, judged # -1
                PROVE  /\ authKey # None => /\ -TimeSkew - Sec < judged - sealed
                                            /\ judged - sealed <= TimeSkew
                       /\ authKey = None => ~InTime
    BY DEF Window
  <2>1. authKey # None <=> Within(judged - Unix(sealed))
    BY VerdictIsTime DEF IInv, TypeOK, JudgedInv
  <2>2. Unix(sealed) \in Int /\ Unix(sealed) <= sealed /\ sealed < Unix(sealed) + Sec
    BY UnixBounds DEF IInv, TypeOK
  <2>3. judged \in Int /\ sealed \in Int /\ TimeSkew \in Int /\ Sec \in Int
    BY XHandshakeAssumption DEF IInv, TypeOK
  <2>. QED
    BY <2>1, <2>2, <2>3 DEF Within, InTime
<1>. QED
  BY <1>1, Invariance, PTL
=============================================================================
