----------------------------- MODULE XHandshake -----------------------------
(***************************************************************************)
(* One xreality handshake end to end: Client and Dialer (client.go)        *)
(* against handle of the listener (listener.go) with the session ID of     *)
(* auth.go, over a carrier that delays, is cut, and may lead to somebody   *)
(* else.  The site behind passthrough and a middlebox that terminates TLS  *)
(* look the same to the client: TLS completes with a stranger.  A key, a   *)
(* sealed payload and an HMAC are the record of what they are made from;   *)
(* the hello is bytes (ClientHello), three fields of which stand for them. *)
(* The clock runs in ticks, Sec of them to the second.                     *)
(***************************************************************************)
EXTENDS ClientHello

CONSTANTS
  Confs,       \* clients: [pub, shortID, names, shares, order, ahead, direct]
  ShortIDs,    \* ServerConfig.ShortIDs
  TimeSkew,    \* ServerConfig.TimeSkew in ticks; 0: no bound
  Sec,         \* ticks of a second
  ShortIDLen,  \* 8 in the code
  MaxNow       \* bound: the clock stops here

ASSUME XHandshakeAssumption ==
  /\ {TimeSkew, MaxNow} \subseteq Nat
  /\ {Sec, ShortIDLen} \subseteq Nat \ {0}
  /\ \A c \in Confs : c.ahead \in Int

VARIABLES
  conf,    \* the client of this behaviour: its server key and shortID, the
           \* names and key shares of its fingerprint and the order of its
           \* extensions, how far its clock is ahead, whether its connection
           \* leads to the server
  now,     \* the server's clock
  toS, toC,  \* messages on their way
  cli,     \* where Client is
  ekm,     \* whom it shares the keying material of its TLS channel with
  srv,     \* where handle is
  cArmed, sArmed,  \* the deadline is set on the raw connection of a side
  cOpen, sOpen,    \* the raw connection of a side is open
  sealed,  \* the client's time when it sealed the session ID (history)
  judged,  \* the server's time when it opened it, -1 before (history)
  authKey, \* the key handle works with
  hurt     \* a deadline has passed or the carrier was cut (history)

vars == <<conf, now, toS, toC, cli, ekm, srv, cArmed, sArmed, cOpen, sOpen, sealed, judged,
          authKey, hurt>>
cVars == <<cli, ekm, cArmed, cOpen, sealed>>
sVars == <<srv, sArmed, sOpen, judged, authKey>>

None == [kind |-> "none"]

Init ==
  /\ conf \in Confs
  /\ now = 0
  /\ toS = <<>> /\ toC = <<>>
  /\ cli = "start" /\ srv = "peek" /\ ekm = "nobody"
  /\ cArmed = TRUE /\ sArmed = TRUE
  /\ cOpen = TRUE /\ sOpen = TRUE
  /\ sealed = 0 /\ judged = -1
  /\ authKey = None
  /\ hurt = FALSE

\* A write reaches the other end if the connection is open on both.
Sent(q, m) == IF cOpen /\ sOpen THEN Append(q, m) ELSE q
SendS(m) == toS' = Sent(toS, m)
SendC(m) == toC' = Sent(toC, m)
-----------------------------------------------------------------------------
(* auth.go.                                                                  *)

\* copy into ShortIDLen zero bytes: padded, or cut.
Padded(s) == [i \in 1..ShortIDLen |-> IF i <= Len(s) THEN s[i] ELSE 0]

\* ECDH of an ephemeral and a static key, through HKDF with the random as salt.
DeriveAuthKey(eph, static, random) == [eph |-> eph, static |-> static, random |-> random]

\* t.Unix(): whole seconds.
Unix(t) == (t \div Sec) * Sec

\* sealAuth; it refuses a longer shortID before.
SealAuth(key, random, shortID, t) ==
  [key |-> key, random |-> random, t |-> Unix(t), shortID |-> Padded(shortID)]

\* aead.Open: the same key, nonce and additional data.
Opened(key, random, sid) == sid.key = key /\ sid.random = random

\* Mutant: only the past is bounded.
WithinPast(d) == d <= TimeSkew

\* time.Since(t) against the skew.
Within(d) == -TimeSkew <= d /\ d <= TimeSkew

\* Mutant: a configured shortID is compared as it is.
AcceptShortIDRaw(id) == id \in ShortIDs

AcceptShortID(id) == \E s \in ShortIDs : Padded(s) = id

\* The verdict of ServerAuthenticate at the server's time t; sid is what the
\* session ID of the hello stands for.
ServerAuthenticate(info, sid, t) ==
  /\ Opened(DeriveAuthKey(info.x25519, "server", info.random), info.random, sid)
  /\ TimeSkew > 0 => Within(t - sid.t)
  /\ AcceptShortID(sid.shortID)

\* The HMAC that binds the key to a channel, with a tag for the side.
Proof(key, tag, chan) == [kind |-> "proof", key |-> key, tag |-> tag, ekm |-> chan]

\* Mutant: any message of the right length will do.
EqualAlways(got, want) == TRUE

\* hmac.Equal
Equal(got, want) == got = want
-----------------------------------------------------------------------------
(* Client and Dialer.                                                        *)

\* The bytes of this client's ephemeral key, random and session ID.
Eph    == [i \in 1..KeyLen |-> 4]
Random == [i \in 1..RandomLen |-> 2]
Sid    == <<3, 5>>

ClientKey == DeriveAuthKey(Eph, conf.pub, Random)

\* helloHasX25519Share
HasX25519Share(c) ==
  /\ "share" \in ToSet(c.order)
  /\ [type |-> groupX25519, body |-> Eph] \in ToSet(c.shares)

\* The extensions of the fingerprint in their order; one of a type nobody knows.
Extensions(c) ==
  [i \in 1..Len(c.order) |->
     CASE c.order[i] = "name"  -> [type |-> extServerName, body |-> Block(2, Listed(c.names, 1))]
       [] c.order[i] = "share" -> [type |-> extKeyShare, body |-> Block(2, Listed(c.shares, 2))]
       [] OTHER -> [type |-> 7, body |-> <<>>]]

\* The hello each client sends, and what the server makes of it.
Hello  == [c \in Confs |-> Message(Random, Sid, Extensions(c))]
Parsed == [c \in Confs |-> ParseClientHello(Record(Hello[c], Len(Hello[c])))]

\* Client returns an error; Dialer closes the raw connection.
ClientGivesUp ==
  /\ cli' = "failed"
  /\ cOpen' = FALSE
  /\ UNCHANGED <<ekm, cArmed, sealed>>

\* The hello is built and sent, unless the fingerprint has no X25519 share or the
\* shortID is too long.
ClientStarts ==
  /\ cli = "start"
  /\ IF HasX25519Share(conf) /\ Len(conf.shortID) <= ShortIDLen
     THEN /\ cli' = "shake"
          /\ sealed' = now + conf.ahead
          /\ SendS([kind |-> "hello",
                sid |-> SealAuth(ClientKey, Random, conf.shortID, now + conf.ahead)])
          /\ UNCHANGED <<ekm, cArmed, cOpen>>
     ELSE ClientGivesUp /\ UNCHANGED toS
  /\ UNCHANGED <<conf, now, toC, sVars, hurt>>

\* u.Handshake() completes with whoever answers: no certificate is checked.
ClientShakes ==
  /\ cli = "shake"
  /\ toC # <<>>
  /\ Head(toC).kind = "flight"
  /\ cli' = "proof"
  /\ ekm' = Head(toC).ekm
  /\ toC' = Tail(toC)
  /\ SendS([kind |-> "finished"])
  /\ UNCHANGED <<conf, now, cArmed, cOpen, sealed, sVars, hurt>>

\* clientChannelAuth: the server's proof is read and compared, the client's is
\* written, the deadline cleared.  A write to a peer that has closed fails or, at
\* first, still succeeds.
ClientVerifies ==
  LET right == Equal(Head(toC), Proof(ClientKey, "server", ekm)) IN
  /\ cli = "proof"
  /\ toC # <<>>
  /\ toC' = Tail(toC)
  /\ \/ /\ right
        /\ cli' = "returned"
        /\ cArmed' = FALSE
        /\ SendS(Proof(ClientKey, "client", ekm))
        /\ UNCHANGED <<ekm, cOpen, sealed>>
     \/ /\ ~right \/ ~sOpen
        /\ ClientGivesUp
        /\ UNCHANGED toS
  /\ UNCHANGED <<conf, now, sVars, hurt>>

Waiting == {"shake", "proof"}

\* A read of Client fails: nothing is on its way and the other end is closed.
ClientEnds ==
  /\ cli \in Waiting
  /\ toC = <<>>
  /\ ~sOpen
  /\ ClientGivesUp
  /\ UNCHANGED <<conf, now, toS, toC, sVars, hurt>>

\* The client's deadline passes.
ClientTimesOut ==
  /\ cli \in Waiting
  /\ cArmed
  /\ ClientGivesUp
  /\ hurt' = TRUE
  /\ UNCHANGED <<conf, now, toS, toC, sVars>>
-----------------------------------------------------------------------------
(* handle.                                                                   *)

\* passthrough: the deadline is cleared and the connection spliced to the borrowed
\* site; it is closed if there is no Dest or it cannot be dialled.
Passthrough ==
  \/ srv' = "pass" /\ sArmed' = FALSE /\ UNCHANGED sOpen
  \/ srv' = "closed" /\ sOpen' = FALSE /\ sArmed' \in {sArmed, FALSE}

\* peekRecord and Authenticate; a hello that does not authenticate is passed
\* through.
Authenticate ==
  /\ srv = "peek"
  /\ conf.direct
  /\ toS # <<>>
  /\ toS' = Tail(toS)
  /\ judged' = now
  /\ LET info == Parsed[conf] IN
     IF /\ info.ok /\ info.x25519 # <<>> /\ info.sid = Sid
        /\ ServerAuthenticate(info, Head(toS).sid, now)
     THEN /\ srv' = "shake"
          /\ authKey' = DeriveAuthKey(info.x25519, "server", info.random)
          /\ SendC([kind |-> "flight", ekm |-> "server"])
          /\ UNCHANGED <<sArmed, sOpen>>
     ELSE Passthrough /\ UNCHANGED <<authKey, toC>>
  /\ UNCHANGED <<conf, now, cVars, hurt>>

\* conn.Handshake() completes, and the server's proof is written.
ServerShakes ==
  /\ srv = "shake"
  /\ toS # <<>>
  /\ toS' = Tail(toS)
  /\ srv' = "proof"
  /\ SendC(Proof(authKey, "server", "server"))
  /\ UNCHANGED <<conf, now, cVars, sArmed, sOpen, judged, authKey, hurt>>

\* The client's proof is read and compared.
ServerVerifies ==
  /\ srv = "proof"
  /\ toS # <<>>
  /\ toS' = Tail(toS)
  /\ IF Equal(Head(toS), Proof(authKey, "client", "server"))
     THEN srv' = "accepted" /\ sArmed' = FALSE /\ UNCHANGED sOpen
     ELSE srv' = "closed" /\ sOpen' = FALSE /\ UNCHANGED sArmed
  /\ UNCHANGED <<conf, now, toC, cVars, judged, authKey, hurt>>

\* A read of handle fails, or the splice sees the client go.
ServerEnds ==
  /\ srv \in {"peek", "shake", "proof", "pass"}
  /\ toS = <<>> \/ srv = "pass"
  /\ ~cOpen
  /\ srv' = "closed"
  /\ sOpen' = FALSE
  /\ UNCHANGED <<conf, now, toS, toC, cVars, sArmed, judged, authKey, hurt>>

\* The borrowed site ends the splice.
SiteEnds ==
  /\ srv = "pass"
  /\ srv' = "closed"
  /\ sOpen' = FALSE
  /\ UNCHANGED <<conf, now, toS, toC, cVars, sArmed, judged, authKey, hurt>>

\* Mutant: no deadline is set on the accepted connection.
ServerUnbounded == FALSE

\* The handshake timeout set when handle started.
ServerBounded == sArmed

\* The server's deadline passes; before the hello is whole that means passthrough.
ServerTimesOut ==
  /\ srv \in {"peek", "shake", "proof"}
  /\ ServerBounded
  /\ IF srv = "peek"
     THEN Passthrough
     ELSE srv' = "closed" /\ sOpen' = FALSE /\ UNCHANGED sArmed
  /\ hurt' = TRUE
  /\ UNCHANGED <<conf, now, toS, toC, cVars, judged, authKey>>
-----------------------------------------------------------------------------
(* The world.                                                                *)

\* The borrowed site or a middlebox answers the hello, and may speak first.
StrangerAnswers ==
  /\ cli = "shake"
  /\ srv = "pass" \/ ~conf.direct
  /\ toC = <<>>
  /\ \E rest \in {<<>>, <<[kind |-> "data"]>>} :
       toC' = <<[kind |-> "flight", ekm |-> "stranger"]>> \o rest
  /\ UNCHANGED <<conf, now, toS, cVars, sVars, hurt>>

\* The carrier is cut: what is on its way is lost and both ends see it end.
Cut ==
  /\ ~hurt
  /\ hurt' = TRUE
  /\ toS' = <<>> /\ toC' = <<>>
  /\ cOpen' = FALSE /\ sOpen' = FALSE
  /\ UNCHANGED <<conf, now, cli, ekm, cArmed, sealed, srv, sArmed, judged, authKey>>

Tick ==
  /\ now < MaxNow
  /\ now' = now + 1
  /\ UNCHANGED <<conf, toS, toC, cVars, sVars, hurt>>
-----------------------------------------------------------------------------
Client == ClientStarts \/ ClientShakes \/ ClientVerifies \/ ClientEnds
Handle == Authenticate \/ ServerShakes \/ ServerVerifies \/ ServerEnds

Next ==
  \/ Client
  \/ ClientTimesOut
  \/ Handle
  \/ ServerTimesOut
  \/ SiteEnds
  \/ StrangerAnswers
  \/ Cut
  \/ Tick

Spec == Init /\ [][Next]_vars

\* Both programs run, and a deadline that stays set passes.
FairSpec ==
  /\ Spec
  /\ WF_vars(Client) /\ WF_vars(ClientTimesOut)
  /\ WF_vars(Handle) /\ WF_vars(ServerTimesOut)
-----------------------------------------------------------------------------
(* Properties.                                                               *)

\* The client has everything it needs to be let in, the right time aside.
Entitled ==
  /\ conf.direct /\ conf.pub = "server" /\ HasX25519Share(conf)
  /\ Len(conf.shortID) <= ShortIDLen
  /\ \E s \in ShortIDs : Padded(s) = Padded(conf.shortID)

\* What a client meant by its fingerprint is what the parsers return.
RightlyParsed ==
  [c \in Confs |->
     LET msg   == Hello[c]
         hosts == OfType(c.names, hostName)
         name  == IF "name" \in ToSet(c.order) /\ hosts # <<>> THEN hosts[1].body ELSE <<>>
     IN  /\ Parsed[c] = [ok |-> TRUE, random |-> Random, sid |-> Sid, sni |-> name, x25519 |-> Eph]
         /\ SniFromClientHello(msg) = [ok |-> TRUE, sni |-> name]
         /\ \A n \in 4..Len(msg) - 1 :
              /\ ~ParseClientHello(Record(msg, n)).ok
              /\ SniFromClientHello(SubSeq(msg, 1, n)) \in
                   {Bad, [ok |-> TRUE, sni |-> <<>>], [ok |-> TRUE, sni |-> name]}]

\* Both parsers find in the hello what the fingerprint put there, in whatever
\* order and beside whatever else; of a hello that is spread over several records
\* xreality takes nothing and reality no wrong name.
ParsedRight == HasX25519Share(conf) => RightlyParsed[conf]

\* handle works with a key, and answers the hello itself, only for a client that
\* reaches it, knows its public key and has one of its shortIDs; everybody else is
\* passed through.
OnlyEntitled == authKey # None => Entitled

\* Client returns a tunnel only after the server has proved that it holds the same
\* key on the same channel; handle offers one only after Client has returned it, and
\* works with a key only for clients that are entitled to one.
Agreement ==
  /\ cli = "returned" => authKey = ClientKey /\ ekm = "server" /\ srv # "pass"
  /\ srv = "accepted" => cli = "returned"
  /\ OnlyEntitled

InTime == -TimeSkew <= judged - sealed /\ judged - sealed <= TimeSkew - Sec

\* A session ID older than TimeSkew is refused; one that is at least a second
\* younger, or not further in the future, is not: what Unix cuts off widens the
\* window in the future and narrows it in the past.
Window ==
  LET age == judged - sealed IN
  Entitled /\ TimeSkew > 0 /\ judged # -1 =>
    /\ authKey # None => -TimeSkew - Sec < age /\ age <= TimeSkew
    /\ authKey = None => ~InTime

\* Neither side stays in the handshake: not when the other is silent, not when
\* it is gone, not when the client ends up with a stranger.
HandshakeEnds ==
  /\ cli \in Waiting ~> cli \in {"returned", "failed"}
  /\ srv = "peek" ~> srv \in {"accepted", "pass", "closed"}

\* A client with the server's key and a listed shortID, whose hello comes in time,
\* gets its tunnel and the server accepts it, unless a deadline passes first or
\* the carrier is cut.
Completes ==
  Entitled ~>
    \/ cli = "returned" /\ srv = "accepted"
    \/ hurt
    \/ TimeSkew > 0 /\ judged # -1 /\ ~InTime
=============================================================================
