----------------------------- MODULE ClientHello ----------------------------
(***************************************************************************)
(* The two parsers of a ClientHello: ParseClientHello of xreality          *)
(* (clienthello.go) and sniFromClientHello of reality (reality.go), over   *)
(* bytes 0..Base-1 (Base is 256 in the code) with the fixed-length fields  *)
(* shrunk to RandomLen and KeyLen and the code points renamed to fit.      *)
(***************************************************************************)
EXTENDS Integers, Sequences, SequencesExt

CONSTANTS
  Base,       \* values of a byte
  RandomLen,  \* 32 in the code
  KeyLen      \* length of an X25519 share, 32 in the code

ASSUME HelloAssumption == Base \in Nat \ 0..6 /\ {RandomLen, KeyLen} \subseteq Nat \ {0}

recHandshake  == 6
hsClientHello == 1
extServerName == 0
extKeyShare   == 5
groupX25519   == 3
hostName      == 0

\* Big-endian numbers of one to three bytes.
Num(b) == LET digit(i) == IF i <= Len(b) THEN Base^(i - 1) * b[Len(b) - i + 1] ELSE 0
          IN  digit(1) + digit(2) + digit(3)
PutNum(n, k) == [i \in 1..k |-> (n \div Base^(k - i)) % Base]
From(p, i) == SubSeq(p, i, Len(p))
-----------------------------------------------------------------------------
(* The hello a TLS stack writes: extensions, names and key shares are lists *)
(* of [type, body] entries.                                                  *)

Block(k, body) == PutNum(Len(body), k) \o body

\* A list of entries with types of k bytes.
Listed(entries, k) ==
  FlattenSeq([i \in 1..Len(entries) |->
                PutNum(entries[i].type, k) \o Block(2, entries[i].body)])

\* The handshake message and the record around the first n bytes of it.
Message(random, sid, exts) ==
  LET rest == PutNum(0, 2) \o random \o Block(1, sid) \o Block(2, <<1, 1>>) \o Block(1, <<0>>)
                \o Block(2, Listed(exts, 2))
  IN  <<hsClientHello>> \o Block(3, rest)
Record(msg, n) == <<recHandshake, 3, 1>> \o Block(2, SubSeq(msg, 1, n))
-----------------------------------------------------------------------------
(* What both parsers are made of.                                            *)

\* take8 and take16: a field behind its length in k bytes.
Take(p, k) ==
  IF Len(p) < k \/ Len(p) < k + Num(SubSeq(p, 1, k))
  THEN [ok |-> FALSE]
  ELSE LET n == Num(SubSeq(p, 1, k)) IN
       [ok |-> TRUE, field |-> SubSeq(p, k + 1, k + n), rest |-> From(p, k + n + 1)]

\* The loops over extensions, names and shares: the entries up to the first one
\* that is longer than what is left; a rest too short for an entry is ignored.
Entries(p, k) ==
  LET f[i \in 1..Len(p) + 1] ==
        IF Len(p) - i + 1 < k + 2 THEN [ok |-> TRUE, items |-> <<>>]
        ELSE LET t == Take(From(p, i + k), 2) IN
             IF ~t.ok THEN [ok |-> FALSE, items |-> <<>>]
             ELSE LET later == f[i + k + 2 + Len(t.field)] IN
                  [later EXCEPT !.items =
                     <<[type |-> Num(SubSeq(p, i, i + k - 1)), body |-> t.field]>> \o @]
  IN  f[1]

\* The fields in front of the extensions and the extensions themselves.
Fields(p) ==
  LET sid    == Take(From(p, 3 + RandomLen), 1)
      suites == Take(sid.rest, 2)
      comp   == Take(suites.rest, 1)
      ext    == Take(comp.rest, 2)
      exts   == Entries(ext.field, 2)
      Info(ok, items) ==
        [ok |-> ok, random |-> SubSeq(p, 3, 2 + RandomLen), sid |-> sid.field, exts |-> items]
  IN  IF Len(p) < 2 + RandomLen \/ ~sid.ok \/ ~suites.ok \/ ~comp.ok
      THEN [ok |-> FALSE, exts |-> <<>>]
      ELSE IF Len(comp.rest) < 2 THEN Info(TRUE, <<>>)
      ELSE IF ~ext.ok THEN Info(FALSE, <<>>)
      ELSE Info(exts.ok, exts.items)

OfType(entries, type) == SelectSeq(entries, LAMBDA e : e.type = type)
FirstBody(entries) == IF entries = <<>> THEN <<>> ELSE entries[1].body
-----------------------------------------------------------------------------
(* xreality                                                                  *)

\* parseSNI: the first host name, "" if the list is cut short before.
ParseSNI(ext) ==
  LET list == Take(ext, 2) IN
  IF list.ok THEN FirstBody(OfType(Entries(list.field, 1).items, hostName)) ELSE <<>>

\* Mutant: only the first share is looked at.
RightShareFirst(shares) ==
  SelectSeq(SubSeq(shares, 1, 1), LAMBDA e : e.type = groupX25519 /\ Len(e.body) = KeyLen)

\* GREASE, other groups and shares of another length are skipped.
RightShare(shares) ==
  SelectSeq(shares, LAMBDA e : e.type = groupX25519 /\ Len(e.body) = KeyLen)

ParseKeyShareX25519(ext) ==
  LET shares == Take(ext, 2) IN
  IF shares.ok THEN FirstBody(RightShare(Entries(shares.field, 2).items)) ELSE <<>>

Bad == [ok |-> FALSE]

\* The last server_name and key_share extensions count.
ParseClientHello(record) ==
  LET b     == SubSeq(record, 6, 5 + Num(SubSeq(record, 4, 5)))
      hsLen == Num(SubSeq(b, 2, 4))
      info  == Fields(SubSeq(b, 5, 4 + hsLen))
      Final(type) == FirstBody(Reverse(OfType(info.exts, type)))
  IN  IF \/ Len(record) < 5 \/ record[1] # recHandshake
         \/ Num(SubSeq(record, 4, 5)) < 4 \/ 5 + Num(SubSeq(record, 4, 5)) > Len(record)
         \/ b[1] # hsClientHello \/ 4 + hsLen > Len(b) \/ ~info.ok
      THEN Bad
      ELSE [ok |-> TRUE, random |-> info.random, sid |-> info.sid,
            sni |-> ParseSNI(Final(extServerName)),
            x25519 |-> ParseKeyShareX25519(Final(extKeyShare))]
-----------------------------------------------------------------------------
(* reality                                                                   *)

\* sniFromExtension
SniFromExtension(ext) ==
  LET list  == Take(ext, 2)
      names == Entries(list.field, 1)
      hosts == OfType(names.items, hostName)
  IN  IF ~list.ok \/ (hosts = <<>> /\ ~names.ok) THEN Bad
      ELSE [ok |-> TRUE, sni |-> FirstBody(hosts)]

\* The first server_name extension counts, whatever comes behind it; the length
\* of the handshake message is not looked at.
SniFromClientHello(b) ==
  LET info == Fields(From(b, 5))
      sni  == OfType(info.exts, extServerName)
  IN  IF Len(b) < 4 \/ b[1] # hsClientHello THEN Bad
      ELSE IF sni # <<>> THEN SniFromExtension(sni[1].body)
      ELSE IF info.ok THEN [ok |-> TRUE, sni |-> <<>>] ELSE Bad
=============================================================================
