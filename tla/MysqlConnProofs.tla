-------------------------- MODULE MysqlConnProofs --------------------------
(***************************************************************************)
(* Proofs about a connection to MySQL, for every packet-number modulus and *)
(* every size of the replies, and any number of handlers: replies are read *)
(* whole and to their end, a connection that holds a leftover of one never *)
(* gives another packet to anybody, and no handler takes steps for ever.   *)
(***************************************************************************)
EXTENDS MysqlConn, SequenceTheorems, TLAPS

Commands == {"connect", "auth", "use", "query", "fields", "u", "prepare"}
Packets == [kind : Kinds, params : 0..MaxDefs, columns : 0..MaxDefs]

(* The variables are sequences over their types. *)
Typed ==
  /\ todo \in Seq(Commands) /\ asked \in Seq(Commands)
  /\ result \in Seq(Packets) /\ reply \in Seq(Packets)
  /\ inbuf \in Seq(Unit) /\ wire \in Seq(Unit)
  /\ sequence \in 0..SeqWrap-1
  /\ open \in BOOLEAN /\ stmt \in BOOLEAN /\ peer \in BOOLEAN /\ dirty \in BOOLEAN
  /\ uses \in 0..MaxUses

(* What has not been read yet, in the buffer or under way: how many units,  *)
(* and which is the i-th.                                                   *)
Total == Len(inbuf) + Len(wire)
At(i) == IF i <= Len(inbuf) THEN inbuf[i] ELSE wire[i - Len(inbuf)]

Quiet == Len(inbuf) = 0 /\ Len(wire) = 0 /\ asked = <<>>

-----------------------------------------------------------------------------
(* The shape of a reply. *)
Leads(cmd) == CASE cmd = "connect" -> {"greeting", "old", "err"}
                [] cmd = "auth"    -> {"ok", "switch", "err"}
                [] cmd = "use"     -> {"ok", "err"}
                [] cmd = "query"   -> {"ok", "count", "err"}
                [] cmd = "fields"  -> {"def", "err"}
                [] cmd = "u"       -> {"err"}
                [] cmd = "prepare" -> {"prepared", "err"}

(* n definitions and their EOF, if there are any, after the b-th packet; and *)
(* where they end.                                                           *)
DefsAt(r, b, n) ==
  n > 0 => /\ \A i \in 1..n : r[b + i].kind = "def"
           /\ r[b + n + 1].kind = "eof"
DefsEnd(b, n) == IF n = 0 THEN b ELSE b + n + 1

Rows(r) ==
  LET c == r[1].columns IN
  /\ c > 0 /\ Len(r) > c + 2
  /\ DefsAt(r, 1, c)
  /\ \A i \in c + 3..Len(r) - 1 : r[i].kind = "row"
  /\ r[Len(r)].kind \in {"eof", "err"}

Params(r) ==
  /\ DefsAt(r, 1, r[1].params)
  /\ DefsAt(r, DefsEnd(1, r[1].params), r[1].columns)
  /\ Len(r) = DefsEnd(DefsEnd(1, r[1].params), r[1].columns)

Shape(cmd, r) ==
  /\ Len(r) > 0
  /\ r[1].kind \in Leads(cmd)
  /\ r[1].kind \notin {"count", "def", "prepared"} => Len(r) = 1
  /\ r[1].kind = "def" => Len(r) > 1
  /\ r[1].kind = "count" => Rows(r)
  /\ r[1].kind = "prepared" => Params(r)

-----------------------------------------------------------------------------
(* The command whose reply is read. *)
Awaited == CASE pc = "greeting" -> "connect" [] pc = "welcome" -> "auth" [] OTHER -> todo[1]

(* What a handler may still have to send. *)
Todos == {<<"use", "query">>, <<"query">>, <<"fields">>, <<"u">>, <<"use", "prepare">>, <<"prepare">>}

(* A handler knows what it has to do, and where it is in a reply: after     *)
(* k = Len(result) packets of it.                                           *)
Place ==
  /\ pc \in {"pooled", "pinned", "lost", "write", "forward"} \cup Reading \cup Handshake
  /\ todo \in Todos \cup {<<>>}
  /\ pc \in {"pooled", "pinned", "lost"} \cup Handshake => todo = <<>>
  /\ pc \in {"write", "header"} => todo \in Todos
  /\ pc = "header" => todo # <<"prepare">>
  /\ pc \in {"columns", "rows"} => todo = <<"query">>
  /\ pc \in {"prepared", "params", "defs"} => todo = <<"prepare">>
  /\ pc \in Reading \cup {"auth", "forward"} => open
  /\ pc \in {"columns", "rows", "params", "defs", "forward"} <=> result # <<>>

(* The next packet, if it comes, is the one the reader is at. *)
Reader(r, k) ==
  /\ pc \in {"columns", "rows"} => r[1].kind = "count"
  /\ pc \in {"params", "defs"} => r[1].kind = "prepared"
  /\ pc = "columns" => k <= r[1].columns + 1
  /\ pc = "rows" => /\ k >= r[1].columns + 2
                    /\ k > r[1].columns + 2 => r[k].kind # "eof"
  /\ pc = "params" => r[1].params > 0 /\ k <= r[1].params + 1
  /\ pc = "defs" => /\ r[1].columns > 0
                    /\ k \in DefsEnd(1, r[1].params)..DefsEnd(1, r[1].params) + r[1].columns

Waiting ==
  /\ asked = <<Awaited>> /\ Total = 0 /\ result = <<>>
  /\ sequence = First(Awaited) % SeqWrap

HungUp == asked = <<>> /\ Total = 0 /\ result = <<>> /\ ~peer

Arriving ==
  /\ asked = <<>>
  /\ Shape(Awaited, reply)
  /\ Len(result) <= Len(reply)
  /\ \A i \in 1..Len(result) : result[i] = reply[i]
  /\ Reader(reply, Len(result))
  /\ sequence = (First(Awaited) + Len(result)) % SeqWrap
  /\ Total <= 2 * (Len(reply) - Len(result))
  /\ peer => Total = 2 * (Len(reply) - Len(result))
  /\ \A i \in 1..Total : At(i) = Units(reply, First(Awaited))[2 * Len(result) + i]

(* Nothing was left behind. *)
Clean ==
  /\ pc \in Reading => Waiting \/ HungUp \/ Arriving
  /\ pc \notin Reading /\ pc # "lost" /\ open => Quiet
  /\ pc = "auth" => sequence = 1
  /\ pc = "forward" => result = reply

(* A leftover: the rest of a reply from its second packet on, or from the   *)
(* body of that packet on.  No reader accepts its first unit.               *)
Stale(u) == u.part = "body" \/ u.seq # 1

Remnant ==
  /\ Total > 0 => Stale(At(1))
  /\ Total > 1 => "body" \in {At(1).part, At(2).part}
  /\ peer => Total > 0 /\ (Total > 1 \/ At(1).part = "body")

Leftover ==
  /\ pc \in {"pooled", "pinned", "lost", "write", "header", "prepared"}
  /\ pc \in {"header", "prepared"} => sequence = 1
  /\ Remnant

ConnInv == Typed /\ Place /\ (~dirty => Clean) /\ (dirty => Leftover)

-----------------------------------------------------------------------------
(* Counting goes on over the wrap-around. *)
LEMMA Remainder ==
  ASSUME NEW q \in Int, NEW m \in Nat, m > 1, NEW r \in 0..m - 1
  PROVE  (m * q + r) % m = r
OBVIOUS

LEMMA Division ==
  ASSUME NEW n \in Nat, NEW m \in Nat, m > 1
  PROVE  n \div m \in Int /\ n - m * (n \div m) \in 0..m - 1
<1>1. n < m * (n \div m) + m
  OBVIOUS
<1>2. n >= m * (n \div m)
  OBVIOUS
<1> QED BY <1>1, <1>2

LEMMA Successor ==
  ASSUME NEW n \in Nat, NEW m \in Nat, m > 1
  PROVE  (n + 1) % m = IF n % m = m - 1 THEN 0 ELSE (n % m) + 1
<1> DEFINE q == n \div m
           r == n - m * q
<1>1. q \in Int /\ r \in 0..m - 1
  BY Division
<1>2. n = m * q + r
  BY <1>1
<1> HIDE DEF q, r
<1>3. n % m = r
  BY <1>1, <1>2, Remainder
<1>4. CASE r = m - 1
  <2>1. PICK p \in Int : p = q + 1
    BY <1>1
  <2>2. m * p = m * q + m
    BY <1>1, <2>1
  <2>3. m * q \in Int /\ m * p \in Int
    BY <1>1
  <2>4. n + 1 = m * p + 0 /\ 0 \in 0..m - 1
    BY <2>2, <2>3, <1>2, <1>4
  <2>5. (n + 1) % m = 0
    BY <2>4, <2>1, Remainder
  <2> QED BY <2>5, <1>3, <1>4
<1>5. CASE r # m - 1
  <2>1. n + 1 = m * q + (r + 1) /\ r + 1 \in 0..m - 1
    BY <1>1, <1>2, <1>5
  <2>2. (n + 1) % m = r + 1
    BY <2>1, <1>1, Remainder
  <2> QED BY <2>2, <1>3, <1>5, <1>1
<1> QED BY <1>4, <1>5

LEMMA InRange == ASSUME NEW n \in Nat PROVE n % SeqWrap \in 0..SeqWrap - 1
BY MysqlConnAssumption

LEMMA NextSequence ==
  ASSUME NEW n \in Nat
  PROVE  Number(n % SeqWrap) = (n + 1) % SeqWrap
<1> DEFINE s == n % SeqWrap
<1>1. s \in 0..SeqWrap - 1
  BY InRange
<1>2. (n + 1) % SeqWrap = IF s = SeqWrap - 1 THEN 0 ELSE s + 1
  BY Successor, MysqlConnAssumption
<1> HIDE DEF s
<1>3. (s + 1) % SeqWrap = IF s = SeqWrap - 1 THEN 0 ELSE s + 1
  BY <1>1, MysqlConnAssumption
<1> QED BY <1>2, <1>3 DEF Number, s

LEMMA SmallNumbers ==
  0 % SeqWrap = 0 /\ 1 % SeqWrap = 1 /\ 2 % SeqWrap # 1 /\ Number(0) = 1 /\ Number(1) = 2 % SeqWrap
BY MysqlConnAssumption DEF Number

(* The units of a reply. *)
LEMMA UnitsAre ==
  ASSUME NEW r \in Seq(Packets), NEW f \in Nat
  PROVE  /\ Units(r, f) \in Seq(Unit) /\ Len(Units(r, f)) = 2 * Len(r)
         /\ \A k \in 0..Len(r) - 1 :
              /\ Units(r, f)[2 * k + 1].part = "head"
              /\ Units(r, f)[2 * k + 1].seq = (f + k) % SeqWrap
              /\ Units(r, f)[2 * k + 1].packet = r[k + 1]
              /\ Units(r, f)[2 * k + 2].part = "body"
<1> DEFINE n == 2 * Len(r)
           u(i) == [part |-> IF i % 2 = 1 THEN "head" ELSE "body",
                    seq |-> (f + (i - 1) \div 2) % SeqWrap,
                    packet |-> r[(i + 1) \div 2]]
<1>1. n \in Nat /\ Len(r) \in Nat
  OBVIOUS
<1>2. Units(r, f) = [i \in 1..n |-> u(i)]
  BY DEF Units
<1>3. ASSUME NEW i \in 1..n
      PROVE  u(i) \in Unit
  <2>1. (i + 1) \div 2 \in 1..Len(r)
    OBVIOUS
  <2>2. PICK d \in Nat : (i - 1) \div 2 = d
    OBVIOUS
  <2>3. (f + (i - 1) \div 2) % SeqWrap \in 0..SeqWrap - 1
    <3>1. f + d \in Nat
      OBVIOUS
    <3>2. (f + d) % SeqWrap \in 0..SeqWrap - 1
      BY <3>1, InRange
    <3> QED BY <2>2, <3>2, Zenon
  <2>4. r[(i + 1) \div 2] \in Packets
    BY <2>1
  <2> QED BY <2>3, <2>4 DEF Unit, Packets
<1>4. Units(r, f) \in Seq(Unit) /\ Len(Units(r, f)) = n
  <2> HIDE DEF u, n
  <2>1. \A i \in 1..n : u(i) \in Unit
    BY <1>3
  <2>2. [i \in 1..n |-> u(i)] \in Seq(Unit)
    BY <1>1, <2>1, IsASeq
  <2>3. Len([i \in 1..n |-> u(i)]) = n
    BY <1>1
  <2> QED BY <1>2, <2>2, <2>3
<1>5. ASSUME NEW k \in 0..Len(r) - 1
      PROVE  /\ Units(r, f)[2 * k + 1].part = "head"
             /\ Units(r, f)[2 * k + 1].seq = (f + k) % SeqWrap
             /\ Units(r, f)[2 * k + 1].packet = r[k + 1]
             /\ Units(r, f)[2 * k + 2].part = "body"
  <2>1. 2 * k + 1 \in 1..n /\ 2 * k + 2 \in 1..n
    OBVIOUS
  <2>2. Units(r, f)[2 * k + 1] = u(2 * k + 1) /\ Units(r, f)[2 * k + 2] = u(2 * k + 2)
    <3> HIDE DEF u, n
    <3> QED BY <2>1, <1>2
  <2>3. /\ (2 * k + 1) % 2 = 1 /\ (2 * k + 2) % 2 # 1
        /\ (2 * k + 1 - 1) \div 2 = k /\ (2 * k + 1 + 1) \div 2 = k + 1
    OBVIOUS
  <2>4. u(2 * k + 1) = [part |-> "head", seq |-> (f + k) % SeqWrap, packet |-> r[k + 1]]
    <3> DEFINE j == 2 * k + 1
    <3>1. j % 2 = 1 /\ (j - 1) \div 2 = k /\ (j + 1) \div 2 = k + 1
      BY <2>3
    <3> HIDE DEF j
    <3>2. u(j) = [part |-> "head", seq |-> (f + k) % SeqWrap, packet |-> r[k + 1]]
      BY <3>1, Zenon
    <3> QED BY <3>2 DEF j
  <2>5. u(2 * k + 2).part = "body"
    BY <2>3
  <2> HIDE DEF u, n
  <2> QED BY <2>2, <2>4, <2>5
<1> HIDE DEF u
<1> QED BY <1>4, <1>5

-----------------------------------------------------------------------------
(* Units that move from one place to another. *)
LEMMA Slice ==
  ASSUME NEW S, NEW s \in Seq(S), NEW m \in 1..Len(s) + 1, NEW n \in m - 1..Len(s)
  PROVE  /\ SubSeq(s, m, n) \in Seq(S) /\ Len(SubSeq(s, m, n)) = n - m + 1
         /\ \A i \in 1..n - m + 1 : SubSeq(s, m, n)[i] = s[m + i - 1]
OBVIOUS

LEMMA Lengths == ASSUME Typed PROVE /\ Len(inbuf) \in Nat /\ Len(wire) \in Nat /\ Total \in Nat
                                    /\ Len(result) \in Nat /\ Len(reply) \in Nat
BY DEF Typed, Total

LEMMA FillMoves ==
  ASSUME Typed, Fill
  PROVE  /\ Total' = Total /\ \A i \in 1..Total : At(i)' = At(i)
         /\ inbuf' \in Seq(Unit) /\ wire' \in Seq(Unit)
<1>1. wire \in Seq(Unit) /\ inbuf = <<>> /\ Len(wire) \in Nat /\ Len(inbuf) = 0
  BY DEF Typed, Fill
<1>2. PICK n \in 1..Len(wire) : inbuf' = SubSeq(wire, 1, n) /\ wire' = SubSeq(wire, n + 1, Len(wire))
  BY DEF Fill
<1>3. /\ inbuf' \in Seq(Unit) /\ Len(inbuf') = n
      /\ \A i \in 1..n : inbuf'[i] = wire[i]
  BY <1>1, <1>2, Slice
<1>4. /\ wire' \in Seq(Unit) /\ Len(wire') = Len(wire) - n
      /\ \A i \in 1..Len(wire) - n : wire'[i] = wire[n + i]
  BY <1>1, <1>2, Slice
<1>5. Total' = Total
  BY <1>1, <1>3, <1>4 DEF Total
<1>6. ASSUME NEW i \in 1..Total PROVE At(i)' = At(i)
  BY <1>1, <1>3, <1>4 DEF Total, At
<1> QED BY <1>3, <1>4, <1>5, <1>6

LEMMA PacketTaken ==
  ASSUME Typed, NEW from, ReadPacket(from)
  PROVE  /\ Total > 1 /\ Total' = Total - 2 /\ \A i \in 1..Total - 2 : At(i)' = At(i + 2)
         /\ inbuf' \in Seq(Unit) /\ wire' \in Seq(Unit)
         /\ Head(inbuf) = At(1) /\ InSync(At(1))
<1>1. /\ wire \in Seq(Unit) /\ inbuf \in Seq(Unit) /\ Len(inbuf) \in Nat /\ Len(wire) \in Nat
      /\ Len(inbuf) > 0 /\ Len(inbuf) + Len(wire) > 1
  BY DEF Typed, ReadPacket
<1>2. Head(inbuf) = At(1) /\ InSync(At(1))
  BY <1>1 DEF ReadPacket, At
<1>3. CASE Len(inbuf) > 1 /\ inbuf' = SubSeq(inbuf, 3, Len(inbuf)) /\ wire' = wire
  <2>1. /\ inbuf' \in Seq(Unit) /\ Len(inbuf') = Len(inbuf) - 2
        /\ \A i \in 1..Len(inbuf) - 2 : inbuf'[i] = inbuf[i + 2]
    <3>1. 3 \in 1..Len(inbuf) + 1 /\ Len(inbuf) \in 3 - 1..Len(inbuf)
      BY <1>1, <1>3
    <3>2. /\ inbuf' \in Seq(Unit) /\ Len(inbuf') = Len(inbuf) - 3 + 1
          /\ \A i \in 1..Len(inbuf) - 3 + 1 : inbuf'[i] = inbuf[3 + i - 1]
      BY <1>1, <1>3, <3>1, Slice
    <3> QED BY <1>1, <1>3, <3>2
  <2>2. Total' = Total - 2
    BY <1>1, <1>3, <2>1 DEF Total
  <2>3. ASSUME NEW i \in 1..Total - 2 PROVE At(i)' = At(i + 2)
    <3>1. CASE i <= Len(inbuf) - 2
      BY <1>1, <2>1, <3>1 DEF At
    <3>2. CASE i > Len(inbuf) - 2
      <4>1. i + 2 - Len(inbuf) = i - Len(inbuf')
        BY <1>1, <2>1
      <4> QED BY <1>1, <1>3, <2>1, <3>2, <4>1 DEF At
    <3> QED BY <1>1, <3>1, <3>2 DEF Total
  <2> QED BY <1>1, <1>2, <1>3, <2>1, <2>2, <2>3 DEF Total
<1>4. CASE /\ Len(inbuf) = 1
           /\ \E n \in 1..Len(wire) : inbuf' = SubSeq(wire, 2, n) /\ wire' = SubSeq(wire, n + 1, Len(wire))
  <2>1. PICK n \in 1..Len(wire) : inbuf' = SubSeq(wire, 2, n) /\ wire' = SubSeq(wire, n + 1, Len(wire))
    BY <1>4
  <2>2. /\ inbuf' \in Seq(Unit) /\ Len(inbuf') = n - 1
        /\ \A i \in 1..n - 1 : inbuf'[i] = wire[i + 1]
    BY <1>1, <2>1, Slice
  <2>3. /\ wire' \in Seq(Unit) /\ Len(wire') = Len(wire) - n
        /\ \A i \in 1..Len(wire) - n : wire'[i] = wire[n + i]
    BY <1>1, <2>1, Slice
  <2>6. Len(inbuf) = 1
    BY <1>4
  <2>4. Total' = Total - 2
    BY <1>1, <2>6, <2>2, <2>3 DEF Total
  <2>5. ASSUME NEW i \in 1..Total - 2 PROVE At(i)' = At(i + 2)
    BY <1>1, <2>6, <2>2, <2>3 DEF Total, At
  <2> QED BY <1>1, <1>2, <2>2, <2>3, <2>4, <2>5 DEF Total
<1> QED BY <1>3, <1>4 DEF ReadPacket

LEMMA Truncated ==
  ASSUME Typed, PeerCloses
  PROVE  /\ Total' \in 0..Total /\ \A i \in 1..Total' : At(i)' = At(i)
         /\ wire' \in Seq(Unit)
<1>1. /\ wire \in Seq(Unit) /\ inbuf \in Seq(Unit) /\ Len(inbuf) \in Nat /\ Len(wire) \in Nat
      /\ inbuf' = inbuf
  BY DEF Typed, PeerCloses, proxy
<1>2. PICK n \in 0..Len(wire) : wire' = SubSeq(wire, 1, n)
  BY DEF PeerCloses
<1>3. /\ wire' \in Seq(Unit) /\ Len(wire') = n
      /\ \A i \in 1..n : wire'[i] = wire[i]
  BY <1>1, <1>2, Slice
<1>4. Total' \in 0..Total
  BY <1>1, <1>3 DEF Total
<1>5. ASSUME NEW i \in 1..Total' PROVE At(i)' = At(i)
  BY <1>1, <1>3 DEF Total, At
<1> QED BY <1>3, <1>4, <1>5

LEMMA Added ==
  ASSUME Typed, NEW u \in Seq(Unit), wire' = wire \o u, inbuf' = inbuf
  PROVE  /\ Total' = Total + Len(u) /\ wire' \in Seq(Unit)
         /\ \A i \in 1..Total : At(i)' = At(i)
         /\ \A i \in Total + 1..Total + Len(u) : At(i)' = u[i - Total]
<1>1. /\ wire \in Seq(Unit) /\ inbuf \in Seq(Unit) /\ Len(inbuf) \in Nat /\ Len(wire) \in Nat
  BY DEF Typed
<1>2. /\ wire' \in Seq(Unit) /\ Len(wire') = Len(wire) + Len(u) /\ Len(u) \in Nat
      /\ \A i \in 1..Len(wire) : wire'[i] = wire[i]
      /\ \A i \in 1..Len(u) : wire'[Len(wire) + i] = u[i]
  BY <1>1
<1>3. Total' = Total + Len(u)
  BY <1>1, <1>2 DEF Total
<1>4. ASSUME NEW i \in 1..Total PROVE At(i)' = At(i)
  BY <1>1, <1>2 DEF Total, At
<1>5. ASSUME NEW i \in Total + 1..Total + Len(u) PROVE At(i)' = u[i - Total]
  <2>1. i - Len(inbuf) = Len(wire) + (i - Total) /\ i - Total \in 1..Len(u) /\ ~(i <= Len(inbuf))
    BY <1>1, <1>2 DEF Total
  <2>2. wire'[i - Len(inbuf)] = u[i - Total]
    BY <2>1, <1>2
  <2> QED BY <2>1, <2>2 DEF At
<1> QED BY <1>2, <1>3, <1>4, <1>5

LEMMA HeadDropped ==
  ASSUME Typed, inbuf # <<>>, inbuf' = Tail(inbuf), wire' = wire
  PROVE  /\ Total > 0 /\ Total' = Total - 1 /\ \A i \in 1..Total - 1 : At(i)' = At(i + 1)
         /\ inbuf' \in Seq(Unit)
<1>1. /\ wire \in Seq(Unit) /\ inbuf \in Seq(Unit) /\ Len(inbuf) \in Nat /\ Len(wire) \in Nat
      /\ Len(inbuf) > 0
  BY DEF Typed
<1>2. /\ inbuf' \in Seq(Unit) /\ Len(inbuf') = Len(inbuf) - 1
      /\ \A i \in 1..Len(inbuf) - 1 : inbuf'[i] = inbuf[i + 1]
  BY <1>1
<1>3. Total' = Total - 1 /\ Total > 0
  BY <1>1, <1>2 DEF Total
<1>4. ASSUME NEW i \in 1..Total - 1 PROVE At(i)' = At(i + 1)
  BY <1>1, <1>2 DEF Total, At
<1> QED BY <1>2, <1>3, <1>4

-----------------------------------------------------------------------------
(* The replies of MySQL have their shapes. *)
LEMMA OfIs == ASSUME NEW k \in Kinds PROVE Of(k) \in Packets /\ Of(k).kind = k
BY MysqlConnAssumption DEF Of, Packets

LEMMA OneIs ==
  ASSUME NEW p \in Packets PROVE <<p>> \in Seq(Packets) /\ Len(<<p>>) = 1 /\ <<p>>[1] = p
OBVIOUS

LEMMA ManyAre ==
  ASSUME NEW k \in Kinds, NEW n \in Nat
  PROVE  /\ Many(k, n) \in Seq(Packets) /\ Len(Many(k, n)) = n
         /\ \A i \in 1..n : Many(k, n)[i].kind = k
<1>1. Of(k) \in Packets /\ Of(k).kind = k
  BY OfIs
<1>2. Many(k, n) = [i \in 1..n |-> Of(k)]
  BY DEF Many
<1> QED BY <1>1, <1>2

LEMMA DefsAre ==
  ASSUME NEW n \in Nat
  PROVE  /\ Defs(n) \in Seq(Packets) /\ Len(Defs(n)) = IF n = 0 THEN 0 ELSE n + 1
         /\ \A i \in 1..n : Defs(n)[i].kind = "def"
         /\ n > 0 => Defs(n)[n + 1].kind = "eof"
<1>1. CASE n = 0
  BY <1>1 DEF Defs
<1>2. CASE n > 0
  <2>1. Of("eof") \in Packets /\ Of("eof").kind = "eof"
    BY OfIs DEF Kinds
  <2>2. /\ Many("def", n) \in Seq(Packets) /\ Len(Many("def", n)) = n
        /\ \A i \in 1..n : Many("def", n)[i].kind = "def"
    BY ManyAre DEF Kinds
  <2>3. Defs(n) = Append(Many("def", n), Of("eof"))
    BY <1>2 DEF Defs
  <2> QED BY <1>2, <2>1, <2>2, <2>3
<1> QED BY <1>1, <1>2

(* What one sequence after another holds. *)
LEMMA Joined ==
  ASSUME NEW s \in Seq(Packets), NEW t \in Seq(Packets)
  PROVE  /\ s \o t \in Seq(Packets) /\ Len(s \o t) = Len(s) + Len(t)
         /\ \A i \in 1..Len(s) : (s \o t)[i] = s[i]
         /\ \A i \in 1..Len(t) : (s \o t)[Len(s) + i] = t[i]
OBVIOUS

LEMMA JoinedThree ==
  ASSUME NEW h \in Seq(Packets), NEW s \in Seq(Packets), NEW t \in Seq(Packets)
  PROVE  /\ (h \o s) \o t \in Seq(Packets)
         /\ Len((h \o s) \o t) = Len(h) + Len(s) + Len(t)
         /\ \A i \in 1..Len(h) : ((h \o s) \o t)[i] = h[i]
         /\ \A i \in 1..Len(s) : ((h \o s) \o t)[Len(h) + i] = s[i]
         /\ \A i \in 1..Len(t) : ((h \o s) \o t)[Len(h) + Len(s) + i] = t[i]
<1> DEFINE r == (h \o s) \o t
<1> DEFINE a == h \o s
<1>7. a = h \o s
  OBVIOUS
<1>2. r = a \o t
  OBVIOUS
<1> HIDE DEF a, r
<1>1. /\ a \in Seq(Packets) /\ Len(a) = Len(h) + Len(s)
      /\ \A i \in 1..Len(h) : a[i] = h[i]
      /\ \A i \in 1..Len(s) : a[Len(h) + i] = s[i]
  <2>1. /\ h \o s \in Seq(Packets) /\ Len(h \o s) = Len(h) + Len(s)
        /\ \A i \in 1..Len(h) : (h \o s)[i] = h[i]
        /\ \A i \in 1..Len(s) : (h \o s)[Len(h) + i] = s[i]
    BY Joined
  <2> QED BY <1>7, <2>1, Zenon
<1>3. /\ r \in Seq(Packets) /\ Len(r) = Len(a) + Len(t)
      /\ \A i \in 1..Len(a) : r[i] = a[i]
      /\ \A i \in 1..Len(t) : r[Len(a) + i] = t[i]
  <2>1. /\ a \o t \in Seq(Packets) /\ Len(a \o t) = Len(a) + Len(t)
        /\ \A i \in 1..Len(a) : (a \o t)[i] = a[i]
        /\ \A i \in 1..Len(t) : (a \o t)[Len(a) + i] = t[i]
    BY <1>1, Joined
  <2> QED BY <1>2, <2>1, Zenon
<1>4. Len(h) \in Nat /\ Len(s) \in Nat /\ Len(t) \in Nat
  BY LenProperties, Zenon
<1>5. \A i \in 1..Len(s) : r[Len(h) + i] = s[i]
  <2> TAKE i \in 1..Len(s)
  <2>1. Len(h) + i \in 1..Len(a)
    BY <1>1, <1>4
  <2> QED BY <2>1, <1>1, <1>3, Zenon
<1>6. \A i \in 1..Len(h) : r[i] = h[i]
  <2> TAKE i \in 1..Len(h)
  <2>1. i \in 1..Len(a)
    BY <1>1, <1>4
  <2> QED BY <2>1, <1>1, <1>3, Zenon
<1> QED BY <1>1, <1>3, <1>5, <1>6, Zenon DEF r

LEMMA ResultSetIs ==
  ASSUME NEW c \in 1..MaxDefs, NEW n \in 0..MaxRows, NEW end \in {"eof", "err"}
  PROVE  /\ ResultSet(c, n, end) \in Seq(Packets) /\ Len(ResultSet(c, n, end)) > 0
         /\ ResultSet(c, n, end)[1].kind = "count" /\ Rows(ResultSet(c, n, end))
<1> DEFINE p == [Of("count") EXCEPT !.columns = c]
           h == <<p>>
           d == Defs(c)
           m == Many("row", n)
           e == <<Of(end)>>
           a == h \o d \o m
           r == ResultSet(c, n, end)
<1>1. /\ p \in Packets /\ p.kind = "count" /\ p.columns = c
      /\ Of(end) \in Packets /\ Of(end).kind = end
  <2>1. Of(end) \in Packets /\ Of(end).kind = end
    BY OfIs DEF Kinds
  <2> QED BY <2>1, MysqlConnAssumption DEF Of, Packets, Kinds
<1>2. /\ d \in Seq(Packets) /\ Len(d) = c + 1
      /\ \A i \in 1..c : d[i].kind = "def"
      /\ d[c + 1].kind = "eof"
  BY DefsAre
<1>3. /\ m \in Seq(Packets) /\ Len(m) = n
      /\ \A i \in 1..n : m[i].kind = "row"
  BY ManyAre DEF Kinds
<1>4. r = a \o e
  BY DEF ResultSet
<1>5. a = (h \o d) \o m
  OBVIOUS
<1> HIDE DEF p
<1>6. /\ h \in Seq(Packets) /\ Len(h) = 1 /\ h[1] = p
      /\ e \in Seq(Packets) /\ Len(e) = 1 /\ e[1] = Of(end)
  BY <1>1, OneIs
<1> HIDE DEF h, d, m, e, a, r
<1>7. /\ a \in Seq(Packets) /\ Len(a) = Len(h) + Len(d) + Len(m)
      /\ \A i \in 1..Len(h) : a[i] = h[i]
      /\ \A i \in 1..Len(d) : a[Len(h) + i] = d[i]
      /\ \A i \in 1..Len(m) : a[Len(h) + Len(d) + i] = m[i]
  <2>1. h \in Seq(Packets) /\ d \in Seq(Packets) /\ m \in Seq(Packets)
    BY <1>2, <1>3, <1>6
  <2>2. /\ (h \o d) \o m \in Seq(Packets)
        /\ Len((h \o d) \o m) = Len(h) + Len(d) + Len(m)
        /\ \A i \in 1..Len(h) : ((h \o d) \o m)[i] = h[i]
        /\ \A i \in 1..Len(d) : ((h \o d) \o m)[Len(h) + i] = d[i]
        /\ \A i \in 1..Len(m) : ((h \o d) \o m)[Len(h) + Len(d) + i] = m[i]
    BY <2>1, JoinedThree, Zenon
  <2> QED BY <1>5, <2>2, Zenon
<1>8. /\ r \in Seq(Packets) /\ Len(r) = Len(a) + Len(e)
      /\ \A i \in 1..Len(a) : r[i] = a[i]
      /\ \A i \in 1..Len(e) : r[Len(a) + i] = e[i]
  <2>1. /\ a \o e \in Seq(Packets) /\ Len(a \o e) = Len(a) + Len(e)
        /\ \A i \in 1..Len(a) : (a \o e)[i] = a[i]
        /\ \A i \in 1..Len(e) : (a \o e)[Len(a) + i] = e[i]
    BY <1>6, <1>7, Joined
  <2> QED BY <1>4, <2>1, Zenon
<1>9. Len(a) = c + n + 2 /\ Len(r) = c + n + 3
  BY <1>2, <1>3, <1>6, <1>7, <1>8
<1>10. r[1] = p /\ r[Len(r)] = Of(end)
  <2>1. 1 \in 1..Len(h) /\ 1 \in 1..Len(a) /\ 1 \in 1..Len(e) /\ Len(a) + 1 = Len(r)
    BY <1>6, <1>9
  <2>2. r[1] = p
    BY <2>1, <1>6, <1>7, <1>8
  <2>3. r[Len(a) + 1] = Of(end)
    BY <2>1, <1>6, <1>8
  <2> QED BY <2>1, <2>2, <2>3, Zenon
<1>11. ASSUME NEW i \in 1..c + 1 PROVE r[1 + i] = d[i]
  <2>1. i \in 1..Len(d) /\ 1 + i \in 1..Len(a) /\ Len(h) + i = 1 + i
    BY <1>2, <1>6, <1>9
  <2>2. a[1 + i] = d[i]
    BY <2>1, <1>7, Zenon
  <2> QED BY <2>1, <2>2, <1>8, Zenon
<1>12. DefsAt(r, 1, c)
  <2>1. \A i \in 1..c : r[1 + i].kind = "def"
    <3> TAKE i \in 1..c
    <3>1. i \in 1..c + 1
      OBVIOUS
    <3> QED BY <3>1, <1>2, <1>11, Zenon
  <2>2. r[1 + c + 1].kind = "eof"
    <3>1. c + 1 \in 1..c + 1 /\ 1 + (c + 1) = 1 + c + 1
      OBVIOUS
    <3> QED BY <3>1, <1>2, <1>11, Zenon
  <2> QED BY <2>1, <2>2 DEF DefsAt
<1>13. ASSUME NEW i \in c + 3..Len(r) - 1 PROVE r[i].kind = "row"
  <2>1. PICK j \in 1..n : i = Len(h) + Len(d) + j
    BY <1>2, <1>6, <1>9
  <2>2. j \in 1..Len(m) /\ i \in 1..Len(a)
    BY <1>3, <1>9
  <2>3. r[i] = m[j]
    BY <2>1, <2>2, <1>7, <1>8, Zenon
  <2> QED BY <2>3, <1>3
<1>14. c > 0 /\ Len(r) > c + 2 /\ Len(r) > 0
  BY <1>9
<1>15. Rows(r)
  <2>1. r[1].columns = c
    BY <1>1, <1>10
  <2>2. r[Len(r)].kind \in {"eof", "err"}
    BY <1>1, <1>10
  <2> QED BY <2>1, <2>2, <1>12, <1>13, <1>14, Zenon DEF Rows
<1>16. r[1].kind = "count"
  BY <1>1, <1>10
<1> QED BY <1>8, <1>14, <1>15, <1>16 DEF r

LEMMA PrepareReplyIs ==
  ASSUME NEW p \in 0..MaxDefs, NEW c \in 0..MaxDefs
  PROVE  /\ PrepareReply(p, c) \in Seq(Packets) /\ Len(PrepareReply(p, c)) > 0
         /\ PrepareReply(p, c)[1].kind = "prepared" /\ Params(PrepareReply(p, c))
<1> DEFINE q == [kind |-> "prepared", params |-> p, columns |-> c]
           h == <<q>>
           dp == Defs(p)
           dc == Defs(c)
           r == PrepareReply(p, c)
<1>1. q \in Packets /\ q.kind = "prepared" /\ q.params = p /\ q.columns = c
  BY DEF Packets, Kinds
<1>2. r = (h \o dp) \o dc
  BY DEF PrepareReply
<1> HIDE DEF q
<1>3. h \in Seq(Packets) /\ Len(h) = 1 /\ h[1] = q
  BY <1>1, OneIs
<1>4. p \in Nat /\ c \in Nat
  BY MysqlConnAssumption
<1>5. /\ dp \in Seq(Packets) /\ Len(dp) = IF p = 0 THEN 0 ELSE p + 1
      /\ \A i \in 1..p : dp[i].kind = "def"
      /\ p > 0 => dp[p + 1].kind = "eof"
  BY <1>4, DefsAre
<1>6. /\ dc \in Seq(Packets) /\ Len(dc) = IF c = 0 THEN 0 ELSE c + 1
      /\ \A i \in 1..c : dc[i].kind = "def"
      /\ c > 0 => dc[c + 1].kind = "eof"
  BY <1>4, DefsAre
<1> HIDE DEF h, dp, dc, r
<1>7. /\ r \in Seq(Packets) /\ Len(r) = Len(h) + Len(dp) + Len(dc)
      /\ \A i \in 1..Len(h) : r[i] = h[i]
      /\ \A i \in 1..Len(dp) : r[Len(h) + i] = dp[i]
      /\ \A i \in 1..Len(dc) : r[Len(h) + Len(dp) + i] = dc[i]
  <2>1. /\ (h \o dp) \o dc \in Seq(Packets)
        /\ Len((h \o dp) \o dc) = Len(h) + Len(dp) + Len(dc)
        /\ \A i \in 1..Len(h) : ((h \o dp) \o dc)[i] = h[i]
        /\ \A i \in 1..Len(dp) : ((h \o dp) \o dc)[Len(h) + i] = dp[i]
        /\ \A i \in 1..Len(dc) : ((h \o dp) \o dc)[Len(h) + Len(dp) + i] = dc[i]
    BY <1>3, <1>5, <1>6, JoinedThree, Zenon
  <2> QED BY <1>2, <2>1, Zenon
<1> DEFINE b == Len(h) + Len(dp)
<1>8. b = DefsEnd(1, p) /\ b \in Nat /\ b > 0
  BY <1>3, <1>4, <1>5 DEF DefsEnd
<1>9. Len(r) = DefsEnd(b, c) /\ Len(r) > 0
  BY <1>3, <1>4, <1>5, <1>6, <1>7 DEF DefsEnd
<1>10. r[1] = q
  <2>1. 1 \in 1..Len(h)
    BY <1>3
  <2> QED BY <2>1, <1>3, <1>7, Zenon
<1>11. DefsAt(r, 1, p)
  <2> SUFFICES ASSUME p > 0
               PROVE  (\A i \in 1..p : r[1 + i].kind = "def") /\ r[1 + p + 1].kind = "eof"
    BY DEF DefsAt
  <2>1. ASSUME NEW i \in 1..p + 1 PROVE r[1 + i] = dp[i]
    <3>1. i \in 1..Len(dp) /\ Len(h) + i = 1 + i
      BY <1>3, <1>4, <1>5
    <3> QED BY <3>1, <1>7, Zenon
  <2>2. \A i \in 1..p : r[1 + i].kind = "def"
    <3> TAKE i \in 1..p
    <3>1. i \in 1..p + 1
      BY <1>4
    <3> QED BY <3>1, <1>5, <2>1, Zenon
  <2>3. p + 1 \in 1..p + 1 /\ 1 + (p + 1) = 1 + p + 1
    BY <1>4
  <2> QED BY <1>5, <2>1, <2>2, <2>3, Zenon
<1>12. DefsAt(r, b, c)
  <2> SUFFICES ASSUME c > 0
               PROVE  (\A i \in 1..c : r[b + i].kind = "def") /\ r[b + c + 1].kind = "eof"
    BY DEF DefsAt
  <2>1. ASSUME NEW i \in 1..c + 1 PROVE r[b + i] = dc[i]
    <3>1. i \in 1..Len(dc)
      BY <1>4, <1>6
    <3> QED BY <3>1, <1>7, Zenon
  <2> HIDE DEF b
  <2>2. \A i \in 1..c : r[b + i].kind = "def"
    BY <1>4, <1>6, <2>1
  <2>3. c + 1 \in 1..c + 1 /\ b + (c + 1) = b + c + 1
    BY <1>4, <1>8
  <2> QED BY <1>6, <2>1, <2>2, <2>3, Zenon
<1> HIDE DEF b
<1>13. r[1].params = p /\ r[1].columns = c /\ r[1].kind = "prepared"
  BY <1>1, <1>10
<1>14. Params(r)
  BY <1>8, <1>9, <1>11, <1>12, <1>13, Zenon DEF Params
<1> QED BY <1>7, <1>9, <1>13, <1>14 DEF r

LEMMA RepliesAre ==
  ASSUME NEW cmd \in Commands, NEW r \in {<<Of("err")>>} \cup Success(cmd)
  PROVE  r \in Seq(Packets) /\ Shape(cmd, r)
<1>1. ASSUME NEW k \in Kinds, r = <<Of(k)>>, k \in Leads(cmd), k \notin {"count", "def", "prepared"}
      PROVE  r \in Seq(Packets) /\ Shape(cmd, r)
  <2>1. /\ r \in Seq(Packets) /\ Len(r) = 1 /\ r[1].kind = k
    BY <1>1, OfIs, OneIs
  <2> QED BY <2>1, <1>1 DEF Shape
<1>2. CASE r = <<Of("err")>>
  BY <1>1, <1>2 DEF Kinds, Leads, Commands
<1>3. CASE r \in Success(cmd)
  <2>1. CASE cmd = "connect"
    BY <1>1, <1>3, <2>1 DEF Success, Kinds, Leads
  <2>2. CASE cmd = "auth"
    BY <1>1, <1>3, <2>2 DEF Success, Kinds, Leads
  <2>3. CASE cmd = "use"
    BY <1>1, <1>3, <2>3 DEF Success, Kinds, Leads
  <2>4. CASE cmd = "query"
    <3>1. CASE r = <<Of("ok")>>
      BY <1>1, <2>4, <3>1 DEF Kinds, Leads
    <3>2. CASE r # <<Of("ok")>>
      <4>1. PICK c \in 1..MaxDefs, n \in 0..MaxRows, end \in {"eof", "err"} : r = ResultSet(c, n, end)
        BY <1>3, <2>4, <3>2 DEF Success
      <4>2. r \in Seq(Packets) /\ Len(r) > 0 /\ r[1].kind = "count" /\ Rows(r)
        BY <4>1, ResultSetIs
      <4> QED BY <2>4, <4>2 DEF Shape, Leads
    <3> QED BY <3>1, <3>2
  <2>5. CASE cmd = "fields"
    <3>1. PICK n \in 1..MaxDefs : r = Defs(n)
      BY <1>3, <2>5 DEF Success
    <3>2. r \in Seq(Packets) /\ Len(r) > 1 /\ r[1].kind = "def"
      <4>1. /\ Defs(n) \in Seq(Packets) /\ Len(Defs(n)) = IF n = 0 THEN 0 ELSE n + 1
            /\ \A i \in 1..n : Defs(n)[i].kind = "def"
        BY DefsAre, MysqlConnAssumption
      <4> QED BY <3>1, <4>1, MysqlConnAssumption
    <3> QED BY <2>5, <3>2 DEF Shape, Leads
  <2>6. CASE cmd = "u"
    BY <1>3, <2>6 DEF Success
  <2>7. CASE cmd = "prepare"
    <3>1. PICK p \in 0..MaxDefs, c \in 0..MaxDefs : r = PrepareReply(p, c)
      BY <1>3, <2>7 DEF Success
    <3>2. r \in Seq(Packets) /\ Len(r) > 0 /\ r[1].kind = "prepared" /\ Params(r)
      BY <3>1, PrepareReplyIs
    <3> QED BY <2>7, <3>2 DEF Shape, Leads
  <2> QED BY <2>1, <2>2, <2>3, <2>4, <2>5, <2>6, <2>7 DEF Commands
<1> QED BY <1>2, <1>3

-----------------------------------------------------------------------------
(* What every step can use. *)
LEMMA TodosAre ==
  ASSUME NEW t \in Todos
  PROVE  /\ t \in Seq(Commands) /\ Head(t) = t[1] /\ Len(t) \in {1, 2}
         /\ t[1] \in Commands /\ First(t[1]) = 1
         /\ t[1] \in {"query", "prepare", "fields"} => t = <<t[1]>>
         /\ Len(t) = 2 => Tail(t) \in Todos
<1>1. CASE t = <<"use", "query">>
  BY <1>1 DEF Todos, Commands, First
<1>2. CASE t = <<"use", "prepare">>
  BY <1>2 DEF Todos, Commands, First
<1>3. CASE t \in {<<"query">>, <<"fields">>, <<"u">>, <<"prepare">>}
  <2>1. PICK c \in {"query", "fields", "u", "prepare"} : t = <<c>>
    BY <1>3
  <2>2. Head(t) = c /\ t[1] = c /\ Len(t) = 1 /\ t \in Seq(Commands)
    BY <2>1 DEF Commands
  <2>3. First(c) = 1
    BY DEF First
  <2> QED BY <2>1, <2>2, <2>3 DEF Commands
<1> QED BY <1>1, <1>2, <1>3 DEF Todos

LEMMA AwaitedIs ==
  ASSUME Typed, Place, pc \in Reading
  PROVE  /\ Awaited \in Commands /\ First(Awaited) \in Nat
         /\ pc = "greeting" => Awaited = "connect" /\ First(Awaited) = 0
         /\ pc = "welcome" => Awaited = "auth" /\ First(Awaited) = 2
         /\ pc \notin {"greeting", "welcome"} => Awaited = todo[1] /\ First(Awaited) = 1
         /\ pc = "header" => Awaited \in {"use", "query", "fields", "u"} /\ Len(todo) \in {1, 2}
         /\ pc \in {"columns", "rows"} => Awaited = "query"
         /\ pc \in {"prepared", "params", "defs"} => Awaited = "prepare"
<1>1. CASE pc = "greeting"
  BY <1>1 DEF Awaited, First, Commands
<1>2. CASE pc = "welcome"
  BY <1>2 DEF Awaited, First, Commands
<1>3. CASE pc = "header"
  <2>1. todo \in Todos /\ todo # <<"prepare">>
    BY <1>3 DEF Place, Todos
  <2>2. Awaited = todo[1]
    BY <1>3 DEF Awaited
  <2>3. Awaited \in {"use", "query", "fields", "u"}
    BY <2>1, <2>2, TodosAre DEF Commands, First
  <2> QED BY <1>3, <2>1, <2>2, <2>3, TodosAre DEF Commands
<1>4. CASE pc \in {"columns", "rows"}
  BY <1>4 DEF Place, Awaited, Commands, First
<1>5. CASE pc \in {"prepared", "params", "defs"}
  BY <1>5 DEF Place, Awaited, Commands, First
<1> QED BY <1>1, <1>2, <1>3, <1>4, <1>5 DEF Reading

LEMMA SameUnread ==
  ASSUME inbuf' = inbuf, wire' = wire
  PROVE  Total' = Total /\ \A i \in Int : At(i)' = At(i)
BY DEF Total, At

LEMMA RemnantStays ==
  ASSUME Typed, Remnant, Total' = Total, \A i \in 1..Total : At(i)' = At(i), peer' => peer
  PROVE  Remnant'
<1>1. Total \in Nat
  BY Lengths
<1>2. Total > 0 => At(1)' = At(1)
  BY <1>1
<1>3. Total > 1 => At(2)' = At(2)
  BY <1>1
<1> QED BY <1>1, <1>2, <1>3 DEF Remnant, Stale

(* The next packet of a reply that arrives. *)
LEMMA NextUnit ==
  ASSUME Typed, Place, pc \in Reading, Arriving, Total > 0
  PROVE  /\ Len(result) < Len(reply)
         /\ At(1).part = "head" /\ At(1).packet = reply[Len(result) + 1]
         /\ InSync(At(1))
<1> DEFINE k == Len(result)
           f == First(Awaited)
           u == Units(reply, f)
<1>1. k \in Nat /\ Len(reply) \in Nat /\ Total \in Nat
  BY Lengths
<1>2. /\ sequence = (f + k) % SeqWrap /\ Total <= 2 * (Len(reply) - k)
      /\ \A i \in 1..Total : At(i) = u[2 * k + i]
  BY DEF Arriving
<1>3. f \in Nat /\ reply \in Seq(Packets)
  BY AwaitedIs DEF Typed
<1> HIDE DEF k, f
<1>4. k \in 0..Len(reply) - 1
  BY <1>1, <1>2
<1>5. u[2 * k + 1].part = "head" /\ u[2 * k + 1].seq = (f + k) % SeqWrap /\ u[2 * k + 1].packet = reply[k + 1]
  BY <1>3, <1>4, UnitsAre
<1> HIDE DEF u
<1>6. At(1) = u[2 * k + 1]
  BY <1>1, <1>2
<1>7. At(1).part = "head" /\ At(1).seq = sequence /\ At(1).packet = reply[k + 1]
  BY <1>2, <1>5, <1>6, Zenon
<1> QED BY <1>1, <1>4, <1>7 DEF InSync, k

(* A packet is only accepted on a connection nothing was left on; and then  *)
(* it is the next one of the reply.                                         *)
LEMMA Accepted ==
  ASSUME ConnInv, pc \in Reading, Total > 0, InSync(At(1))
  PROVE  ~dirty /\ Arriving
<1>1. ~dirty
  <2> SUFFICES ASSUME dirty PROVE FALSE
    OBVIOUS
  <2>1. Leftover
    BY DEF ConnInv
  <2>2. sequence = 1 /\ Stale(At(1))
    BY <2>1 DEF Leftover, Remnant, Reading
  <2> QED BY <2>2 DEF Stale, InSync
<1>2. Total # 0
  BY Lengths DEF ConnInv
<1> QED BY <1>1, <1>2 DEF ConnInv, Clean, Waiting, HungUp

LEMMA PacketRead ==
  ASSUME ConnInv, pc \in Reading, ReadPacket(pc)
  PROVE  /\ ~dirty /\ Arriving /\ open
         /\ Len(result) < Len(reply) /\ Packet = reply[Len(result) + 1] /\ Packet \in Packets
         /\ asked' = <<>> /\ reply' = reply /\ peer' = peer /\ stmt' = stmt /\ uses' = uses
         /\ inbuf' \in Seq(Unit) /\ wire' \in Seq(Unit) /\ sequence' \in 0..SeqWrap - 1
         /\ sequence' = (First(Awaited) + (Len(result) + 1)) % SeqWrap
         /\ Total' <= 2 * (Len(reply) - (Len(result) + 1))
         /\ peer => Total' = 2 * (Len(reply) - (Len(result) + 1))
         /\ \A i \in 1..Total' : At(i)' = Units(reply, First(Awaited))[2 * (Len(result) + 1) + i]
<1> DEFINE k == Len(result)
           f == First(Awaited)
           u == Units(reply, f)
<1>1. Typed /\ Place /\ open
  BY DEF ConnInv, Place
<1>2. /\ Total > 1 /\ Total' = Total - 2 /\ \A i \in 1..Total - 2 : At(i)' = At(i + 2)
      /\ inbuf' \in Seq(Unit) /\ wire' \in Seq(Unit)
      /\ Head(inbuf) = At(1) /\ InSync(At(1))
  BY <1>1, PacketTaken
<1>3. k \in Nat /\ Len(reply) \in Nat /\ Total \in Nat
  BY <1>1, Lengths
<1>4. ~dirty /\ Arriving
  BY <1>2, <1>3, Accepted
<1>5. k < Len(reply) /\ Packet = reply[k + 1]
  BY <1>1, <1>2, <1>3, <1>4, NextUnit DEF Packet
<1>6. Packet \in Packets
  BY <1>1, <1>3, <1>5 DEF Typed
<1>7. /\ sequence = (f + k) % SeqWrap /\ Total <= 2 * (Len(reply) - k)
      /\ peer => Total = 2 * (Len(reply) - k)
      /\ \A i \in 1..Total : At(i) = u[2 * k + i]
  BY <1>4 DEF Arriving
<1>8. f \in Nat
  BY <1>1, AwaitedIs
<1>9. /\ sequence' = Number(sequence) /\ asked' = asked /\ reply' = reply /\ peer' = peer
      /\ stmt' = stmt /\ uses' = uses
  BY DEF ReadPacket, mysql
<1> HIDE DEF k, f, u
<1>10. sequence' = (f + (k + 1)) % SeqWrap /\ sequence' \in 0..SeqWrap - 1
  <2>1. f + k \in Nat /\ f + k + 1 = f + (k + 1) /\ f + (k + 1) \in Nat
    BY <1>3, <1>8
  <2>2. Number((f + k) % SeqWrap) = (f + k + 1) % SeqWrap
    BY <2>1, NextSequence
  <2>3. (f + (k + 1)) % SeqWrap \in 0..SeqWrap - 1
    BY <2>1, InRange
  <2> QED BY <2>1, <2>2, <2>3, <1>7, <1>9, Zenon
<1>11. /\ Total' <= 2 * (Len(reply) - (k + 1))
       /\ peer => Total' = 2 * (Len(reply) - (k + 1))
  BY <1>2, <1>3, <1>7
<1>12. ASSUME NEW i \in 1..Total' PROVE At(i)' = u[2 * (k + 1) + i]
  <2>1. i \in 1..Total - 2 /\ i + 2 \in 1..Total /\ 2 * k + (i + 2) = 2 * (k + 1) + i
    BY <1>2, <1>3
  <2>2. At(i)' = At(i + 2) /\ At(i + 2) = u[2 * k + (i + 2)]
    BY <2>1, <1>2, <1>7
  <2> QED BY <2>1, <2>2, Zenon
<1>13. asked' = <<>>
  BY <1>4, <1>9 DEF Arriving
<1> QED BY <1>1, <1>2, <1>4, <1>5, <1>6, <1>9, <1>10, <1>11, <1>12, <1>13 DEF k, f, u

-----------------------------------------------------------------------------
(* A handler, or newConn, that ends. *)
LEMMA GivenUp ==
  ASSUME Typed, GiveUp
  PROVE  /\ pc' \in {"pooled", "pinned", "lost"} /\ todo' = <<>> /\ result' = <<>>
         /\ pc \in Handshake => pc' = "lost"
         /\ todo' \in Seq(Commands) /\ result' \in Seq(Packets)
<1>1. todo' = <<>> /\ result' = <<>>
  BY DEF GiveUp
<1>2. pc' \in {"pooled", "pinned", "lost"} /\ (pc \in Handshake => pc' = "lost")
  <2>1. stmt \in BOOLEAN
    BY DEF Typed
  <2>2. CASE pc \in Handshake
    BY <2>2 DEF GiveUp
  <2>3. CASE pc \notin Handshake /\ stmt
    BY <2>3 DEF GiveUp
  <2>4. CASE pc \notin Handshake /\ ~stmt
    BY <2>4 DEF GiveUp
  <2> QED BY <2>1, <2>2, <2>3, <2>4
<1> QED BY <1>1, <1>2

LEMMA Ended ==
  ASSUME Typed', pc' \in {"pooled", "pinned", "lost"}, todo' = <<>>, result' = <<>>,
         ~dirty' => pc' = "lost" \/ ~open' \/ Quiet',
         dirty' => Remnant'
  PROVE  ConnInv'
<1>1. Place'
  BY DEF Place, Handshake, Reading
<1>2. ~dirty' => Clean'
  BY DEF Clean, Reading
<1>3. dirty' => Leftover'
  BY DEF Leftover
<1> QED BY <1>1, <1>2, <1>3 DEF ConnInv

LEMMA NothingLeft == ASSUME Typed', Total' <= 0 PROVE Len(inbuf') = 0 /\ Len(wire') = 0 /\ Total' = 0
BY DEF Typed, Total

(* MySQL. *)
LEMMA AnswerKeeps == ASSUME ConnInv, Answer PROVE ConnInv'
<1>1. Typed /\ Place /\ asked # <<>> /\ Head(asked) \in Commands /\ asked \in Seq(Commands)
  BY DEF ConnInv, Typed, Answer
<1> DEFINE cmd == Head(asked)
           u == Units(reply', First(cmd))
<1>2. reply' \in Seq(Packets) /\ Shape(cmd, reply')
  BY <1>1, RepliesAre DEF Answer
<1>3. First(cmd) \in Nat
  BY <1>1 DEF First, Commands
<1>4. u \in Seq(Unit) /\ Len(u) = 2 * Len(reply')
  BY <1>2, <1>3, UnitsAre
<1>5. /\ wire' = wire \o u /\ inbuf' = inbuf /\ asked' = Tail(asked) /\ peer /\ peer' = peer
      /\ pc' = pc /\ todo' = todo /\ sequence' = sequence /\ result' = result /\ open' = open
      /\ stmt' = stmt /\ uses' = uses /\ dirty' = dirty
  BY DEF Answer, proxy
<1> HIDE DEF cmd, u
<1>6. /\ Total' = Total + Len(u) /\ wire' \in Seq(Unit)
      /\ \A i \in 1..Total : At(i)' = At(i)
      /\ \A i \in Total + 1..Total + Len(u) : At(i)' = u[i - Total]
  BY <1>1, <1>4, <1>5, Added
<1>7. Typed'
  BY <1>1, <1>2, <1>5, <1>6 DEF Typed
<1>8. Place'
  BY <1>1, <1>5 DEF Place
<1>9. ASSUME ~dirty PROVE Clean'
  <2>1. Clean
    BY <1>9 DEF ConnInv
  <2>2. CASE pc \notin Reading
    <3>1. pc = "lost" \/ ~open
      BY <1>1, <2>1, <2>2 DEF Clean, Quiet
    <3>2. pc \notin {"auth", "forward"}
      BY <1>1, <3>1 DEF Place
    <3> QED BY <1>5, <2>2, <3>1, <3>2 DEF Clean
  <2>3. CASE pc \in Reading
    <3>1. Waiting
      BY <1>1, <2>1, <2>3 DEF Clean, HungUp, Arriving
    <3>2. Awaited \in Commands /\ First(Awaited) \in Nat
      BY <1>1, <2>3, AwaitedIs
    <3>3. cmd = Awaited /\ asked' = <<>>
      BY <1>5, <3>1, <3>2 DEF Waiting, cmd
    <3>4. Awaited' = Awaited
      BY <1>5 DEF Awaited
    <3>5. Total = 0 /\ result = <<>> /\ Len(result) = 0 /\ sequence = First(Awaited) % SeqWrap
      BY <3>1 DEF Waiting
    <3>6. Total' = 2 * Len(reply') /\ Len(reply') \in Nat
      BY <1>2, <1>4, <1>6, <3>5
    <3>7. Reader(reply, Len(result))'
      <4>1. pc \notin {"columns", "rows", "params", "defs"}
        BY <1>1, <3>5 DEF Place
      <4> QED BY <1>5, <4>1 DEF Reader
    <3>8. ASSUME NEW i \in 1..Total' PROVE At(i)' = Units(reply', First(Awaited))[2 * 0 + i]
      <4>1. i \in Total + 1..Total + Len(u) /\ i - Total = i /\ 2 * 0 + i = i
        BY <1>4, <3>5, <3>6
      <4> QED BY <4>1, <1>6, <3>3 DEF u
    <3>9. Arriving'
      <4>1. First(Awaited) + 0 = First(Awaited)
        BY <3>2
      <4>2. /\ asked' = <<>> /\ Shape(Awaited, reply') /\ Len(result') = 0
            /\ sequence' = (First(Awaited) + 0) % SeqWrap
            /\ Total' = 2 * (Len(reply') - 0)
        BY <1>2, <1>5, <3>3, <3>5, <3>6, <4>1
      <4> QED BY <3>4, <3>6, <3>7, <3>8, <4>2 DEF Arriving
    <3>10. pc' \in Reading /\ pc' \notin {"auth", "forward"}
      BY <1>5, <2>3 DEF Reading
    <3> QED BY <3>9, <3>10 DEF Clean
  <2> QED BY <2>2, <2>3
<1>10. ASSUME dirty PROVE Leftover'
  <2>1. Leftover /\ Total \in Nat /\ Len(u) \in Nat
    BY <1>1, <1>4, <1>10, Lengths DEF ConnInv
  <2>2. Total > 0 /\ (Total > 1 \/ At(1).part = "body")
    BY <1>5, <2>1 DEF Leftover, Remnant
  <2>3. At(1)' = At(1) /\ (Total > 1 => At(2)' = At(2)) /\ Total' >= Total
    BY <1>6, <2>1, <2>2
  <2>4. Remnant'
    BY <2>1, <2>2, <2>3, <1>6 DEF Leftover, Remnant, Stale
  <2> QED BY <2>1, <2>4, <1>5 DEF Leftover
<1> QED BY <1>5, <1>7, <1>8, <1>9, <1>10 DEF ConnInv

LEMMA PeerClosesKeeps == ASSUME ConnInv, PeerCloses PROVE ConnInv'
<1>1. Typed /\ Place
  BY DEF ConnInv
<1>2. /\ Total' \in 0..Total /\ \A i \in 1..Total' : At(i)' = At(i)
      /\ wire' \in Seq(Unit)
  BY <1>1, Truncated
<1>3. /\ inbuf' = inbuf /\ asked' = asked /\ peer /\ ~peer' /\ peer' = FALSE /\ reply' = reply
      /\ pc' = pc /\ todo' = todo /\ sequence' = sequence /\ result' = result /\ open' = open
      /\ stmt' = stmt /\ uses' = uses /\ dirty' = dirty
  BY DEF PeerCloses, proxy
<1>4. Typed'
  BY <1>1, <1>2, <1>3 DEF Typed
<1>5. Place'
  BY <1>1, <1>3 DEF Place
<1>6. Awaited' = Awaited
  BY <1>3 DEF Awaited
<1>7. Total \in Nat /\ Len(result) \in Nat /\ Len(reply) \in Nat
  BY <1>1, Lengths
<1>8. ASSUME ~dirty PROVE Clean'
  <2>1. Clean
    BY <1>8 DEF ConnInv
  <2>2. CASE pc \in Reading
    <3>1. CASE Waiting
      BY <1>2, <1>3, <1>6, <2>2, <3>1 DEF Waiting, Clean, Reading
    <3>2. CASE Arriving
      <4>1. Reader(reply, Len(result))'
        BY <1>3, <3>2 DEF Arriving, Reader
      <4>2. /\ asked' = <<>> /\ Shape(Awaited', reply')
            /\ Len(result') <= Len(reply')
            /\ \A i \in 1..Len(result') : result'[i] = reply'[i]
            /\ sequence' = (First(Awaited') + Len(result')) % SeqWrap
        BY <1>3, <1>6, <3>2 DEF Arriving
      <4>3. Total' <= 2 * (Len(reply') - Len(result'))
        BY <1>2, <1>3, <1>7, <3>2 DEF Arriving
      <4>4. ASSUME NEW i \in 1..Total' PROVE At(i)' = Units(reply', First(Awaited'))[2 * Len(result') + i]
        <5>1. i \in 1..Total /\ At(i)' = At(i)
          BY <1>2, <1>7
        <5> QED BY <5>1, <1>3, <1>6, <3>2 DEF Arriving
      <4>5. Arriving'
        BY <1>3, <4>1, <4>2, <4>3, <4>4 DEF Arriving
      <4> QED BY <1>3, <2>2, <4>5 DEF Clean, Reading
    <3> QED BY <1>3, <2>1, <2>2, <3>1, <3>2 DEF Clean, HungUp
  <2>3. CASE pc \notin Reading
    <3>1. Quiet => Quiet'
      <4> SUFFICES ASSUME Quiet PROVE Quiet'
        OBVIOUS
      <4>1. Total' <= 0
        BY <1>2, <1>7 DEF Quiet, Total
      <4> QED BY <1>3, <1>4, <4>1, NothingLeft DEF Quiet
    <3> QED BY <1>3, <2>1, <2>3, <3>1 DEF Clean
  <2> QED BY <2>2, <2>3
<1>9. ASSUME dirty PROVE Leftover'
  <2>1. Leftover
    BY <1>9 DEF ConnInv
  <2>2. Total' > 0 => Total > 0 /\ At(1)' = At(1)
    BY <1>2, <1>7
  <2>3. Total' > 1 => Total > 1 /\ At(2)' = At(2)
    BY <1>2, <1>7
  <2>4. Remnant'
    <3>1. Remnant
      BY <2>1 DEF Leftover
    <3>2. Total' > 0 => Stale(At(1))'
      BY <2>2, <3>1 DEF Remnant, Stale
    <3>3. Total' > 1 => "body" \in {At(1).part, At(2).part}'
      BY <1>2, <1>7, <2>2, <2>3, <3>1 DEF Remnant
    <3> QED BY <1>3, <3>2, <3>3 DEF Remnant
  <2> QED BY <1>3, <2>1, <2>4 DEF Leftover
<1> QED BY <1>3, <1>4, <1>5, <1>8, <1>9 DEF ConnInv

(* Handlers begin, send their commands, and end. *)
LEMMA BeginKeeps == ASSUME ConnInv, NEW cmds \in Todos, Begin(cmds) PROVE ConnInv'
<1>1. Typed /\ Place
  BY DEF ConnInv
<1>2. /\ pc \in {"pooled", "pinned"} /\ pc' = "write" /\ todo' = cmds /\ uses < MaxUses /\ uses' = uses + 1
      /\ sequence' = sequence /\ result' = result /\ inbuf' = inbuf /\ open' = open /\ stmt' = stmt
      /\ wire' = wire /\ asked' = asked /\ peer' = peer /\ reply' = reply /\ dirty' = dirty
  BY DEF Begin, mysql
<1>3. Typed'
  <2>1. uses' \in 0..MaxUses
    BY <1>1, <1>2, MysqlConnAssumption DEF Typed
  <2>2. todo' \in Seq(Commands)
    BY <1>2, TodosAre
  <2> QED BY <1>1, <1>2, <2>1, <2>2 DEF Typed
<1>4. Place'
  <2>1. result' = <<>>
    BY <1>1, <1>2 DEF Place
  <2>2. todo' \in Todos
    BY <1>2
  <2> QED BY <1>2, <2>1, <2>2 DEF Place, Handshake, Reading, Todos
<1>5. ASSUME ~dirty PROVE Clean'
  <2>1. Clean
    BY <1>5 DEF ConnInv
  <2>2. open => Quiet
    BY <1>2, <2>1 DEF Clean, Reading
  <2>3. Quiet => Quiet'
    BY <1>2 DEF Quiet
  <2> QED BY <1>2, <2>2, <2>3 DEF Clean, Reading
<1>6. ASSUME dirty PROVE Leftover'
  <2>1. Remnant'
    <3>1. Remnant
      BY <1>6 DEF ConnInv, Leftover
    <3>2. \A i \in 1..Total : At(i)' = At(i)
      BY <1>2 DEF At
    <3> QED BY <1>1, <1>2, <3>1, <3>2, SameUnread, RemnantStays
  <2> QED BY <1>2, <2>1 DEF Leftover
<1> QED BY <1>2, <1>3, <1>4, <1>5, <1>6 DEF ConnInv

LEMMA WriteKeeps == ASSUME ConnInv, Write PROVE ConnInv'
<1>1. Typed /\ Place
  BY DEF ConnInv
<1>2. /\ pc = "write" /\ inbuf = <<>> /\ open /\ sequence' = Number(0)
      /\ asked' = IF peer THEN Append(asked, Head(todo)) ELSE asked
      /\ pc' = IF Head(todo) = "prepare" THEN "prepared" ELSE "header"
      /\ todo' = todo /\ result' = result /\ inbuf' = inbuf /\ open' = open /\ stmt' = stmt /\ wire' = wire
      /\ peer' = peer /\ uses' = uses /\ reply' = reply /\ dirty' = dirty
  BY DEF Write, Send
<1>3. todo \in Todos /\ result = <<>>
  BY <1>1, <1>2 DEF Place, Todos
<1>4. /\ Head(todo) = todo[1] /\ todo[1] \in Commands /\ First(todo[1]) = 1
      /\ todo[1] = "prepare" => todo = <<"prepare">>
      /\ todo = <<"prepare">> => todo[1] = "prepare"
  BY <1>3, TodosAre
<1>5. sequence' = 1 /\ sequence' \in 0..SeqWrap - 1
  BY <1>2, SmallNumbers, MysqlConnAssumption
<1>6. Typed'
  <2>1. asked' \in Seq(Commands)
    BY <1>1, <1>2, <1>4 DEF Typed
  <2> QED BY <1>1, <1>2, <1>5, <2>1 DEF Typed
<1>7. pc' \in {"header", "prepared"} /\ (pc' = "prepared" <=> todo = <<"prepare">>)
  BY <1>2, <1>4
<1>8. Place'
  <2>1. open' /\ todo' \in Todos /\ result' = <<>>
    BY <1>2, <1>3
  <2>2. pc' = "header" => todo' # <<"prepare">>
    BY <1>2, <1>7
  <2>3. pc' = "prepared" => todo' = <<"prepare">>
    BY <1>2, <1>7
  <2> QED BY <1>7, <2>1, <2>2, <2>3 DEF Place, Handshake, Reading
<1>9. Awaited' = todo[1]
  BY <1>2, <1>7 DEF Awaited
<1>10. ASSUME ~dirty PROVE Clean'
  <2>1. Quiet
    BY <1>2, <1>10 DEF ConnInv, Clean, Reading
  <2>2. Total' = 0 /\ result' = <<>>
    BY <1>2, <1>3, <2>1 DEF Quiet, Total
  <2>3. CASE peer
    <3>1. asked' = <<Awaited'>>
      BY <1>2, <1>4, <1>9, <2>1, <2>3 DEF Quiet
    <3>2. sequence' = First(Awaited') % SeqWrap
      BY <1>4, <1>5, <1>9, SmallNumbers
    <3>3. Waiting'
      BY <2>2, <3>1, <3>2 DEF Waiting
    <3> QED BY <1>7, <3>3 DEF Clean, Reading
  <2>4. CASE ~peer
    BY <1>2, <1>7, <2>1, <2>2, <2>4 DEF Clean, Reading, HungUp, Quiet
  <2> QED BY <2>3, <2>4
<1>11. ASSUME dirty PROVE Leftover'
  <2>1. Remnant'
    <3>1. Remnant
      BY <1>11 DEF ConnInv, Leftover
    <3>2. \A i \in 1..Total : At(i)' = At(i)
      BY <1>2 DEF At
    <3> QED BY <1>1, <1>2, <3>1, <3>2, SameUnread, RemnantStays
  <2> QED BY <1>5, <1>7, <2>1 DEF Leftover
<1> QED BY <1>2, <1>6, <1>8, <1>10, <1>11 DEF ConnInv

LEMMA WriteFailsKeeps == ASSUME ConnInv, WriteFails PROVE ConnInv'
<1>1. Typed /\ Place
  BY DEF ConnInv
<1>2. /\ pc = "write" /\ sequence' \in {sequence, 0}
      /\ inbuf' = inbuf /\ open' = open /\ stmt' = stmt /\ wire' = wire
      /\ asked' = asked /\ peer' = peer /\ reply' = reply /\ uses' = uses /\ dirty' = dirty
  BY DEF WriteFails, mysql
<1>3. /\ pc' \in {"pooled", "pinned", "lost"} /\ todo' = <<>> /\ result' = <<>>
      /\ todo' \in Seq(Commands) /\ result' \in Seq(Packets)
  BY <1>1, GivenUp DEF WriteFails
<1>4. Typed'
  <2>1. sequence' \in 0..SeqWrap - 1
    BY <1>1, <1>2, MysqlConnAssumption DEF Typed
  <2> QED BY <1>1, <1>2, <1>3, <2>1 DEF Typed
<1>5. ~dirty' => pc' = "lost" \/ ~open' \/ Quiet'
  <2>1. ~dirty => ~open \/ Quiet
    BY <1>2 DEF ConnInv, Clean, Reading
  <2> QED BY <1>2, <2>1 DEF Quiet
<1>6. dirty' => Remnant'
  <2> SUFFICES ASSUME dirty PROVE Remnant'
    BY <1>2
  <2>1. Remnant
    BY DEF ConnInv, Leftover
  <2>2. \A i \in 1..Total : At(i)' = At(i)
    BY <1>2 DEF At
  <2> QED BY <1>1, <1>2, <2>1, <2>2, SameUnread, RemnantStays
<1> QED BY <1>3, <1>4, <1>5, <1>6, Ended

LEMMA WriteAuthKeeps == ASSUME ConnInv, WriteAuth PROVE ConnInv'
<1>1. Typed /\ Place
  BY DEF ConnInv
<1>2. /\ pc = "auth" /\ sequence' = Number(sequence)
      /\ asked' = IF peer THEN Append(asked, "auth") ELSE asked
      /\ pc' = "welcome"
      /\ todo' = todo /\ result' = result /\ inbuf' = inbuf /\ open' = open /\ stmt' = stmt /\ wire' = wire
      /\ peer' = peer /\ uses' = uses /\ reply' = reply /\ dirty' = dirty
  BY DEF WriteAuth
<1>3. ~dirty /\ Clean
  BY <1>2 DEF ConnInv, Leftover
<1>4. Quiet /\ sequence = 1 /\ result = <<>> /\ todo = <<>> /\ open
  BY <1>1, <1>2, <1>3 DEF Clean, Place, Handshake, Reading
<1>5. Awaited' = "auth" /\ First(Awaited') = 2
  BY <1>2 DEF Awaited, First
<1>6. sequence' = 2 % SeqWrap /\ sequence' \in 0..SeqWrap - 1
  BY <1>2, <1>4, SmallNumbers, InRange
<1>7. Typed'
  <2>1. asked' \in Seq(Commands)
    BY <1>1, <1>2 DEF Typed, Commands
  <2> QED BY <1>1, <1>2, <1>6, <2>1 DEF Typed
<1>8. Place'
  BY <1>2, <1>4 DEF Place, Handshake
<1>9. Total' = 0
  BY <1>2, <1>4 DEF Quiet, Total
<1>10. Waiting' \/ HungUp'
  <2>1. CASE peer
    <3>1. asked' = <<Awaited'>>
      BY <1>2, <1>4, <1>5, <2>1 DEF Quiet
    <3> QED BY <1>2, <1>4, <1>5, <1>6, <1>9, <3>1 DEF Waiting
  <2>2. CASE ~peer
    BY <1>2, <1>4, <1>9, <2>2 DEF HungUp, Quiet
  <2> QED BY <2>1, <2>2
<1>11. Clean'
  BY <1>2, <1>10 DEF Clean, Reading
<1> QED BY <1>2, <1>3, <1>7, <1>8, <1>11 DEF ConnInv

LEMMA WriteAuthFailsKeeps == ASSUME ConnInv, WriteAuthFails PROVE ConnInv'
<1>1. Typed
  BY DEF ConnInv
<1>2. /\ pc = "auth" /\ ~open' /\ open' = FALSE
      /\ sequence' = sequence /\ inbuf' = inbuf /\ stmt' = stmt /\ wire' = wire
      /\ asked' = asked /\ peer' = peer /\ reply' = reply /\ uses' = uses /\ dirty' = dirty
  BY DEF WriteAuthFails, mysql
<1>3. /\ pc' \in {"pooled", "pinned", "lost"} /\ todo' = <<>> /\ result' = <<>>
      /\ todo' \in Seq(Commands) /\ result' \in Seq(Packets)
  BY <1>1, GivenUp DEF WriteAuthFails
<1>4. Typed'
  BY <1>1, <1>2, <1>3 DEF Typed
<1>5. ~dirty
  BY <1>2 DEF ConnInv, Leftover
<1> QED BY <1>2, <1>3, <1>4, <1>5, Ended

LEMMA ForwardKeeps == ASSUME ConnInv, Forward PROVE ConnInv'
<1>1. Typed /\ Place
  BY DEF ConnInv
<1>2. /\ pc = "forward" /\ pc' \in {"pinned", "pooled"} /\ stmt' = (stmt \/ todo = <<"prepare">>)
      /\ todo' = <<>> /\ result' = <<>>
      /\ sequence' = sequence /\ inbuf' = inbuf /\ open' = open /\ wire' = wire
      /\ asked' = asked /\ peer' = peer /\ reply' = reply /\ uses' = uses /\ dirty' = dirty
  BY DEF Forward, mysql
<1>3. ~dirty /\ Clean /\ open
  BY <1>1, <1>2 DEF ConnInv, Leftover, Place
<1>4. Quiet
  BY <1>2, <1>3 DEF Clean, Reading
<1>5. Quiet'
  BY <1>2, <1>4 DEF Quiet
<1>6. Typed'
  BY <1>1, <1>2 DEF Typed
<1> QED BY <1>2, <1>3, <1>5, <1>6, Ended

LEMMA StmtCloseKeeps == ASSUME ConnInv, StmtClose PROVE ConnInv'
<1>1. Typed /\ Place
  BY DEF ConnInv
<1>2. /\ pc = "pinned" /\ pc' = "lost" /\ todo' = todo /\ result' = result
      /\ sequence' = sequence /\ inbuf' = inbuf /\ open' = open /\ wire' = wire /\ stmt' = stmt
      /\ asked' = asked /\ peer' = peer /\ reply' = reply /\ uses' = uses /\ dirty' = dirty
  BY DEF StmtClose, mysql
<1>3. todo' = <<>> /\ result' = <<>>
  BY <1>1, <1>2 DEF Place
<1>4. Typed'
  BY <1>1, <1>2 DEF Typed
<1>5. dirty' => Remnant'
  <2> SUFFICES ASSUME dirty PROVE Remnant'
    BY <1>2
  <2>1. Remnant
    BY DEF ConnInv, Leftover
  <2>2. \A i \in 1..Total : At(i)' = At(i)
    BY <1>2 DEF At
  <2> QED BY <1>1, <1>2, <2>1, <2>2, SameUnread, RemnantStays
<1> QED BY <1>2, <1>3, <1>4, <1>5, Ended

(* Reading that moves or loses units. *)
LEMMA FillKeeps == ASSUME ConnInv, Fill PROVE ConnInv'
<1>1. Typed /\ Place /\ pc \in Reading
  BY DEF ConnInv, Fill
<1>2. /\ Total' = Total /\ \A i \in 1..Total : At(i)' = At(i)
      /\ inbuf' \in Seq(Unit) /\ wire' \in Seq(Unit)
  BY <1>1, FillMoves
<1>3. /\ asked' = asked /\ peer' = peer /\ reply' = reply
      /\ pc' = pc /\ todo' = todo /\ sequence' = sequence /\ result' = result /\ open' = open
      /\ stmt' = stmt /\ uses' = uses /\ dirty' = dirty
  BY DEF Fill, proxy, mysql
<1>4. Typed'
  BY <1>1, <1>2, <1>3 DEF Typed
<1>5. Place'
  BY <1>1, <1>3 DEF Place
<1>6. Awaited' = Awaited
  BY <1>3 DEF Awaited
<1>7. ASSUME ~dirty PROVE Clean'
  <2>1. CASE Waiting
    BY <1>1, <1>2, <1>3, <1>6, <2>1 DEF Waiting, Clean, Reading
  <2>2. CASE HungUp
    BY <1>1, <1>2, <1>3, <2>2 DEF HungUp, Clean, Reading
  <2>3. CASE Arriving
    <3>1. Reader(reply, Len(result))'
      BY <1>3, <2>3 DEF Arriving, Reader
    <3>2. \A i \in 1..Total' : At(i)' = Units(reply', First(Awaited'))[2 * Len(result') + i]
      BY <1>2, <1>3, <1>6, <2>3 DEF Arriving
    <3>3. Arriving'
      BY <1>2, <1>3, <1>6, <2>3, <3>1, <3>2 DEF Arriving
    <3> QED BY <1>1, <1>3, <3>3 DEF Clean, Reading
  <2> QED BY <1>1, <1>7, <2>1, <2>2, <2>3 DEF ConnInv, Clean
<1>8. ASSUME dirty PROVE Leftover'
  <2>1. Leftover
    BY <1>8 DEF ConnInv
  <2>2. Remnant'
    BY <1>1, <1>2, <1>3, <2>1, RemnantStays DEF Leftover
  <2> QED BY <1>3, <2>1, <2>2 DEF Leftover
<1> QED BY <1>3, <1>4, <1>5, <1>7, <1>8 DEF ConnInv

LEMMA ReadFailsKeeps == ASSUME ConnInv, ReadFails PROVE ConnInv'
<1>1. Typed /\ Place
  BY DEF ConnInv
<1>2. /\ pc \in Reading /\ wire = <<>> /\ ~peer /\ inbuf' = <<>> /\ ~open' /\ open' = FALSE
      /\ stmt' = stmt /\ wire' = wire
      /\ asked' = asked /\ peer' = peer /\ reply' = reply /\ uses' = uses /\ dirty' = dirty
  BY DEF ReadFails, mysql
<1>3. sequence' \in 0..SeqWrap - 1
  <2>1. sequence' \in {sequence, Number(sequence)}
    BY DEF ReadFails
  <2>2. sequence \in Nat /\ sequence + 1 \in Nat /\ sequence \in 0..SeqWrap - 1
    BY <1>1, MysqlConnAssumption DEF Typed
  <2>3. Number(sequence) \in 0..SeqWrap - 1
    BY <2>2, InRange DEF Number
  <2> QED BY <2>1, <2>2, <2>3
<1>4. /\ pc' \in {"pooled", "pinned", "lost"} /\ todo' = <<>> /\ result' = <<>>
      /\ todo' \in Seq(Commands) /\ result' \in Seq(Packets)
  BY <1>1, GivenUp DEF ReadFails
<1>5. Typed'
  BY <1>1, <1>2, <1>3, <1>4 DEF Typed
<1>6. Remnant'
  <2>1. Total' = 0
    BY <1>2 DEF Total
  <2> QED BY <1>2, <2>1 DEF Remnant
<1> QED BY <1>2, <1>4, <1>5, <1>6, Ended

LEMMA OutOfSyncKeeps == ASSUME ConnInv, OutOfSync PROVE ConnInv' /\ dirty
<1>1. Typed /\ Place
  BY DEF ConnInv
<1>2. /\ pc \in Reading /\ inbuf # <<>> /\ ~InSync(Head(inbuf))
      /\ inbuf' = IF Head(inbuf).part = "head" THEN Tail(inbuf) ELSE inbuf
      /\ dirty' = TRUE /\ open' = (open /\ pc \notin Handshake)
      /\ sequence' = sequence /\ stmt' = stmt /\ wire' = wire
      /\ asked' = asked /\ peer' = peer /\ reply' = reply /\ uses' = uses
  BY DEF OutOfSync, mysql
<1>3. Total > 0 /\ Head(inbuf) = At(1) /\ Total \in Nat
  <2>1. Len(inbuf) > 0 /\ Len(inbuf) \in Nat /\ Len(wire) \in Nat /\ Total \in Nat
    BY <1>1, <1>2, Lengths DEF Typed
  <2> QED BY <2>1 DEF Total, At
<1>4. dirty
  <2> SUFFICES ASSUME ~dirty PROVE FALSE
    OBVIOUS
  <2>1. Arriving
    BY <1>2, <1>3 DEF ConnInv, Clean, Waiting, HungUp
  <2> QED BY <1>1, <1>2, <1>3, <2>1, NextUnit
<1>5. Remnant
  BY <1>4 DEF ConnInv, Leftover
<1>6. Remnant' /\ inbuf' \in Seq(Unit)
  <2>1. CASE At(1).part = "head"
    <3>1. inbuf' = Tail(inbuf)
      BY <1>2, <1>3, <2>1
    <3>2. /\ Total' = Total - 1 /\ \A i \in 1..Total - 1 : At(i)' = At(i + 1)
          /\ inbuf' \in Seq(Unit)
      BY <1>1, <1>2, <3>1, HeadDropped
    <3>3. Total' > 0 => Total > 1 /\ At(1)' = At(2)
      BY <1>3, <3>2
    <3>4. Total > 1 => At(2).part = "body"
      BY <1>5, <2>1 DEF Remnant
    <3>5. peer => Total > 1
      BY <1>5, <2>1 DEF Remnant
    <3>6. Total' > 0 => At(1)'.part = "body"
      BY <3>3, <3>4
    <3>7. peer' => Total' > 0
      BY <1>2, <1>3, <3>2, <3>5
    <3> QED BY <1>3, <3>2, <3>6, <3>7 DEF Remnant, Stale
  <2>2. CASE At(1).part # "head"
    <3>1. inbuf' = inbuf
      BY <1>2, <1>3, <2>2
    <3>2. \A i \in 1..Total : At(i)' = At(i)
      BY <1>2, <3>1 DEF At
    <3>3. inbuf' \in Seq(Unit)
      BY <1>1, <3>1 DEF Typed
    <3> QED BY <1>1, <1>2, <1>5, <3>1, <3>2, <3>3, SameUnread, RemnantStays
  <2> QED BY <2>1, <2>2
<1>7. /\ pc' \in {"pooled", "pinned", "lost"} /\ todo' = <<>> /\ result' = <<>>
      /\ todo' \in Seq(Commands) /\ result' \in Seq(Packets)
  BY <1>1, GivenUp DEF OutOfSync
<1>8. Typed'
  BY <1>1, <1>2, <1>6, <1>7 DEF Typed
<1> QED BY <1>2, <1>4, <1>6, <1>7, <1>8, Ended

(* A packet that was the last one of its reply, and one that was not. *)
LEMMA ReplyEnds ==
  ASSUME ConnInv, pc \in Reading, ReadPacket(pc), Len(reply) = Len(result) + 1
  PROVE  Len(inbuf') = 0 /\ Len(wire') = 0 /\ Quiet'
<1>1. /\ asked' = <<>> /\ Total' <= 2 * (Len(reply) - (Len(result) + 1))
      /\ inbuf' \in Seq(Unit) /\ wire' \in Seq(Unit)
  BY PacketRead
<1>2. Len(reply) \in Nat /\ Len(result) \in Nat
  BY Lengths DEF ConnInv
<1>3. Total' <= 0
  BY <1>1, <1>2
<1>4. Len(inbuf') = 0 /\ Len(wire') = 0
  BY <1>1, <1>3 DEF Total
<1> QED BY <1>1, <1>4 DEF Quiet

LEMMA Kept ==
  ASSUME ConnInv, pc \in Reading, pc \notin {"greeting", "welcome"}, ReadPacket(pc), UNCHANGED open,
         NEW next \in {"columns", "rows", "params", "defs", "forward"}, Keep(next),
         next \in {"columns", "rows"} => todo = <<"query">>,
         next \in {"params", "defs"} => todo = <<"prepare">>,
         next = "forward" => Len(reply) = Len(result) + 1,
         ASSUME pc' = next, Len(result') = Len(result) + 1, reply' = reply PROVE Reader(reply, Len(result))'
  PROVE  ConnInv' /\ UNCHANGED dirty
<1> DEFINE k == Len(result)
           f == First(Awaited)
<1>1. Typed /\ Place
  BY DEF ConnInv
<1>2. /\ ~dirty /\ Arriving /\ open
      /\ k < Len(reply) /\ Packet = reply[k + 1] /\ Packet \in Packets
      /\ asked' = <<>> /\ reply' = reply /\ peer' = peer /\ stmt' = stmt /\ uses' = uses
      /\ inbuf' \in Seq(Unit) /\ wire' \in Seq(Unit) /\ sequence' \in 0..SeqWrap - 1
      /\ sequence' = (f + (k + 1)) % SeqWrap
      /\ Total' <= 2 * (Len(reply) - (k + 1))
      /\ peer => Total' = 2 * (Len(reply) - (k + 1))
      /\ \A i \in 1..Total' : At(i)' = Units(reply, f)[2 * (k + 1) + i]
  BY PacketRead
<1>3. /\ pc' = next /\ result' = Append(result, Packet) /\ todo' = todo /\ dirty' = dirty /\ open' = open
  BY DEF Keep
<1>4. k \in Nat /\ Len(reply) \in Nat /\ result \in Seq(Packets) /\ reply \in Seq(Packets)
  BY <1>1, Lengths DEF Typed
<1>5. /\ result' \in Seq(Packets) /\ Len(result') = k + 1 /\ result' # <<>>
      /\ result'[k + 1] = Packet /\ \A i \in 1..k : result'[i] = result[i]
  <2>1. result \in Seq(Packets) /\ Packet \in Packets
    BY <1>2, <1>4
  <2>2. /\ Append(result, Packet) \in Seq(Packets) /\ Len(Append(result, Packet)) = k + 1
        /\ Append(result, Packet) # <<>> /\ Append(result, Packet)[k + 1] = Packet
        /\ \A i \in 1..k : Append(result, Packet)[i] = result[i]
    BY <2>1, AppendProperties DEF k
  <2> QED BY <1>3, <2>2, Zenon
<1>6. \A i \in 1..Len(result') : result'[i] = reply[i]
  <2>1. \A i \in 1..k : result[i] = reply[i]
    BY <1>2 DEF Arriving
  <2> SUFFICES ASSUME NEW i \in 1..k + 1 PROVE result'[i] = reply[i]
    BY <1>5
  <2>2. CASE i = k + 1
    BY <1>2, <1>5, <2>2
  <2>3. CASE i # k + 1
    <3>1. i \in 1..k
      BY <1>4, <2>3
    <3> QED BY <3>1, <1>5, <2>1
  <2> QED BY <2>2, <2>3
<1>7. Typed'
  BY <1>1, <1>2, <1>3, <1>5 DEF Typed
<1>8. Place'
  <2>1. pc' \in {"columns", "rows", "params", "defs", "forward"} /\ open'
    BY <1>2, <1>3
  <2>2. pc' \in {"columns", "rows"} => todo' = <<"query">>
    BY <1>3
  <2>3. pc' \in {"params", "defs"} => todo' = <<"prepare">>
    BY <1>3
  <2>4. todo' \in Todos \cup {<<>>}
    BY <1>1, <1>3 DEF Place
  <2> QED BY <2>1, <2>2, <2>3, <2>4, <1>5 DEF Place, Handshake, Reading
<1>9. ASSUME next = "forward" PROVE ConnInv'
  <2>1. Quiet'
    BY <1>9, ReplyEnds
  <2>2. result' = reply'
    BY <1>2, <1>4, <1>5, <1>6, <1>9, SeqEqual
  <2> QED BY <1>2, <1>3, <1>7, <1>8, <1>9, <2>1, <2>2 DEF ConnInv, Clean, Reading
<1>10. ASSUME next # "forward" PROVE ConnInv'
  <2>1. Awaited' = Awaited
    BY <1>1, <1>3, <1>10, AwaitedIs DEF Awaited
  <2>2. Reader(reply, Len(result))'
    BY <1>2, <1>3, <1>5
  <2>3. Arriving'
    <3>1. Shape(Awaited', reply')
      BY <1>2, <2>1 DEF Arriving
    <3>2. Len(result') <= Len(reply')
      BY <1>2, <1>4, <1>5
    <3>3. sequence' = (First(Awaited') + Len(result')) % SeqWrap
      BY <1>2, <1>5, <2>1
    <3>4. /\ Total' <= 2 * (Len(reply') - Len(result'))
          /\ peer' => Total' = 2 * (Len(reply') - Len(result'))
          /\ \A i \in 1..Total' : At(i)' = Units(reply', First(Awaited'))[2 * Len(result') + i]
      BY <1>2, <1>5, <2>1
    <3> QED BY <1>2, <1>6, <2>2, <3>1, <3>2, <3>3, <3>4 DEF Arriving
  <2>4. Clean'
    BY <1>3, <1>10, <2>3 DEF Clean, Reading
  <2> QED BY <1>2, <1>3, <1>7, <1>8, <2>4 DEF ConnInv
<1> QED BY <1>3, <1>9, <1>10

(* A handler that ends with the last packet of the reply. *)
LEMMA EndsWithReply ==
  ASSUME ConnInv, pc \in Reading, ReadPacket(pc), Len(reply) = Len(result) + 1,
         GiveUp, UNCHANGED dirty, open' \in BOOLEAN
  PROVE  ConnInv' /\ UNCHANGED dirty
<1>1. /\ asked' = <<>> /\ reply' = reply /\ peer' = peer /\ stmt' = stmt /\ uses' = uses /\ ~dirty
      /\ inbuf' \in Seq(Unit) /\ wire' \in Seq(Unit) /\ sequence' \in 0..SeqWrap - 1
  BY PacketRead
<1>2. Typed
  BY DEF ConnInv
<1>3. /\ pc' \in {"pooled", "pinned", "lost"} /\ todo' = <<>> /\ result' = <<>>
      /\ todo' \in Seq(Commands) /\ result' \in Seq(Packets)
  BY <1>2, GivenUp
<1>4. Typed'
  BY <1>1, <1>2, <1>3 DEF Typed
<1>5. Quiet'
  BY ReplyEnds
<1> QED BY <1>1, <1>3, <1>4, <1>5, Ended

-----------------------------------------------------------------------------
(* The readers, each in its place in the reply. *)
LEMMA At0 == ASSUME ConnInv, pc \in {"greeting", "welcome", "header", "prepared"}, ReadPacket(pc)
             PROVE  /\ Len(result) = 0 /\ result = <<>> /\ Packet = reply[1] /\ Len(reply) > 0 /\ Len(reply) \in Nat
                    /\ Shape(Awaited, reply) /\ Packet \in Packets
                    /\ Packet.kind \in Leads(Awaited)
                    /\ Packet.kind \notin {"count", "def", "prepared"} => Len(reply) = Len(result) + 1
<1>1. pc \in Reading /\ Typed /\ Place
  BY DEF Reading, ConnInv
<1>2. result = <<>> /\ Len(result) = 0
  BY <1>1 DEF Place
<1>3. Arriving /\ Packet = reply[Len(result) + 1] /\ Packet \in Packets /\ Len(reply) \in Nat
  BY <1>1, PacketRead, Lengths
<1>4. Packet = reply[1] /\ 0 + 1 = 1
  BY <1>2, <1>3
<1>5. Shape(Awaited, reply)
  BY <1>3 DEF Arriving
<1>6. Len(reply) > 0 /\ reply[1].kind \in Leads(Awaited)
  BY <1>5 DEF Shape
<1>7. Packet.kind \notin {"count", "def", "prepared"} => Len(reply) = 1
  BY <1>4, <1>5 DEF Shape
<1> QED BY <1>2, <1>3, <1>4, <1>5, <1>6, <1>7

LEMMA ReadInitPacketKeeps == ASSUME ConnInv, ReadInitPacket PROVE ConnInv' /\ UNCHANGED dirty
<1>1. pc = "greeting" /\ pc \in Reading /\ ReadPacket(pc) /\ NewConnGoesOn("greeting", "auth")
  BY DEF ReadInitPacket, ReadPacket, Reading
<1>2. Typed /\ Place
  BY DEF ConnInv
<1>3. Awaited = "connect" /\ First(Awaited) = 0
  BY <1>1, <1>2, AwaitedIs
<1>4. /\ Len(result) = 0 /\ Packet \in Packets /\ Packet.kind \in Leads(Awaited)
      /\ Packet.kind \notin {"count", "def", "prepared"} => Len(reply) = Len(result) + 1
  BY <1>1, At0
<1>5. Len(reply) = Len(result) + 1
  BY <1>3, <1>4 DEF Leads
<1>6. CASE Packet.kind = "greeting"
  <2>1. /\ pc' = "auth" /\ todo' = todo /\ result' = result /\ open' = open /\ dirty' = dirty
    BY <1>1, <1>6 DEF NewConnGoesOn
  <2>2. /\ asked' = <<>> /\ reply' = reply /\ peer' = peer /\ stmt' = stmt /\ uses' = uses /\ ~dirty /\ open
        /\ inbuf' \in Seq(Unit) /\ wire' \in Seq(Unit) /\ sequence' \in 0..SeqWrap - 1
        /\ sequence' = (First(Awaited) + (Len(result) + 1)) % SeqWrap
    BY <1>1, PacketRead
  <2>3. sequence' = 1
    <3>1. First(Awaited) + (Len(result) + 1) = 1
      BY <1>3, <1>4
    <3> QED BY <2>2, <3>1, SmallNumbers
  <2>4. Typed'
    BY <1>2, <2>1, <2>2 DEF Typed
  <2>5. Place'
    BY <1>1, <1>2, <2>1, <2>2 DEF Place, Handshake, Reading
  <2>6. Quiet'
    BY <1>1, <1>5, ReplyEnds
  <2> QED BY <2>1, <2>2, <2>3, <2>4, <2>5, <2>6 DEF ConnInv, Clean, Reading
<1>7. CASE Packet.kind # "greeting"
  BY <1>1, <1>5, <1>7, EndsWithReply DEF NewConnGoesOn
<1> QED BY <1>6, <1>7

LEMMA ReadInitOKKeeps == ASSUME ConnInv, ReadInitOK PROVE ConnInv' /\ UNCHANGED dirty
<1>1. pc = "welcome" /\ pc \in Reading /\ ReadPacket(pc) /\ NewConnGoesOn("ok", "pooled")
  BY DEF ReadInitOK, ReadPacket, Reading
<1>2. Typed /\ Place
  BY DEF ConnInv
<1>3. Awaited = "auth"
  BY <1>1, <1>2, AwaitedIs
<1>4. /\ Len(result) = 0 /\ result = <<>> /\ Packet.kind \in Leads(Awaited)
      /\ Packet.kind \notin {"count", "def", "prepared"} => Len(reply) = Len(result) + 1
  BY <1>1, At0
<1>5. Len(reply) = Len(result) + 1
  BY <1>3, <1>4 DEF Leads
<1>6. CASE Packet.kind = "ok"
  <2>1. /\ pc' = "pooled" /\ todo' = todo /\ result' = result /\ open' = open /\ dirty' = dirty
    BY <1>1, <1>6 DEF NewConnGoesOn
  <2>2. /\ asked' = <<>> /\ reply' = reply /\ peer' = peer /\ stmt' = stmt /\ uses' = uses /\ ~dirty
        /\ inbuf' \in Seq(Unit) /\ wire' \in Seq(Unit) /\ sequence' \in 0..SeqWrap - 1
    BY <1>1, PacketRead
  <2>3. Typed'
    BY <1>2, <2>1, <2>2 DEF Typed
  <2>4. todo' = <<>> /\ result' = <<>>
    <3>1. todo = <<>>
      <4>1. pc \in {"pooled", "pinned", "lost"} \cup Handshake
        BY <1>1 DEF Handshake
      <4> QED BY <1>2, <4>1 DEF Place
    <3> QED BY <1>4, <2>1, <3>1
  <2>5. Quiet'
    BY <1>1, <1>5, ReplyEnds
  <2> QED BY <2>1, <2>2, <2>3, <2>4, <2>5, Ended
<1>7. CASE Packet.kind # "ok"
  BY <1>1, <1>5, <1>7, EndsWithReply DEF NewConnGoesOn
<1> QED BY <1>6, <1>7

LEMMA ReadHeaderKeeps == ASSUME ConnInv, ReadHeader PROVE ConnInv' /\ (UNCHANGED dirty \/ todo = <<"fields">>)
<1>1. pc = "header" /\ pc \in Reading /\ ReadPacket(pc) /\ open' = open
  BY DEF ReadHeader, Read, ReadPacket, Reading
<1>2. Typed /\ Place
  BY DEF ConnInv
<1>3. Awaited \in {"use", "query", "fields", "u"} /\ Len(todo) \in {1, 2} /\ Awaited = todo[1] /\ First(Awaited) = 1
  BY <1>1, <1>2, AwaitedIs
<1>4. todo \in Todos
  BY <1>1, <1>2 DEF Place, Todos
<1>5. /\ Len(result) = 0 /\ result = <<>> /\ Packet = reply[1] /\ Len(reply) > 0 /\ Len(reply) \in Nat
      /\ Shape(Awaited, reply) /\ Packet \in Packets
      /\ Packet.kind \in Leads(Awaited)
      /\ Packet.kind \notin {"count", "def", "prepared"} => Len(reply) = Len(result) + 1
  BY <1>1, At0
<1>6. /\ ~dirty /\ Arriving /\ open
      /\ asked' = <<>> /\ reply' = reply /\ peer' = peer /\ stmt' = stmt /\ uses' = uses
      /\ inbuf' \in Seq(Unit) /\ wire' \in Seq(Unit) /\ sequence' \in 0..SeqWrap - 1
      /\ Total' <= 2 * (Len(reply) - (Len(result) + 1))
      /\ peer => Total' = 2 * (Len(reply) - (Len(result) + 1))
      /\ \A i \in 1..Total' : At(i)' = Units(reply, First(Awaited))[2 * (Len(result) + 1) + i]
  BY <1>1, PacketRead
<1>7. CASE Packet.kind = "ok" /\ Len(todo) = 2
  <2>1. pc' = "write" /\ todo' = Tail(todo) /\ result' = result /\ dirty' = dirty
    BY <1>7 DEF ReadHeader
  <2>2. todo' \in Todos
    BY <1>4, <1>7, <2>1, TodosAre
  <2>3. Typed'
    <3>1. todo' \in Seq(Commands)
      BY <2>2, TodosAre
    <3> QED BY <1>1, <1>2, <1>6, <2>1, <3>1 DEF Typed
  <2>4. Place'
    BY <1>5, <2>1, <2>2 DEF Place, Handshake, Reading, Todos
  <2>5. Quiet'
    BY <1>1, <1>5, <1>7, ReplyEnds
  <2> QED BY <1>6, <2>1, <2>3, <2>4, <2>5 DEF ConnInv, Clean, Reading
<1>8. CASE Packet.kind = "ok" /\ Len(todo) = 1
  <2>1. Keep("forward")
    BY <1>8 DEF ReadHeader
  <2>2. Len(reply) = Len(result) + 1
    BY <1>5, <1>8
  <2>3. ASSUME pc' = "forward" PROVE Reader(reply, Len(result))'
    BY <2>3 DEF Reader
  <2> QED BY <1>1, <2>1, <2>2, <2>3, Kept
<1>9. CASE Packet.kind = "err"
  <2>1. GiveUp /\ UNCHANGED dirty /\ open' \in BOOLEAN
    BY <1>1, <1>2, <1>9 DEF ReadHeader, Typed
  <2> QED BY <1>1, <1>5, <1>9, <2>1, EndsWithReply
<1>10. CASE Packet.kind = "count"
  <2>1. Keep("columns")
    BY <1>10 DEF ReadHeader
  <2>2. todo = <<"query">>
    <3>1. Awaited = "query"
      BY <1>3, <1>5, <1>10 DEF Leads
    <3> QED BY <1>3, <1>4, <3>1, TodosAre
  <2>3. ASSUME pc' = "columns", Len(result') = Len(result) + 1, reply' = reply
        PROVE  Reader(reply, Len(result))'
    <3>1. reply[1].columns > 0 /\ reply[1].columns \in Nat
      BY <1>5, <1>10, MysqlConnAssumption DEF Shape, Rows, Packets
    <3>2. Len(result') <= reply[1].columns + 1
      BY <1>5, <2>3, <3>1
    <3> QED BY <1>5, <1>10, <2>3, <3>2 DEF Reader
  <2> QED BY <1>1, <2>1, <2>2, <2>3, Kept
<1>11. CASE Packet.kind \notin {"ok", "err", "count"}
  <2>1. GiveUp /\ dirty' = TRUE
    BY <1>11 DEF ReadHeader, Abandon
  <2>2. /\ pc' \in {"pooled", "pinned", "lost"} /\ todo' = <<>> /\ result' = <<>>
        /\ todo' \in Seq(Commands) /\ result' \in Seq(Packets)
    BY <1>2, <2>1, GivenUp
  <2>3. Typed'
    BY <1>1, <1>2, <1>6, <2>1, <2>2 DEF Typed
  <2>4. Len(reply) > 1
    BY <1>3, <1>5, <1>11 DEF Shape, Leads
  <2> DEFINE u == Units(reply, 1)
  <2>5. reply \in Seq(Packets) /\ 1 \in 0..Len(reply) - 1
    BY <1>2, <1>5, <2>4 DEF Typed
  <2>6. u[3].seq = 2 % SeqWrap /\ u[4].part = "body"
    <3>1. u[2 * 1 + 1].seq = (1 + 1) % SeqWrap /\ u[2 * 1 + 2].part = "body"
      <4>1. 1 \in Nat
        OBVIOUS
      <4> QED BY <2>5, <4>1, UnitsAre, Zenon
    <3>2. 2 * 1 + 1 = 3 /\ 2 * 1 + 2 = 4 /\ 1 + 1 = 2
      OBVIOUS
    <3> QED BY <3>1, <3>2
  <2> HIDE DEF u
  <2>7. Total' \in Nat
    BY <2>3 DEF Typed, Total
  <2>8. ASSUME NEW i \in 1..Total' PROVE At(i)' = u[2 + i]
    <3>1. 2 * (Len(result) + 1) + i = 2 + i
      BY <1>5, <2>7
    <3> QED BY <1>3, <1>6, <3>1 DEF u
  <2>9. Total' > 0 => Stale(At(1))'
    <3> SUFFICES ASSUME Total' > 0 PROVE Stale(At(1))'
      OBVIOUS
    <3>1. 1 \in 1..Total' /\ 2 + 1 = 3
      BY <2>7
    <3>2. At(1)' = u[3]
      BY <2>8, <3>1
    <3> QED BY <2>6, <3>2, SmallNumbers DEF Stale
  <2>10. Total' > 1 => At(2)'.part = "body"
    <3> SUFFICES ASSUME Total' > 1 PROVE At(2)'.part = "body"
      OBVIOUS
    <3>1. 2 \in 1..Total' /\ 2 + 2 = 4
      BY <2>7
    <3>2. At(2)' = u[4]
      BY <2>8, <3>1
    <3> QED BY <2>6, <3>2
  <2>11. peer' => Total' > 1
    BY <1>5, <1>6, <2>4
  <2>12. Remnant'
    BY <2>7, <2>9, <2>10, <2>11 DEF Remnant
  <2>13. todo = <<"fields">>
    <3>1. Awaited = "fields"
      BY <1>3, <1>5, <1>11 DEF Leads
    <3> QED BY <1>3, <1>4, <3>1, TodosAre
  <2> QED BY <2>1, <2>2, <2>3, <2>12, <2>13, Ended
<1> QED BY <1>3, <1>7, <1>8, <1>9, <1>10, <1>11

(* Where the definitions, the rows and the reply end. *)
LEMMA InReply ==
  ASSUME ConnInv, pc \in {"columns", "rows", "params", "defs"}, ReadPacket(pc)
  PROVE  /\ pc \in Reading /\ Len(result) \in Nat /\ Len(reply) \in Nat /\ Len(result) > 0
         /\ Len(result) < Len(reply)
         /\ Packet = reply[Len(result) + 1] /\ result[1] = reply[1] /\ reply[1] \in Packets
         /\ Shape(Awaited, reply) /\ Reader(reply, Len(result))
         /\ pc \in {"columns", "rows"} => todo = <<"query">> /\ Rows(reply) /\ reply[1].columns \in Nat
         /\ pc \in {"params", "defs"} => /\ todo = <<"prepare">> /\ Params(reply)
                                         /\ reply[1].params \in Nat /\ reply[1].columns \in Nat
<1>1. pc \in Reading /\ Typed /\ Place
  BY DEF Reading, ConnInv
<1>2. Len(result) \in Nat /\ Len(reply) \in Nat /\ result \in Seq(Packets) /\ reply \in Seq(Packets)
  BY <1>1, Lengths DEF Typed
<1>3. Len(result) > 0
  BY <1>1, <1>2 DEF Place
<1>4. /\ Len(result) < Len(reply) /\ Packet = reply[Len(result) + 1] /\ Arriving
  BY <1>1, PacketRead
<1>5. Shape(Awaited, reply) /\ Reader(reply, Len(result)) /\ result[1] = reply[1]
  BY <1>2, <1>3, <1>4 DEF Arriving
<1>6. reply[1] \in Packets
  BY <1>2, <1>3, <1>4
<1>7. reply[1].params \in Nat /\ reply[1].columns \in Nat
  BY <1>6, MysqlConnAssumption DEF Packets
<1>8. pc \in {"columns", "rows"} => todo = <<"query">> /\ Rows(reply)
  BY <1>1, <1>5 DEF Place, Reader, Shape
<1>9. pc \in {"params", "defs"} => todo = <<"prepare">> /\ Params(reply)
  BY <1>1, <1>5 DEF Place, Reader, Shape
<1> QED BY <1>1, <1>2, <1>3, <1>4, <1>5, <1>6, <1>7, <1>8, <1>9

LEMMA InDefs ==
  ASSUME NEW r, NEW b \in Nat, NEW n \in Nat, n > 0, DefsAt(r, b, n), NEW k \in b..b + n
  PROVE  r[k + 1].kind = "eof" <=> k = b + n
<1>1. CASE k = b + n
  BY <1>1 DEF DefsAt
<1>2. CASE k # b + n
  <2>1. PICK i \in 1..n : k + 1 = b + i
    BY <1>2
  <2>2. r[k + 1].kind = "def"
    BY <2>1 DEF DefsAt
  <2> QED BY <1>2, <2>2
<1> QED BY <1>1, <1>2

LEMMA ReadColumnsKeeps == ASSUME ConnInv, ReadColumns PROVE ConnInv' /\ UNCHANGED dirty
<1> DEFINE k == Len(result)
           c == reply[1].columns
<1>1. pc = "columns" /\ pc \in Reading /\ ReadPacket(pc) /\ open' = open
  BY DEF ReadColumns, Read, ReadPacket, Reading
<1>2. /\ k \in Nat /\ k > 0 /\ Packet = reply[k + 1] /\ result[1] = reply[1]
      /\ Reader(reply, k) /\ todo = <<"query">> /\ Rows(reply) /\ c \in Nat
  BY <1>1, InReply
<1>3. k \in 1..1 + c /\ c > 0 /\ DefsAt(reply, 1, c) /\ reply[1].kind = "count"
  BY <1>1, <1>2 DEF Reader, Rows
<1> HIDE DEF k, c
<1>4. Packet.kind = "eof" <=> k = 1 + c
  <2>1. reply[k + 1].kind = "eof" <=> k = 1 + c
    BY <1>2, <1>3, InDefs
  <2> QED BY <1>2, <2>1
<1>5. CASE Packet.kind # "eof"
  <2>1. Keep("columns")
    BY <1>5 DEF ReadColumns
  <2>2. ASSUME pc' = "columns", Len(result') = k + 1, reply' = reply PROVE Reader(reply, Len(result))'
    <3>1. k + 1 <= c + 1
      BY <1>2, <1>3, <1>4, <1>5
    <3> QED BY <2>2, <1>3, <3>1 DEF Reader, c
  <2> QED BY <1>1, <1>2, <2>1, <2>2, Kept DEF k
<1>6. CASE Packet.kind = "eof"
  <2>1. Keep("rows")
    <3>1. Len(result) = result[1].columns + 1
      BY <1>2, <1>3, <1>4, <1>6 DEF k, c
    <3> QED BY <1>6, <3>1 DEF ReadColumns
  <2>2. ASSUME pc' = "rows", Len(result') = k + 1, reply' = reply PROVE Reader(reply, Len(result))'
    <3>1. k + 1 = c + 2 /\ k + 1 >= c + 2
      BY <1>2, <1>3, <1>4, <1>6
    <3> QED BY <2>2, <1>2, <1>3, <3>1 DEF Reader, c
  <2> QED BY <1>1, <1>2, <2>1, <2>2, Kept DEF k
<1> QED BY <1>5, <1>6

LEMMA ReadRowsKeeps == ASSUME ConnInv, ReadRows PROVE ConnInv' /\ UNCHANGED dirty
<1> DEFINE k == Len(result)
           c == reply[1].columns
<1>1. pc = "rows" /\ pc \in Reading /\ ReadPacket(pc) /\ open' = open
  BY DEF ReadRows, Read, ReadPacket, Reading
<1>2. /\ k \in Nat /\ Len(reply) \in Nat /\ k < Len(reply) /\ Packet = reply[k + 1]
      /\ Reader(reply, k) /\ todo = <<"query">> /\ Rows(reply) /\ c \in Nat
  BY <1>1, InReply
<1>3. k >= c + 2 /\ reply[1].kind = "count" /\ \A i \in c + 3..Len(reply) - 1 : reply[i].kind = "row"
  BY <1>1, <1>2 DEF Reader, Rows
<1> HIDE DEF k, c
<1>4. CASE Packet.kind = "eof"
  <2>1. Keep("forward")
    BY <1>4 DEF ReadRows, UntilEOF
  <2>2. Len(reply) = k + 1
    <3> SUFFICES ASSUME k + 1 # Len(reply) PROVE FALSE
      BY <1>2
    <3>1. k + 1 \in c + 3..Len(reply) - 1
      BY <1>2, <1>3
    <3>2. reply[k + 1].kind = "row"
      BY <1>3, <3>1
    <3> QED BY <1>2, <1>4, <3>2
  <2>3. ASSUME pc' = "forward" PROVE Reader(reply, Len(result))'
    BY <2>3 DEF Reader
  <2> QED BY <1>1, <2>1, <2>2, <2>3, Kept DEF k
<1>5. CASE Packet.kind # "eof"
  <2>1. Keep("rows")
    BY <1>5 DEF ReadRows, UntilEOF
  <2>2. ASSUME pc' = "rows", Len(result') = k + 1, reply' = reply PROVE Reader(reply, Len(result))'
    <3>1. k + 1 >= c + 2
      BY <1>2, <1>3
    <3>2. reply'[k + 1].kind # "eof"
      BY <1>2, <1>5, <2>2
    <3> QED BY <2>2, <1>3, <3>1, <3>2 DEF Reader, c
  <2> QED BY <1>1, <1>2, <2>1, <2>2, Kept DEF k
<1> QED BY <1>4, <1>5

LEMMA ReadPreparedKeeps == ASSUME ConnInv, ReadPrepared PROVE ConnInv' /\ UNCHANGED dirty
<1>1. pc = "prepared" /\ pc \in Reading /\ ReadPacket(pc) /\ open' = open
  BY DEF ReadPrepared, Read, ReadPacket, Reading
<1>2. Typed /\ Place
  BY DEF ConnInv
<1>3. Awaited = "prepare" /\ todo = <<"prepare">>
  BY <1>1, <1>2, AwaitedIs DEF Place
<1>4. /\ Len(result) = 0 /\ Packet = reply[1] /\ Packet \in Packets
      /\ Shape(Awaited, reply) /\ Packet.kind \in Leads(Awaited)
      /\ Packet.kind \notin {"count", "def", "prepared"} => Len(reply) = Len(result) + 1
  BY <1>1, At0
<1>5. Packet.kind \in {"prepared", "err"}
  BY <1>3, <1>4 DEF Leads
<1>6. CASE Packet.kind = "err"
  <2>1. GiveUp /\ UNCHANGED dirty /\ open' \in BOOLEAN
    BY <1>1, <1>2, <1>6 DEF ReadPrepared, Typed
  <2> QED BY <1>1, <1>4, <1>6, <2>1, EndsWithReply
<1>7. CASE Packet.kind = "prepared"
  <2>1. Params(reply) /\ Packet.params \in Nat /\ Packet.columns \in Nat /\ 0 + 1 = 1
    BY <1>4, <1>7, MysqlConnAssumption DEF Shape, Packets
  <2>2. Keep(IF Packet.params > 0 THEN "params" ELSE Columns(Packet))
    BY <1>7 DEF ReadPrepared
  <2>3. CASE Packet.params > 0
    <3>1. ASSUME pc' = "params", Len(result') = Len(result) + 1, reply' = reply
          PROVE  Reader(reply, Len(result))'
      <4>1. Len(result') = 1 /\ 1 <= Packet.params + 1
        BY <1>4, <2>1, <3>1
      <4> QED BY <1>4, <1>7, <2>3, <3>1, <4>1 DEF Reader
    <3> QED BY <1>1, <1>3, <2>2, <2>3, <3>1, Kept
  <2>4. CASE Packet.params = 0 /\ Packet.columns > 0
    <3>1. Keep("defs")
      BY <2>2, <2>4 DEF Columns
    <3>2. ASSUME pc' = "defs", Len(result') = Len(result) + 1, reply' = reply
          PROVE  Reader(reply, Len(result))'
      <4>1. Len(result') = 1 /\ 1 \in 1..1 + Packet.columns /\ DefsEnd(1, Packet.params) = 1
        BY <1>4, <2>1, <2>4, <3>2 DEF DefsEnd
      <4> QED BY <1>4, <1>7, <2>4, <3>2, <4>1 DEF Reader
    <3> QED BY <1>1, <1>3, <3>1, <3>2, Kept
  <2>5. CASE Packet.params = 0 /\ ~(Packet.columns > 0)
    <3>1. Keep("forward")
      BY <2>2, <2>5 DEF Columns
    <3>2. Len(reply) = Len(result) + 1
      <4>1. Packet.columns = 0
        BY <2>1, <2>5
      <4>2. Len(reply) = 1
        BY <1>4, <2>1, <2>5, <4>1 DEF Params, DefsEnd
      <4> QED BY <1>4, <2>1, <4>2
    <3>3. ASSUME pc' = "forward" PROVE Reader(reply, Len(result))'
      BY <3>3 DEF Reader
    <3> QED BY <1>1, <3>1, <3>2, <3>3, Kept
  <2> QED BY <2>1, <2>3, <2>4, <2>5
<1> QED BY <1>5, <1>6, <1>7

LEMMA ReadParamsKeeps == ASSUME ConnInv, ReadParams PROVE ConnInv' /\ UNCHANGED dirty
<1> DEFINE k == Len(result)
           p == reply[1].params
           c == reply[1].columns
<1>1. pc = "params" /\ pc \in Reading /\ ReadPacket(pc) /\ open' = open
  BY DEF ReadParams, Read, ReadPacket, Reading
<1>2. /\ k \in Nat /\ k > 0 /\ Packet = reply[k + 1] /\ result[1] = reply[1]
      /\ Reader(reply, k) /\ todo = <<"prepare">> /\ Params(reply) /\ p \in Nat /\ c \in Nat
  BY <1>1, InReply
<1>3. /\ k \in 1..1 + p /\ p > 0 /\ DefsAt(reply, 1, p) /\ reply[1].kind = "prepared"
      /\ Len(reply) = DefsEnd(DefsEnd(1, p), c)
  BY <1>1, <1>2 DEF Reader, Params
<1> HIDE DEF k
<1>4. Packet.kind = "eof" <=> k = 1 + p
  <2>1. reply[k + 1].kind = "eof" <=> k = 1 + p
    BY <1>2, <1>3, InDefs
  <2> QED BY <1>2, <2>1
<1>5. CASE Packet.kind # "eof"
  <2>1. Keep("params")
    BY <1>5 DEF ReadParams, UntilEOF
  <2>2. ASSUME pc' = "params", Len(result') = k + 1, reply' = reply PROVE Reader(reply, Len(result))'
    <3>1. k + 1 <= p + 1
      BY <1>2, <1>3, <1>4, <1>5
    <3> QED BY <2>2, <1>3, <3>1 DEF Reader
  <2> QED BY <1>1, <1>2, <2>1, <2>2, Kept DEF k
<1>6. CASE Packet.kind = "eof" /\ c > 0
  <2>1. Keep("defs")
    BY <1>2, <1>6 DEF ReadParams, UntilEOF, Columns
  <2>2. ASSUME pc' = "defs", Len(result') = k + 1, reply' = reply PROVE Reader(reply, Len(result))'
    <3>1. DefsEnd(1, p) = k + 1 /\ k + 1 \in k + 1..k + 1 + c
      BY <1>2, <1>3, <1>4, <1>6 DEF DefsEnd
    <3> QED BY <2>2, <1>3, <1>6, <3>1 DEF Reader
  <2> QED BY <1>1, <1>2, <2>1, <2>2, Kept DEF k
<1>7. CASE Packet.kind = "eof" /\ ~(c > 0)
  <2>1. Keep("forward")
    BY <1>2, <1>7 DEF ReadParams, UntilEOF, Columns
  <2>2. Len(reply) = k + 1
    BY <1>2, <1>3, <1>4, <1>7 DEF DefsEnd
  <2>3. ASSUME pc' = "forward" PROVE Reader(reply, Len(result))'
    BY <2>3 DEF Reader
  <2> QED BY <1>1, <2>1, <2>2, <2>3, Kept DEF k
<1> QED BY <1>5, <1>6, <1>7

LEMMA ReadDefsKeeps == ASSUME ConnInv, ReadDefs PROVE ConnInv' /\ UNCHANGED dirty
<1> DEFINE k == Len(result)
           b == DefsEnd(1, reply[1].params)
           c == reply[1].columns
<1>1. pc = "defs" /\ pc \in Reading /\ ReadPacket(pc) /\ open' = open
  BY DEF ReadDefs, Read, ReadPacket, Reading
<1>2. /\ k \in Nat /\ Packet = reply[k + 1] /\ Reader(reply, k) /\ todo = <<"prepare">>
      /\ Params(reply) /\ reply[1].params \in Nat /\ c \in Nat
  BY <1>1, InReply
<1>3. b \in Nat
  BY <1>2 DEF DefsEnd
<1>4. k \in b..b + c /\ c > 0 /\ reply[1].kind = "prepared" /\ DefsAt(reply, b, c)
  BY <1>1, <1>2 DEF Reader, Params
<1>5. Len(reply) = b + c + 1
  <2>1. Len(reply) = DefsEnd(b, c)
    BY <1>2 DEF Params
  <2> HIDE DEF b
  <2> QED BY <1>4, <2>1, <1>2 DEF DefsEnd
<1> HIDE DEF k, b, c
<1>6. Packet.kind = "eof" <=> k = b + c
  <2>1. reply[k + 1].kind = "eof" <=> k = b + c
    BY <1>2, <1>3, <1>4, InDefs
  <2> QED BY <1>2, <2>1
<1>7. CASE Packet.kind # "eof"
  <2>1. Keep("defs")
    BY <1>7 DEF ReadDefs, UntilEOF
  <2>2. ASSUME pc' = "defs", Len(result') = k + 1, reply' = reply PROVE Reader(reply, Len(result))'
    <3>1. k + 1 \in b..b + c
      BY <1>2, <1>3, <1>4, <1>6, <1>7
    <3> QED BY <2>2, <1>4, <3>1 DEF Reader, b, c
  <2> QED BY <1>1, <1>2, <2>1, <2>2, Kept DEF k
<1>8. CASE Packet.kind = "eof"
  <2>1. Keep("forward")
    BY <1>8 DEF ReadDefs, UntilEOF
  <2>2. Len(reply) = k + 1
    BY <1>5, <1>6, <1>8
  <2>3. ASSUME pc' = "forward" PROVE Reader(reply, Len(result))'
    BY <2>3 DEF Reader
  <2> QED BY <1>1, <2>1, <2>2, <2>3, Kept DEF k
<1> QED BY <1>7, <1>8

-----------------------------------------------------------------------------
LEMMA InitConn == Init => ConnInv
<1> SUFFICES ASSUME Init PROVE ConnInv
  OBVIOUS
<1>1. /\ pc = "greeting" /\ todo = <<>> /\ sequence = 0 /\ result = <<>>
      /\ inbuf = <<>> /\ open /\ open = TRUE /\ stmt = FALSE
      /\ wire = <<>> /\ asked = <<"connect">> /\ peer = TRUE
      /\ uses = 0 /\ reply = <<>> /\ ~dirty /\ dirty = FALSE
  BY DEF Init
<1>2. Typed
  <2>1. <<>> \in Seq(Commands) /\ <<>> \in Seq(Packets) /\ <<>> \in Seq(Unit)
    OBVIOUS
  <2>2. <<"connect">> \in Seq(Commands)
    BY DEF Commands
  <2>3. 0 \in 0..SeqWrap - 1 /\ 0 \in 0..MaxUses
    BY MysqlConnAssumption
  <2>4. sequence \in 0..SeqWrap - 1 /\ uses \in 0..MaxUses
    BY <1>1, <2>3
  <2>5. /\ todo \in Seq(Commands) /\ asked \in Seq(Commands) /\ result \in Seq(Packets)
        /\ reply \in Seq(Packets) /\ inbuf \in Seq(Unit) /\ wire \in Seq(Unit)
    BY <1>1, <2>1, <2>2, Zenon
  <2> QED BY <1>1, <2>4, <2>5 DEF Typed
<1>3. Place
  BY <1>1 DEF Place, Handshake
<1>4. Awaited = "connect" /\ First(Awaited) = 0
  BY <1>1 DEF Awaited, First
<1>5. Waiting
  BY <1>1, <1>4, SmallNumbers DEF Waiting, Total
<1>6. Clean
  BY <1>1, <1>5 DEF Clean, Reading
<1> QED BY <1>1, <1>2, <1>3, <1>6 DEF ConnInv

LEMMA UnchangedConn == ASSUME ConnInv, UNCHANGED vars PROVE ConnInv'
<1>1. /\ pc' = pc /\ todo' = todo /\ sequence' = sequence /\ result' = result /\ inbuf' = inbuf
      /\ open' = open /\ stmt' = stmt /\ wire' = wire /\ asked' = asked /\ peer' = peer
      /\ uses' = uses /\ reply' = reply /\ dirty' = dirty
  BY DEF vars, proxy, mysql
<1> QED BY <1>1 DEF ConnInv, Typed, Place, Clean, Leftover, Remnant, Stale, Waiting, HungUp, Arriving,
                    Reader, Awaited, Quiet, Total, At

LEMMA BeginsKeep ==
  ASSUME ConnInv, BeginQuery \/ BeginFieldList \/ BeginUseDB \/ BeginPrepare \/ BeginExec
  PROVE  ConnInv' /\ UNCHANGED <<result, dirty>>
<1>1. PICK cmds \in Todos : Begin(cmds)
  BY DEF BeginQuery, BeginFieldList, BeginUseDB, BeginPrepare, BeginExec, Todos
<1> QED BY <1>1, BeginKeeps DEF Begin

(* The invariant, and what a step does to the result that is kept and to    *)
(* the mark of a leftover.                                                  *)
LEMMA ConnStep ==
  ASSUME ConnInv, [Next]_vars
  PROVE  /\ ConnInv'
         /\ dirty => result' \in {<<>>, result}
         /\ dirty' # dirty => todo = <<"fields">>
<1>1. CASE Answer
  BY <1>1, AnswerKeeps DEF Answer, proxy
<1>2. CASE PeerCloses
  BY <1>2, PeerClosesKeeps DEF PeerCloses, proxy
<1>3. CASE BeginQuery \/ BeginFieldList \/ BeginUseDB \/ BeginPrepare \/ BeginExec
  BY <1>3, BeginsKeep
<1>4. CASE Write
  BY <1>4, WriteKeeps DEF Write, Send
<1>5. CASE WriteFails
  BY <1>5, WriteFailsKeeps DEF WriteFails, GiveUp
<1>6. CASE WriteAuth
  BY <1>6, WriteAuthKeeps DEF WriteAuth
<1>7. CASE WriteAuthFails
  BY <1>7, WriteAuthFailsKeeps DEF WriteAuthFails, GiveUp
<1>8. CASE Fill
  BY <1>8, FillKeeps DEF Fill, proxy
<1>9. CASE ReadFails
  BY <1>9, ReadFailsKeeps DEF ReadFails, GiveUp
<1>10. CASE OutOfSync
  <2>1. dirty' = TRUE /\ result' = <<>>
    BY <1>10 DEF OutOfSync, GiveUp
  <2>2. ConnInv' /\ dirty /\ dirty \in BOOLEAN
    BY <1>10, OutOfSyncKeeps DEF ConnInv, Typed
  <2> QED BY <2>1, <2>2
<1>11. ASSUME NEW from \in Reading, ReadPacket(from)
       PROVE  ~dirty
  <2>1. pc \in Reading /\ ReadPacket(pc)
    BY <1>11 DEF ReadPacket
  <2> QED BY <2>1, PacketRead
<1>12. CASE ReadInitPacket
  BY <1>11, <1>12, ReadInitPacketKeeps DEF ReadInitPacket, Reading
<1>13. CASE ReadInitOK
  BY <1>11, <1>13, ReadInitOKKeeps DEF ReadInitOK, Reading
<1>14. CASE ReadHeader
  BY <1>11, <1>14, ReadHeaderKeeps DEF ReadHeader, Read, Reading
<1>15. CASE ReadColumns
  BY <1>11, <1>15, ReadColumnsKeeps DEF ReadColumns, Read, Reading
<1>16. CASE ReadRows
  BY <1>11, <1>16, ReadRowsKeeps DEF ReadRows, Read, Reading
<1>17. CASE ReadPrepared
  BY <1>11, <1>17, ReadPreparedKeeps DEF ReadPrepared, Read, Reading
<1>18. CASE ReadParams
  BY <1>11, <1>18, ReadParamsKeeps DEF ReadParams, Read, Reading
<1>19. CASE ReadDefs
  BY <1>11, <1>19, ReadDefsKeeps DEF ReadDefs, Read, Reading
<1>20. CASE Forward
  BY <1>20, ForwardKeeps DEF Forward
<1>21. CASE StmtClose
  BY <1>21, StmtCloseKeeps DEF StmtClose
<1>22. CASE UNCHANGED vars
  BY <1>22, UnchangedConn DEF vars, proxy
<1> QED BY <1>1, <1>2, <1>3, <1>4, <1>5, <1>6, <1>7, <1>8, <1>9, <1>10, <1>12, <1>13, <1>14, <1>15,
           <1>16, <1>17, <1>18, <1>19, <1>20, <1>21, <1>22 DEF Next, Handler

LEMMA ConnAlways == Spec => []ConnInv
<1>1. ConnInv /\ [Next]_vars => ConnInv'
  BY ConnStep
<1> QED BY InitConn, <1>1, PTL DEF Spec

-----------------------------------------------------------------------------
(* The fields of mysqlConn and its buffer have their types. *)
THEOREM ConnTypes == Spec => []TypeOK
<1>1. ConnInv => TypeOK
  <2> SUFFICES ASSUME ConnInv PROVE TypeOK
    OBVIOUS
  <2>1. Typed /\ Place /\ (~dirty => Clean) /\ (dirty => Leftover)
    BY DEF ConnInv
  <2>2. ASSUME NEW S, NEW s \in Seq(S) PROVE Range(s) \subseteq S
    BY DEF Range
  <2>3. Range(todo) \subseteq Commands /\ Range(asked) \subseteq Commands
    BY <2>1, <2>2 DEF Typed
  <2>4. Range(result) \subseteq Packets /\ Range(reply) \subseteq Packets
    BY <2>1, <2>2 DEF Typed
  <2>5. Range(inbuf) \subseteq Unit /\ Range(wire) \subseteq Unit
    BY <2>1, <2>2 DEF Typed
  <2>6. Len(todo) <= 2
    <3>1. CASE todo \in Todos
      <4>1. Len(todo) \in {1, 2}
        BY <3>1, TodosAre, Zenon
      <4>2. \A n \in {1, 2} : n <= 2
        OBVIOUS
      <4> QED BY <4>1, <4>2, Zenon
    <3>2. CASE todo = <<>>
      <4>1. Len(<<>>) = 0
        OBVIOUS
      <4> QED BY <3>2, <4>1
    <3> QED BY <2>1, <3>1, <3>2 DEF Place
  <2>7. /\ sequence \in 0..SeqWrap-1 /\ uses \in 0..MaxUses
        /\ open \in BOOLEAN /\ stmt \in BOOLEAN /\ peer \in BOOLEAN /\ dirty \in BOOLEAN
    BY <2>1 DEF Typed
  <2>8. pc \in {"pooled", "pinned", "lost", "write", "forward"} \cup Reading \cup Handshake
    BY <2>1 DEF Place
  <2> QED BY <2>3, <2>4, <2>5, <2>6, <2>7, <2>8 DEF TypeOK, Commands, Packets
<1> QED BY <1>1, ConnAlways, PTL

(* What a handler forwards is the whole reply to its own command. *)
THEOREM WholeReplies == Spec => []ForwardedWhole
<1>1. ConnInv => ForwardedWhole
  BY DEF ConnInv, Clean, Leftover, ForwardedWhole
<1> QED BY <1>1, ConnAlways, PTL

(* A connection nothing was left on is pooled, or pinned to its statement,  *)
(* with nothing unread and nothing unanswered.                              *)
THEOREM PooledQuiet == Spec => []LeavesNothing
<1>1. ConnInv => LeavesNothing
  <2> SUFFICES ASSUME ConnInv, pc \in {"pooled", "pinned"}, open, ~dirty
               PROVE  inbuf = <<>> /\ wire = <<>> /\ asked = <<>>
    BY DEF LeavesNothing
  <2>1. Quiet
    BY DEF ConnInv, Clean, Reading
  <2>2. inbuf \in Seq(Unit) /\ wire \in Seq(Unit)
    BY DEF ConnInv, Typed
  <2> QED BY <2>1, <2>2 DEF Quiet
<1> QED BY <1>1, ConnAlways, PTL

(* The numbers of the packets are the expected ones, over any number of     *)
(* commands and over the wrap-around: ErrPktSync is raised by leftovers     *)
(* alone.                                                                   *)
THEOREM NumbersInStep == Spec => []InStep
<1>1. ConnInv => InStep
  <2> SUFFICES ASSUME ConnInv, pc \in Reading, inbuf # <<>>, ~dirty
               PROVE  InSync(Head(inbuf))
    BY DEF InStep
  <2>1. Typed /\ Place
    BY DEF ConnInv
  <2>2. Total > 0 /\ Total # 0 /\ Head(inbuf) = At(1)
    <3>1. Len(inbuf) > 0 /\ Len(inbuf) \in Nat /\ Len(wire) \in Nat
      BY <2>1 DEF Typed
    <3> QED BY <3>1 DEF Total, At
  <2>3. Arriving
    BY <2>2 DEF ConnInv, Clean, Waiting, HungUp
  <2> QED BY <2>1, <2>2, <2>3, NextUnit
<1> QED BY <1>1, ConnAlways, PTL

(* No handler accepts a packet on a connection that holds a leftover, and   *)
(* nobody repairs it (readPacket, putConn).                                 *)
THEOREM LeftoverStays == Spec => NeverRepaired
<1>1. ConnInv /\ [Next]_vars => [dirty => result' \in {<<>>, result}]_vars
  BY ConnStep
<1> QED BY <1>1, ConnAlways, PTL DEF Spec, NeverRepaired

(* Of all that use a connection, only a field list leaves a part of a reply *)
(* on it (handleFieldList): newConn, queries, prepares and the useDB that   *)
(* MySQL refuses read to the end of what they get, or close the connection. *)
OnlyFieldLists == [][dirty' # dirty => todo = <<"fields">>]_vars

(* Leftovers come from handleFieldList alone (OnlyFieldLists). *)
THEOREM LeftByFieldLists == Spec => OnlyFieldLists
<1>1. ConnInv /\ [Next]_vars => [dirty' # dirty => todo = <<"fields">>]_vars
  BY ConnStep
<1> QED BY <1>1, ConnAlways, PTL DEF Spec, OnlyFieldLists

-----------------------------------------------------------------------------
(* How far newConn, or a handler, is from its end, whatever MySQL answers:  *)
(* the stage, then the commands without an answer, then what has not been   *)
(* read, then what has not been received.                                   *)
Stage ==
  CASE pc = "greeting" -> 4 [] pc = "auth" -> 3 [] pc = "welcome" -> 2
    [] pc = "write" -> 2 * Len(todo) + 1
    [] pc \in {"header", "columns", "rows", "prepared", "params", "defs"} -> 2 * Len(todo)
    [] pc = "forward" -> 1
    [] pc \in {"pooled", "pinned", "lost"} -> 0

Work == <<Stage, Len(asked), Total, Len(wire)>>

(* In the lexicographic order. *)
Nearer == \E i \in 1..4 : Work'[i] < Work[i] /\ \A j \in 1..i - 1 : Work'[j] = Work[j]

LEMMA StageIs ==
  ASSUME Typed, Place
  PROVE  /\ Stage \in Nat /\ Len(todo) \in Nat
         /\ pc \in Reading \cup {"auth", "write"} => Stage > 1
         /\ pc = "forward" => Stage = 1
         /\ pc \in {"pooled", "pinned", "lost"} => Stage = 0
<1>1. Len(todo) \in Nat /\ Len(todo) + Len(todo) = 2 * Len(todo)
  BY DEF Typed
<1>2. pc \in {"write", "header", "columns", "rows", "prepared", "params", "defs"} => Len(todo) > 0
  <2>1. pc \in {"write", "header", "columns", "rows", "prepared", "params", "defs"} => todo \in Todos
    BY DEF Place, Todos
  <2>2. \A t \in Todos : Len(t) \in {1, 2}
    BY TodosAre
  <2>3. \A n \in {1, 2} : n > 0
    OBVIOUS
  <2> QED BY <2>1, <2>2, <2>3, Zenon
<1>3. pc \in {"pooled", "pinned", "lost", "write", "forward"} \cup Reading \cup Handshake
  BY DEF Place
<1> DEFINE l == Len(todo)
<1>4. Stage = CASE pc = "greeting" -> 4 [] pc = "auth" -> 3 [] pc = "welcome" -> 2
                [] pc = "write" -> 2 * l + 1
                [] pc \in {"header", "columns", "rows", "prepared", "params", "defs"} -> 2 * l
                [] pc = "forward" -> 1
                [] pc \in {"pooled", "pinned", "lost"} -> 0
  BY DEF Stage
<1>5. l \in Nat
  BY <1>1
<1> HIDE DEF l
<1> QED BY <1>1, <1>2, <1>3, <1>4, <1>5 DEF Reading, Handshake, l

LEMMA Sooner == ASSUME Stage' < Stage PROVE Nearer
BY DEF Nearer, Work

LEMMA NearerIs ==
  ASSUME Stage' = Stage
  PROVE  /\ Len(asked') < Len(asked) => Nearer
         /\ Len(asked') = Len(asked) /\ Total' < Total => Nearer
         /\ Len(asked') = Len(asked) /\ Total' = Total /\ Len(wire') < Len(wire) => Nearer
<1>1. ASSUME Len(asked') < Len(asked) PROVE Nearer
  BY <1>1 DEF Nearer, Work
<1>2. ASSUME Len(asked') = Len(asked), Total' < Total PROVE Nearer
  BY <1>2 DEF Nearer, Work
<1>3. ASSUME Len(asked') = Len(asked), Total' = Total, Len(wire') < Len(wire) PROVE Nearer
  BY <1>3 DEF Nearer, Work
<1> QED BY <1>1, <1>2, <1>3

(* A step that ends the handler, and one that reads a packet and goes on.   *)
LEMMA NearerByEnd == ASSUME Typed, Place, GiveUp, pc \in Reading \cup {"auth", "write"} PROVE Nearer
<1>1. Stage > 1 /\ Stage \in Nat
  BY StageIs
<1>2. Stage' = 0
  BY GivenUp DEF Stage
<1> QED BY <1>1, <1>2, Sooner

LEMMA NearerByPacket ==
  ASSUME Typed, Place, NEW from, ReadPacket(from),
         Stage' <= Stage, Stage' \in Nat
  PROVE  Nearer
<1>1. Stage \in Nat /\ Total \in Nat
  BY StageIs, Lengths
<1>2. Total' < Total /\ asked' = asked
  BY <1>1, PacketTaken DEF ReadPacket, mysql
<1>3. CASE Stage' = Stage
  BY <1>2, <1>3, NearerIs
<1>4. CASE Stage' # Stage
  BY <1>1, <1>4, Sooner
<1> QED BY <1>3, <1>4

(* One that keeps the packet. *)
LEMMA NearerByKeep ==
  ASSUME Typed, Place, NEW from, ReadPacket(from), NEW next \in {"columns", "rows", "params", "defs", "forward"},
         from \in {"header", "columns", "rows", "prepared", "params", "defs"}, Keep(next)
  PROVE  Nearer
<1>1. pc = from /\ pc' = next /\ todo' = todo
  BY DEF ReadPacket, Keep
<1>2. Stage > 1 /\ Stage \in Nat
  BY <1>1, StageIs DEF Reading
<1>3. CASE next = "forward"
  <2>1. Stage' = 1
    BY <1>1, <1>3 DEF Stage
  <2> QED BY <1>2, <2>1, Sooner
<1>4. CASE next # "forward"
  <2>1. Stage' = 2 * Len(todo') /\ Stage = 2 * Len(todo)
    BY <1>1, <1>4 DEF Stage
  <2>2. Stage' = Stage
    BY <1>1, <2>1
  <2> QED BY <1>2, <2>2, NearerByPacket
<1> QED BY <1>3, <1>4

LEMMA NearerByHandler == ASSUME ConnInv, Handler PROVE Nearer
<1>1. Typed /\ Place
  BY DEF ConnInv
<1>2. CASE ReadInitPacket \/ ReadInitOK
  <2>1. /\ pc \in {"greeting", "welcome"} /\ ReadPacket(pc)
        /\ (pc = "greeting" /\ pc' = "auth") \/ (pc = "welcome" /\ pc' = "pooled") \/ GiveUp
    <3>1. CASE ReadInitPacket
      <4>1. pc' = "auth" \/ GiveUp
        BY <3>1 DEF ReadInitPacket, NewConnGoesOn
      <4>2. ReadPacket("greeting")
        BY <3>1 DEF ReadInitPacket
      <4>3. pc = "greeting"
        BY <4>2 DEF ReadPacket
      <4> QED BY <4>1, <4>2, <4>3
    <3>2. CASE ReadInitOK
      <4>1. pc' = "pooled" \/ GiveUp
        BY <3>2 DEF ReadInitOK, NewConnGoesOn
      <4>2. ReadPacket("welcome")
        BY <3>2 DEF ReadInitOK
      <4>3. pc = "welcome"
        BY <4>2 DEF ReadPacket
      <4> QED BY <4>1, <4>2, <4>3
    <3> QED BY <1>2, <3>1, <3>2
  <2>2. CASE GiveUp
    BY <1>1, <2>1, <2>2, NearerByEnd DEF Reading
  <2>3. CASE (pc = "greeting" /\ pc' = "auth") \/ (pc = "welcome" /\ pc' = "pooled")
    BY <2>3, Sooner DEF Stage
  <2> QED BY <2>1, <2>2, <2>3
<1>3. CASE WriteAuth
  <2>1. pc = "auth" /\ pc' = "welcome"
    BY <1>3 DEF WriteAuth
  <2> QED BY <2>1, Sooner DEF Stage
<1>4. CASE Write
  <2>1. pc = "write" /\ pc' \in {"header", "prepared"} /\ todo' = todo
    BY <1>4 DEF Write, Send
  <2>2. Stage = 2 * Len(todo) + 1 /\ Stage' = 2 * Len(todo') /\ Len(todo) \in Nat
    BY <1>1, <2>1, StageIs DEF Stage
  <2>3. Stage' < Stage
    BY <2>1, <2>2
  <2> QED BY <2>3, Sooner
<1>5. CASE WriteFails \/ WriteAuthFails \/ ReadFails \/ OutOfSync
  <2>1. GiveUp /\ pc \in Reading \cup {"auth", "write"}
    BY <1>5 DEF WriteFails, WriteAuthFails, ReadFails, OutOfSync
  <2> QED BY <1>1, <2>1, NearerByEnd
<1>6. CASE Fill
  <2>1. pc' = pc /\ todo' = todo /\ asked' = asked /\ wire \in Seq(Unit)
    BY <1>1, <1>6 DEF Fill, proxy, mysql, Typed
  <2>2. Stage' = Stage
    BY <2>1 DEF Stage
  <2>3. Total' = Total /\ Len(wire') < Len(wire)
    <3>1. PICK n \in 1..Len(wire) : wire' = SubSeq(wire, n + 1, Len(wire))
      BY <1>6 DEF Fill
    <3>2. Len(wire) \in Nat
      BY <2>1
    <3>3. Len(wire') = Len(wire) - n
      BY <2>1, <3>1, <3>2, Slice
    <3> QED BY <1>1, <1>6, <3>2, <3>3, FillMoves
  <2> QED BY <2>1, <2>2, <2>3, NearerIs
<1>7. CASE ReadHeader
  <2>1. ReadPacket("header") /\ pc = "header"
    BY <1>7 DEF ReadHeader, Read, ReadPacket
  <2>2. \/ pc' = "write" /\ todo' = Tail(todo) /\ Len(todo) = 2
        \/ Keep("forward") \/ Keep("columns") \/ GiveUp
    BY <1>7 DEF ReadHeader, Abandon
  <2>3. CASE pc' = "write" /\ todo' = Tail(todo) /\ Len(todo) = 2
    <3>1. Len(todo') = 1
      <4>1. \A t \in Seq(Commands) : Len(t) = 2 => Len(Tail(t)) = 1
        OBVIOUS
      <4> QED BY <1>1, <2>3, <4>1, Zenon DEF Typed
    <3>2. Stage = 2 * Len(todo) /\ Stage' = 2 * Len(todo') + 1
      BY <2>1, <2>3 DEF Stage
    <3>3. Stage' < Stage
      BY <2>3, <3>1, <3>2
    <3> QED BY <3>3, Sooner
  <2>4. CASE GiveUp
    BY <1>1, <2>1, <2>4, NearerByEnd DEF Reading
  <2> QED BY <1>1, <2>1, <2>2, <2>3, <2>4, NearerByKeep
<1>8. CASE ReadPrepared
  <2>1. ReadPacket("prepared") /\ pc = "prepared"
    BY <1>8 DEF ReadPrepared, Read, ReadPacket
  <2>2. (\E next \in {"params", "defs", "forward"} : Keep(next)) \/ GiveUp
    BY <1>8 DEF ReadPrepared, Abandon, Columns
  <2>3. CASE GiveUp
    BY <1>1, <2>1, <2>3, NearerByEnd DEF Reading
  <2> QED BY <1>1, <2>1, <2>2, <2>3, NearerByKeep
<1>9. CASE ReadColumns
  <2>1. ReadPacket("columns") /\ pc = "columns"
    BY <1>9 DEF ReadColumns, Read, ReadPacket
  <2>2. Keep("columns") \/ Keep("rows") \/ GiveUp
    BY <1>9 DEF ReadColumns, Abandon
  <2>3. CASE GiveUp
    BY <1>1, <2>1, <2>3, NearerByEnd DEF Reading
  <2> QED BY <1>1, <2>1, <2>2, <2>3, NearerByKeep
<1>10. CASE ReadRows \/ ReadParams \/ ReadDefs
  <2>1. PICK from \in {"rows", "params", "defs"} :
          ReadPacket(from) /\ \E next \in {from, "defs", "forward"} : Keep(next)
    BY <1>10 DEF ReadRows, ReadParams, ReadDefs, Read, UntilEOF, Columns
  <2> QED BY <1>1, <2>1, NearerByKeep
<1>11. CASE Forward
  <2>1. pc = "forward" /\ pc' \in {"pooled", "pinned"}
    BY <1>11 DEF Forward
  <2> QED BY <2>1, Sooner DEF Stage
<1> QED BY <1>2, <1>3, <1>4, <1>5, <1>6, <1>7, <1>8, <1>9, <1>10, <1>11 DEF Handler

(***************************************************************************)
(* newConn and the handlers go nearer to their end with every step, and so *)
(* does every answer of MySQL; nothing but the next command leads away     *)
(* from it.  So none of the loops that read a reply goes round for ever    *)
(* (readResultSetPacket, readUntilEOF, Prepare): a handler that does not   *)
(* come to its end has stopped to take steps, and waits.                   *)
(***************************************************************************)
Begins == BeginQuery \/ BeginFieldList \/ BeginUseDB \/ BeginPrepare \/ BeginExec

GoesOn == [][/\ Handler \/ Answer => Nearer
             /\ ~Begins => Nearer \/ UNCHANGED Work]_vars

LEMMA NearerByAnswer == ASSUME ConnInv, Answer PROVE Nearer
<1>1. asked' = Tail(asked) /\ asked # <<>> /\ pc' = pc /\ todo' = todo
  BY DEF Answer, proxy
<1>2. Len(asked') < Len(asked)
  <2>1. \A t \in Seq(Commands) : t # <<>> => Len(Tail(t)) < Len(t)
    OBVIOUS
  <2> QED BY <1>1, <2>1, Zenon DEF ConnInv, Typed
<1>3. Stage' = Stage
  BY <1>1 DEF Stage
<1> QED BY <1>2, <1>3, NearerIs

LEMMA WorkStep == ASSUME ConnInv, Next, ~Begins PROVE Nearer \/ UNCHANGED Work
<1>1. Typed /\ Place
  BY DEF ConnInv
<1>2. CASE PeerCloses
  <2>1. pc' = pc /\ todo' = todo /\ asked' = asked /\ inbuf' = inbuf /\ Len(wire) \in Nat /\ Len(inbuf) \in Nat
    BY <1>1, <1>2, Lengths DEF PeerCloses, proxy
  <2>2. Stage' = Stage
    BY <2>1 DEF Stage
  <2>3. PICK n \in 0..Len(wire) : wire' = SubSeq(wire, 1, n)
    BY <1>2 DEF PeerCloses
  <2>4. Len(wire') = n
    BY <1>1, <2>1, <2>3, Slice DEF Typed
  <2>5. Total = Len(inbuf) + Len(wire) /\ Total' = Len(inbuf) + n
    BY <2>1, <2>4 DEF Total
  <2>6. CASE n < Len(wire)
    BY <2>1, <2>2, <2>5, <2>6, NearerIs
  <2>7. CASE n = Len(wire)
    BY <2>1, <2>2, <2>4, <2>5, <2>7 DEF Work
  <2> QED BY <2>1, <2>6, <2>7
<1>3. CASE StmtClose
  <2>1. /\ pc = "pinned" /\ pc' = "lost"
        /\ asked' = asked /\ inbuf' = inbuf /\ wire' = wire
    BY <1>3 DEF StmtClose, mysql
  <2>2. Stage' = Stage
    BY <2>1 DEF Stage
  <2> QED BY <2>1, <2>2 DEF Work, Total
<1> QED BY <1>2, <1>3, NearerByHandler, NearerByAnswer DEF Next, Begins

(* Work is in Nat^4, whose lexicographic order has no endless descent:      *)
(* every handler, and newConn, takes finitely many steps (GoesOn).          *)
THEOREM HandlersGoOn == Spec => [](Work \in Nat \X Nat \X Nat \X Nat) /\ GoesOn
<1>1. ConnInv => Work \in Nat \X Nat \X Nat \X Nat
  <2> SUFFICES ASSUME ConnInv PROVE Work \in Nat \X Nat \X Nat \X Nat
    OBVIOUS
  <2>1. Len(asked) \in Nat /\ Typed /\ Place
    BY DEF ConnInv, Typed
  <2> QED BY <2>1, StageIs, Lengths DEF Work
<1>2. ConnInv /\ [Next]_vars => [/\ Handler \/ Answer => Nearer
                                 /\ ~Begins => Nearer \/ UNCHANGED Work]_vars
  BY NearerByHandler, NearerByAnswer, WorkStep
<1> QED BY <1>1, <1>2, ConnAlways, PTL DEF Spec, GoesOn

-----------------------------------------------------------------------------
(* A step of the handler, or of newConn, is possible: the guards of Handler. *)
Ready ==
  \/ pc \in {"write", "auth", "forward"}
  \/ /\ pc \in Reading
     /\ \/ inbuf = <<>> /\ (wire # <<>> \/ ~peer)
        \/ inbuf # <<>> /\ ~InSync(Head(inbuf))
        \/ Len(inbuf) > 1 \/ (inbuf # <<>> /\ wire # <<>>)
        \/ Len(inbuf) = 1 /\ wire = <<>> /\ ~peer

(* MySQL has a command to answer. *)
MysqlsTurn == peer /\ asked # <<>>

NeverBothWait == Working => Ready \/ MysqlsTurn \/ InError

(* At the end of a reply nobody reads on, but for rows that end in an ERR.  *)
LEMMA AtEnd ==
  ASSUME Typed, Place, pc \in Reading, Arriving, Len(result) = Len(reply)
  PROVE  InError
<1> DEFINE k == Len(result)
           r == reply
<1>1. /\ k \in Nat /\ Len(r) = k /\ result \in Seq(Packets) /\ r \in Seq(Packets)
      /\ Shape(Awaited, r) /\ k > 0 /\ result[1] = r[1] /\ r[1] \in Packets /\ result[k] = r[k]
      /\ Reader(r, k)
  BY DEF Typed, Arriving, Shape
<1>2. pc \in {"columns", "rows", "params", "defs"}
  BY <1>1 DEF Place, Reading
<1>3. r[1].columns \in Nat /\ r[1].params \in Nat
  BY <1>1, MysqlConnAssumption DEF Packets
<1>4. CASE pc \in {"columns", "rows"}
  <2>1. Rows(r) /\ r[1].kind = "count"
    BY <1>1, <1>4 DEF Reader, Shape
  <2>2. k > r[1].columns + 2 /\ r[k].kind \in {"eof", "err"}
    BY <1>1, <2>1 DEF Rows
  <2>3. pc = "rows" /\ r[k].kind # "eof"
    BY <1>1, <1>3, <1>4, <2>2 DEF Reader
  <2> QED BY <1>1, <2>2, <2>3 DEF InError, Last
<1>5. CASE pc = "params"
  <2>1. Params(r) /\ r[1].params > 0 /\ k <= r[1].params + 1
    BY <1>1, <1>5 DEF Reader, Shape
  <2> QED BY <1>1, <1>3, <2>1 DEF Params, DefsEnd
<1>6. CASE pc = "defs"
  <2>1. /\ Params(r) /\ r[1].columns > 0
        /\ k \in DefsEnd(1, r[1].params)..DefsEnd(1, r[1].params) + r[1].columns
    BY <1>1, <1>6 DEF Reader, Shape
  <2> QED BY <1>1, <1>3, <2>1 DEF Params, DefsEnd
<1> QED BY <1>2, <1>4, <1>5, <1>6

(* Where no step is possible, nothing is there, or a header without a body. *)
LEMMA NotReady ==
  ASSUME Typed, pc \in Reading, ~Ready
  PROVE  peer /\ (Total = 0 \/ (Total = 1 /\ At(1).part = "head"))
<1>1. inbuf \in Seq(Unit) /\ wire \in Seq(Unit) /\ Len(inbuf) \in Nat /\ Len(wire) \in Nat
  BY DEF Typed
<1>2. CASE inbuf = <<>>
  <2>1. wire = <<>> /\ peer
    BY <1>2 DEF Ready
  <2>2. Len(inbuf) = 0 /\ Len(wire) = 0
    BY <1>2, <2>1
  <2>3. Total = 0
    BY <2>2 DEF Total
  <2> QED BY <2>1, <2>3
<1>3. CASE inbuf # <<>>
  <2>1. Len(inbuf) = 1 /\ wire = <<>> /\ peer /\ InSync(Head(inbuf))
    <3>1. ~(Len(inbuf) > 1) /\ wire = <<>> /\ InSync(Head(inbuf))
      BY <1>3, Zenon DEF Ready
    <3>2. Len(inbuf) = 1
      <4>1. Len(inbuf) > 0
        BY <1>1, <1>3
      <4>2. \A n \in Nat : n > 0 /\ ~(n > 1) => n = 1
        OBVIOUS
      <4> QED BY <1>1, <3>1, <4>1, <4>2, Zenon
    <3>3. peer
      BY <3>1, <3>2, Zenon DEF Ready
    <3> QED BY <3>1, <3>2, <3>3
  <2>2. Total = 1 /\ At(1) = Head(inbuf)
    BY <1>1, <2>1 DEF Total, At
  <2> QED BY <2>1, <2>2 DEF InSync
<1> QED BY <1>2, <1>3

(* A handler, or newConn, and MySQL never wait for each other: where        *)
(* readPacket waits, MySQL has a command to answer.  That is, no reader     *)
(* waits for a packet after the end of a reply (readResultSetPacket,        *)
(* Prepare), unless rows end in an error (StopsAtError), and none waits     *)
(* forever on a leftover.                                                   *)
THEOREM NoHandlerStuck == Spec => []NeverBothWait
<1>1. ConnInv => NeverBothWait
  <2> SUFFICES ASSUME ConnInv, Working, ~Ready PROVE MysqlsTurn \/ InError
    BY DEF NeverBothWait
  <2>1. pc \in Reading /\ Typed /\ Place
    BY DEF Working, Ready, ConnInv
  <2>2. peer /\ (Total = 0 \/ (Total = 1 /\ At(1).part = "head"))
    BY <2>1, NotReady
  <2>3. CASE dirty
    BY <2>2, <2>3 DEF ConnInv, Leftover, Remnant
  <2>4. CASE ~dirty
    <3>1. Waiting \/ Arriving
      BY <2>1, <2>2, <2>4 DEF ConnInv, Clean, HungUp
    <3>2. CASE Waiting
      BY <2>2, <3>2 DEF Waiting, MysqlsTurn
    <3>3. CASE Arriving
      <4>1. Total = 2 * (Len(reply) - Len(result)) /\ Len(reply) \in Nat /\ Len(result) \in Nat
        BY <2>1, <2>2, <3>3 DEF Arriving, Typed
      <4>2. Len(result) = Len(reply)
        BY <2>2, <4>1
      <4> QED BY <2>1, <3>3, <4>2, AtEnd
    <3> QED BY <3>1, <3>2, <3>3
  <2> QED BY <2>3, <2>4
<1> QED BY <1>1, ConnAlways, PTL
=============================================================================
