-------------------------- MODULE EventLoopProofs --------------------------
(***************************************************************************)
(* Proofs about the event loop for any number of descriptors, requests and *)
(* false alarms, any clock and any timeouts.                               *)
(***************************************************************************)
EXTENDS EventLoop, Facts

-----------------------------------------------------------------------------
(* A connection between two handlers: it wants to read or to write, and its  *)
(* buffer starts with nothing that could be answered or must be rejected.    *)
Wants(c) ==
    /\ c.want_read # c.want_write /\ ~c.want_close
    /\ c.want_write <=> c.outgoing # << >>

Clean(b) == Complete(b) = 0 /\ (b # << >> => b[1] # Bad)

(* The stream.  Of `sent' parts the first 2 * a are requests that were       *)
(* answered; the responses on their way continue those received, and the     *)
(* parts on their way those answered, up to a malformed one.                 *)
PartAt(k) == IF k % 2 = 1 THEN Part((k + 1) \div 2) ELSE End(k \div 2)

InOrder(in, a, n) == \A j \in 1..n : in[j] = PartAt(2 * a + j)

Stream(out, in, got, sent) ==
    LET a == got + Len(out) IN
    /\ \A i \in 1..Len(out) : out[i] = got + i
    /\ \/ Len(in) = sent - 2 * a /\ InOrder(in, a, Len(in))
       \/ /\ in # << >> /\ in[Len(in)] = Bad
          /\ sent = 2 * MaxReq /\ 2 * a + Len(in) - 1 < 2 * MaxReq
          /\ (Len(in) - 1) % 2 = 0
          /\ InOrder(in, a, Len(in) - 1)

StreamOf(p) ==
    Stream(p.sock.snd \o p.conn.outgoing, p.conn.incoming \o p.sock.rcv, p.sock.got, p.sock.sent)

Sound(p) == Wants(p.conn) /\ Clean(p.conn.incoming) /\ StreamOf(p)

ConnInv == \A fd \in Open : Sound(Pair(fd2conn[fd], sock[fd]))

(* What poll() reported is used before the next call.                        *)
ReportInv ==
    /\ ReportsStillWanted
    /\ pc \notin {"accept", "io"} => DOMAIN revents = {}

(* A ring through head and then s, forwards and backwards.                   *)
Nth(head, s, i) == IF i \in 1..Len(s) THEN s[i] ELSE head

IsRing(L, head, s) ==
    /\ \A i \in 1..Len(s) : s[i] # head
    /\ \A i, j \in 1..Len(s) : s[i] = s[j] => i = j
    /\ \A i \in 0..Len(s) :
          /\ L[Nth(head, s, i)].next = Nth(head, s, i + 1)
          /\ L[Nth(head, s, i + 1)].prev = Nth(head, s, i)

(* s is the ring through the nodes of F, all of them allocated; the longest  *)
(* idle come first.                                                          *)
Ring(L, s, F) ==
    /\ L \in [Nodes -> Links \cup {NULL}]
    /\ s \in Seq(Fds)
    /\ IsRing(L, IdleHead, s)
    /\ \A fd \in Fds : fd \in F <=> \E i \in 1..Len(s) : s[i] = fd
    /\ F \subseteq Fds
    /\ \A n \in F \cup {IdleHead} : L[n] \in Links

Sorted(s, conns) ==
    \A i, j \in 1..Len(s) : i <= j => conns[s[i]].last_active <= conns[s[j]].last_active

RingInv == \E s \in Seq(Fds) : Ring(idle_node, s, Open) /\ Sorted(s, fd2conn)

ClockInv == \A fd \in Open : fd2conn[fd].last_active <= now

IInv == TypeOK /\ MapIsExact /\ ConnInv /\ ReportInv /\ RingInv /\ ClockInv

-----------------------------------------------------------------------------
(* try_one_request until it fails.                                           *)
LEMMA PartsType == \A x \in Parts : x = Bad \/ (x[1] \in {"first", "second"} /\ x[2] \in 1..MaxReq)
BY DEF Parts, Bad

LEMMA CompleteMost ==
    ASSUME NEW b \in Seq(Parts)
    PROVE  /\ Complete(b) \in 0..(Len(b) \div 2)
           /\ Whole(b, Complete(b))
           /\ \A k \in 0..(Len(b) \div 2) : Whole(b, k) => k <= Complete(b)
<1> DEFINE n == Len(b) \div 2
           T == {m \in 0..n : Whole(b, m)}
<1>1. n \in Nat
  BY LenProperties
<1>2. 0 \in T
  <2>1. 0 \in 0..n
    BY <1>1
  <2>2. Whole(b, 0)
    BY DEF Whole
  <2> QED
    BY <2>1, <2>2
<1>3. PICK m \in T : \A k \in T : k <= m
  <2>1. T \subseteq 0..n /\ T # {}
    BY <1>2
  <2> HIDE DEF T, n
  <2> QED
    BY <1>1, <2>1, NatMax
<1>4. m \in 0..n /\ Whole(b, m) /\ \A k \in 0..n : Whole(b, k) => k <= m
  BY <1>3
<1> QED
  BY <1>4 DEF Complete

(* Nothing is complete in what is left, or it would have been taken too.     *)
LEMMA NothingLeft ==
    ASSUME NEW b \in Seq(Parts)
    PROVE  Complete(SubSeq(b, 2 * Complete(b) + 1, Len(b))) = 0
<1> DEFINE m == Complete(b)
           rest == SubSeq(b, 2 * m + 1, Len(b))
           k == Complete(rest)
<1>1. m \in 0..(Len(b) \div 2) /\ Whole(b, m) /\ Len(b) \in Nat
  BY CompleteMost, LenProperties
<1>2. rest \in Seq(Parts) /\ Len(rest) = Len(b) - 2 * m
      /\ \A i \in 1..(Len(b) - 2 * m) : rest[i] = b[2 * m + i]
  <2>1. 2 * m \in 0..Len(b)
    BY <1>1
  <2> HIDE DEF m
  <2> QED
    BY <2>1, Remainder
<1>3. k \in 0..(Len(rest) \div 2) /\ Whole(rest, k)
  <2> HIDE DEF rest
  <2> QED
    BY <1>2, CompleteMost
<1> HIDE DEF k, rest, m
<1>n. m \in Nat /\ k \in Nat
  BY <1>1, <1>2, <1>3
<1>4. m + k \in 0..(Len(b) \div 2)
  BY <1>1, <1>2, <1>3
<1>5. Whole(b, m + k)
  <2> SUFFICES ASSUME NEW j \in 1..(m + k)
               PROVE  b[2 * j - 1][1] = "first" /\ b[2 * j][1] = "second"
    BY DEF Whole
  <2>1. CASE j <= m
    <3>1. j \in 1..m
      BY <1>n, <2>1
    <3> QED
      BY <1>1, <3>1 DEF Whole
  <2>2. CASE j > m
    <3>1. j - m \in 1..k /\ 2 * (j - m) - 1 \in 1..(Len(b) - 2 * m)
          /\ 2 * (j - m) \in 1..(Len(b) - 2 * m)
      BY <1>1, <1>2, <1>3, <2>2
    <3>2. rest[2 * (j - m) - 1] = b[2 * j - 1] /\ rest[2 * (j - m)] = b[2 * j]
      <4>1. 2 * m + (2 * (j - m) - 1) = 2 * j - 1 /\ 2 * m + 2 * (j - m) = 2 * j
        BY <1>1, <1>3
      <4> QED
        BY <3>1, <1>2, <4>1
    <3> QED
      BY <1>3, <3>1, <3>2 DEF Whole
  <2> QED
    BY <2>1, <2>2, <1>n
<1>6. m + k <= m
  BY <1>4, <1>5, CompleteMost DEF m
<1> QED
  BY <1>1, <1>3, <1>6 DEF k, rest, m

LEMMA PartAtParity ==
    ASSUME NEW k \in Nat
    PROVE  PartAt(2 * k) = End(k) /\ PartAt(2 * k + 1) = Part(k + 1)
<1>1. (2 * k) % 2 = 0 /\ (2 * k) \div 2 = k
  OBVIOUS
<1>2. (2 * k + 1) % 2 = 1 /\ (2 * k + 1 + 1) \div 2 = k + 1
  OBVIOUS
<1> QED
  BY <1>1, <1>2 DEF PartAt

(* The requests that are complete are answered in their order, and what      *)
(* remains of the stream continues behind them.                              *)
LEMMA Answer ==
    ASSUME NEW b \in Seq(Parts), NEW r \in Seq(Parts), NEW out \in Seq(1..MaxReq),
           NEW got \in Nat, NEW sent \in Nat,
           Stream(out, b \o r, got, sent)
    PROVE  LET m == Complete(b)
               answers == [j \in 1..m |-> b[2 * j][2]]
               rest == SubSeq(b, 2 * m + 1, Len(b))
           IN  /\ answers \in Seq(1..MaxReq)
               /\ rest \in Seq(Parts)
               /\ Stream(out \o answers, rest \o r, got, sent)
<1> DEFINE m == Complete(b)
           answers == [j \in 1..m |-> b[2 * j][2]]
           rest == SubSeq(b, 2 * m + 1, Len(b))
           in == b \o r
           a == got + Len(out)
<1>1. /\ m \in Nat /\ Len(b) \in Nat /\ Len(r) \in Nat /\ Len(out) \in Nat /\ a \in Nat
      /\ 2 * m \in 0..Len(b) /\ Whole(b, m)
  BY CompleteMost, LenProperties
<1>2. /\ in \in Seq(Parts) /\ Len(in) = Len(b) + Len(r)
      /\ \A i \in 1..(Len(b) + Len(r)) : in[i] = IF i <= Len(b) THEN b[i] ELSE r[i - Len(b)]
  BY ConcatProperties
<1>3. /\ rest \in Seq(Parts) /\ Len(rest) = Len(b) - 2 * m
      /\ \A i \in 1..(Len(b) - 2 * m) : rest[i] = b[2 * m + i]
  <2> HIDE DEF m
  <2> QED
    BY <1>1, Remainder
<1> HIDE DEF m, rest, in, a
<1>n. /\ Len(in) \in Nat /\ Len(in) = Len(b) + Len(r) /\ Len(rest) = Len(b) - 2 * m
      /\ 2 * m \in Nat /\ 2 * m <= Len(b) /\ 2 * m <= Len(in)
  BY <1>1, <1>2, <1>3
<1>4. /\ rest \o r \in Seq(Parts) /\ Len(rest \o r) = Len(in) - 2 * m
      /\ \A i \in 1..(Len(in) - 2 * m) : (rest \o r)[i] = in[2 * m + i]
  <2> DEFINE k == 2 * m
  <2>1. k \in 0..Len(b) /\ Behind(b, rest, k)
    BY <1>1, <1>3 DEF Behind
  <2> HIDE DEF k
  <2>2. rest \o r \in Seq(Parts) /\ Behind(b \o r, rest \o r, k)
    BY <1>3, <2>1, BehindConcat
  <2>3. Behind(in, rest \o r, k)
    BY <2>2, Zenon DEF in
  <2> QED
    BY <2>2, <2>3 DEF Behind, k
(* The first 2 * m parts are in order.                                       *)
<1>5. \A j \in 1..(2 * m) : in[j] = b[j] /\ in[j] = PartAt(2 * a + j)
  <2>1. \A j \in 1..(2 * m) : in[j] = b[j] /\ j \in 1..Len(in)
    BY <1>1, <1>2
  <2>2. CASE InOrder(in, a, Len(in))
    BY <2>1, <2>2 DEF InOrder
  <2>3. CASE in[Len(in)] = Bad /\ InOrder(in, a, Len(in) - 1)
    <3>1. 2 * m # Len(in) \/ m = 0
      <4>1. SUFFICES ASSUME 2 * m = Len(in), m \in 1..m PROVE FALSE
        BY <1>1
      <4>2. b[2 * m][1] = "second"
        BY <1>1, <4>1 DEF Whole
      <4>3. b[2 * m] = Bad
        BY <4>1, <1>1, <2>1, <2>3
      <4> QED
        BY <4>2, <4>3 DEF Bad
    <3>2. \A j \in 1..(2 * m) : j \in 1..(Len(in) - 1)
      <4> DEFINE k == 2 * m
      <4>1. k \in Nat /\ k <= Len(in) /\ Len(in) \in Nat /\ (k # Len(in) \/ k = 0)
        BY <3>1, <1>1, <1>n
      <4> HIDE DEF k
      <4>2. \A j \in 1..k : j \in 1..(Len(in) - 1)
        BY <4>1
      <4> QED
        BY <4>2 DEF k
    <3> QED
      BY <2>1, <2>3, <3>2 DEF InOrder
  <2> QED
    BY <2>2, <2>3 DEF Stream, in, a
<1>6. \A j \in 1..m : b[2 * j][2] = a + j /\ b[2 * j][2] \in 1..MaxReq
  <2> SUFFICES ASSUME NEW j \in 1..m PROVE b[2 * j][2] = a + j /\ b[2 * j][2] \in 1..MaxReq
    OBVIOUS
  <2>1. 2 * j \in 1..(2 * m) /\ a + j \in Nat /\ 2 * a + 2 * j = 2 * (a + j)
    BY <1>1
  <2>2. b[2 * j] = End(a + j)
    BY <2>1, <1>5, PartAtParity
  <2>3. b[2 * j] \in Parts
    BY <2>1, <1>1, ElementOfSeq
  <2> QED
    BY <2>2, <2>3 DEF End, Parts, Bad
<1>7. answers \in Seq(1..MaxReq) /\ Len(answers) = m /\ \A j \in 1..m : answers[j] = a + j
  BY <1>1, <1>6
<1> HIDE DEF answers
<1>8. /\ Len(out \o answers) = Len(out) + m
      /\ \A i \in 1..(Len(out) + m) : (out \o answers)[i] = got + i
  <2>1. /\ Len(out \o answers) = Len(out) + m
        /\ \A i \in 1..(Len(out) + m) :
              (out \o answers)[i] = IF i <= Len(out) THEN out[i] ELSE answers[i - Len(out)]
    BY <1>7, ConcatProperties
  <2>2. ASSUME NEW i \in 1..(Len(out) + m) PROVE (out \o answers)[i] = got + i
    <3>1. CASE i <= Len(out)
      <4>1. i \in 1..Len(out)
        BY <1>1, <3>1
      <4>2. out[i] = got + i
        BY <4>1 DEF Stream
      <4> QED
        BY <2>1, <3>1, <4>2
    <3>2. CASE i > Len(out)
      <4>1. i - Len(out) \in 1..m /\ a + (i - Len(out)) = got + i /\ ~(i <= Len(out))
        BY <1>1, <3>2 DEF a
      <4> DEFINE k == i - Len(out)
      <4>2. (out \o answers)[i] = answers[k]
        BY <2>1, <4>1, <1>1
      <4>3. k \in 1..m /\ a + k = got + i
        BY <4>1
      <4> HIDE DEF k
      <4>4. answers[k] = a + k
        BY <1>7, <4>3
      <4> QED
        BY <4>2, <4>3, <4>4
    <3> QED
      <4>1. i <= Len(out) \/ i > Len(out)
        BY <1>1
      <4> QED
        BY <3>1, <3>2, <4>1
  <2> QED
    BY <2>1, <2>2
(* What is left.                                                             *)
<1> DEFINE left == rest \o r
<1>9. got + Len(out \o answers) = a + m
  BY <1>1, <1>8 DEF a
<1>10. ASSUME NEW n \in Int, InOrder(in, a, n), n <= Len(in) PROVE InOrder(left, a + m, n - 2 * m)
  <2> SUFFICES ASSUME NEW j \in 1..(n - 2 * m) PROVE left[j] = PartAt(2 * (a + m) + j)
    BY DEF InOrder
  <2>1. 2 * m + j \in 1..n /\ 2 * a + (2 * m + j) = 2 * (a + m) + j /\ j \in 1..(Len(in) - 2 * m)
    BY <1>1, <1>n, <1>10
  <2> QED
    BY <1>10, <1>4, <2>1 DEF InOrder
<1>11. ASSUME Len(in) = sent - 2 * a, InOrder(in, a, Len(in))
       PROVE  Stream(out \o answers, left, got, sent)
  <2>1. Len(left) = sent - 2 * (a + m)
    <3>1. Len(left) = Len(in) - 2 * m /\ Len(in) = sent - 2 * a
      BY <1>4, <1>11
    <3> QED
      BY <3>1, <1>1, <1>n
  <2>2. Len(in) \in Int /\ Len(in) <= Len(in) /\ Len(left) = Len(in) - 2 * m
    BY <1>n, <1>4
  <2>3. InOrder(left, a + m, Len(left))
    BY <2>2, <1>10, <1>11
  <2> QED
    BY <1>8, <1>9, <2>1, <2>3 DEF Stream
<1>12. ASSUME in # << >>, in[Len(in)] = Bad,
              sent = 2 * MaxReq, 2 * a + Len(in) - 1 < 2 * MaxReq,
              (Len(in) - 1) % 2 = 0,
              InOrder(in, a, Len(in) - 1)
       PROVE  Stream(out \o answers, left, got, sent)
  <2>1. Len(in) \in Nat \ {0}
    BY <1>2, <1>12, EmptySeq
  <2>2. 2 * m <= Len(in) - 1
    <3>1. SUFFICES ASSUME 2 * m = Len(in) PROVE FALSE
      BY <1>n
    <3>2. m \in 1..m /\ 2 * m \in 1..(2 * m)
      BY <1>1, <2>1, <3>1
    <3>3. b[2 * m][1] = "second" /\ b[2 * m] = Bad
      BY <1>1, <1>5, <1>12, <3>1, <3>2 DEF Whole
    <3> QED
      BY <3>3 DEF Bad
  <2>3. Len(left) \in Nat \ {0} /\ left[Len(left)] = Bad /\ left # << >>
    <3>1. Len(left) \in 1..(Len(in) - 2 * m) /\ 2 * m + Len(left) = Len(in)
      BY <1>1, <1>4, <2>1, <2>2
    <3>2. left[Len(left)] = Bad
      BY <3>1, <1>4, <1>12
    <3>3. Len(left) \in Nat \ {0}
      BY <3>1, <1>1, <1>n
    <3> QED
      BY <3>2, <3>3, EmptySeq
  <2>4. 2 * (a + m) + Len(left) - 1 < 2 * MaxReq /\ (Len(left) - 1) % 2 = 0
    <3>1. Len(left) = Len(in) - 2 * m
      BY <1>4
    <3> QED
      BY <3>1, <1>1, <1>n, <1>12, <2>1, EventLoopAssumption
  <2>5. InOrder(left, a + m, Len(left) - 1)
    <3>1. Len(in) - 1 \in Int /\ Len(in) - 1 <= Len(in) /\ Len(left) - 1 = (Len(in) - 1) - 2 * m
      BY <1>1, <1>4, <2>1
    <3> QED
      BY <3>1, <1>10, <1>12
  <2> QED
    BY <1>7, <1>3, <1>8, <1>9, <1>12, <2>3, <2>4, <2>5 DEF Stream
<1>13. Stream(out \o answers, left, got, sent)
  BY <1>11, <1>12 DEF Stream, in, a
<1> QED
  BY <1>3, <1>7, <1>13 DEF answers, rest, m

-----------------------------------------------------------------------------
(* The handlers.                                                             *)
Pairs == [conn : Conns, sock : Socks]

LEMMA ConnFields ==
    ASSUME NEW c \in Conns
    PROVE  /\ c.incoming \in Seq(Parts) /\ c.outgoing \in Seq(1..MaxReq)
           /\ c.last_active \in 0..MaxTime
BY DEF Conns

LEMMA SockFields ==
    ASSUME NEW k \in Socks
    PROVE  /\ k.rcv \in Seq(Parts) /\ k.snd \in Seq(1..MaxReq)
           /\ k.got \in Nat /\ k.sent \in Nat /\ k.sent \in 0..(2 * MaxReq)
BY EventLoopAssumption DEF Socks

LEMMA PairFields ==
    ASSUME NEW p \in Pairs
    PROVE  /\ p.conn \in Conns /\ p.sock \in Socks
           /\ p.conn.incoming \in Seq(Parts) /\ p.sock.rcv \in Seq(Parts)
           /\ p.conn.outgoing \in Seq(1..MaxReq) /\ p.sock.snd \in Seq(1..MaxReq)
           /\ p.sock.got \in Nat /\ p.sock.sent \in Nat
           /\ p = Pair(p.conn, p.sock)
BY EventLoopAssumption DEF Pairs, Conns, Socks, Pair

(* After a handler a connection is fit to wait, or it will be closed.        *)
Handled(p) ==
    /\ StreamOf(p)
    /\ p.conn.want_close \/ (Wants(p.conn) /\ Clean(p.conn.incoming))

LEMMA TryKeeps ==
    ASSUME NEW p \in Pairs, StreamOf(p), ~p.conn.want_close
    PROVE  LET d == TryRequests(p.conn) IN
           /\ Pair(d, p.sock) \in Pairs
           /\ StreamOf(Pair(d, p.sock))
           /\ d.want_read = p.conn.want_read /\ d.want_write = p.conn.want_write
           /\ d.last_active = p.conn.last_active
           /\ d.want_close \/ Clean(d.incoming)
<1> DEFINE c == p.conn
           s == p.sock
           b == c.incoming
           m == Complete(b)
           answers == [j \in 1..m |-> b[2 * j][2]]
           rest == SubSeq(b, 2 * m + 1, Len(b))
           d == TryRequests(c)
<1>1. /\ c \in Conns /\ s \in Socks /\ b \in Seq(Parts) /\ s.rcv \in Seq(Parts)
      /\ c.outgoing \in Seq(1..MaxReq) /\ s.snd \in Seq(1..MaxReq)
      /\ s.got \in Nat /\ s.sent \in Nat
  BY PairFields
<1>2. d = [c EXCEPT !.incoming = rest, !.outgoing = c.outgoing \o answers,
                    !.want_close = c.want_close \/ (rest # << >> /\ rest[1] = Bad)]
  BY DEF TryRequests
<1>3. s.snd \o c.outgoing \in Seq(1..MaxReq)
  BY <1>1, ConcatProperties
<1>4. /\ answers \in Seq(1..MaxReq) /\ rest \in Seq(Parts)
      /\ Stream((s.snd \o c.outgoing) \o answers, rest \o s.rcv, s.got, s.sent)
  <2>1. Stream(s.snd \o c.outgoing, b \o s.rcv, s.got, s.sent)
    BY DEF StreamOf
  <2> HIDE DEF c, s, b
  <2> QED
    BY <1>1, <1>3, <2>1, Answer
<1>5. (s.snd \o c.outgoing) \o answers = s.snd \o (c.outgoing \o answers)
  <2>1. \A u, v, w \in Seq(1..MaxReq) : (u \o v) \o w = u \o (v \o w)
    BY Associative
  <2> HIDE DEF c, s, answers
  <2> QED
    BY <1>1, <1>4, <2>1, Zenon
<1>6. Complete(rest) = 0
  BY <1>1, NothingLeft
<1>7. c.outgoing \o answers \in Seq(1..MaxReq)
  BY <1>1, <1>4, ConcatProperties
<1> HIDE DEF answers, rest, m, b, d
<1>8. /\ d.incoming = rest /\ d.outgoing = c.outgoing \o answers
      /\ d.want_read = c.want_read /\ d.want_write = c.want_write
      /\ d.last_active = c.last_active
      /\ d.want_close <=> c.want_close \/ (rest # << >> /\ rest[1] = Bad)
      /\ d \in Conns
  BY <1>1, <1>2, <1>4, <1>7 DEF Conns
<1>9. StreamOf(Pair(d, s))
  BY <1>4, <1>5, <1>8 DEF StreamOf, Pair
<1> QED
  BY <1>1, <1>6, <1>8, <1>9 DEF d, Pairs, Pair, Clean

(* Written responses move from the connection to the socket.                 *)
LEMMA WriteKeeps ==
    ASSUME NEW p \in Pairs, StreamOf(p),
           p.conn.want_write, ~p.conn.want_read, p.conn.outgoing # << >>,
           p.conn.want_close \/ Clean(p.conn.incoming),
           NEW q \in handle_write(p)
    PROVE  /\ q \in Pairs /\ Handled(q)
           /\ q.conn.last_active = p.conn.last_active
           /\ p.conn.want_close => q.conn.want_close
<1> DEFINE c == p.conn
           s == p.sock
<1>1. /\ c \in Conns /\ s \in Socks /\ c.outgoing \in Seq(1..MaxReq) /\ s.snd \in Seq(1..MaxReq)
      /\ c.incoming \in Seq(Parts) /\ s.rcv \in Seq(Parts) /\ p = Pair(c, s)
  BY PairFields
<1>2. CASE q = WantClose(p)
  <2>1. /\ q.conn = [c EXCEPT !.want_close = TRUE] /\ q.sock = s /\ q \in Pairs
    BY <1>1, <1>2 DEF WantClose, Pair, Pairs, Conns
  <2>2. /\ q.conn.want_close /\ q.conn.incoming = c.incoming /\ q.conn.outgoing = c.outgoing
        /\ q.conn.last_active = c.last_active
    BY <2>1, <1>1 DEF Conns
  <2> QED
    BY <2>1, <2>2 DEF Handled, StreamOf
<1>3. CASE q = p
  BY <1>1, <1>3 DEF Handled, Wants, Conns
<1>4. ASSUME NEW n \in 1..Len(c.outgoing), q = Written(p, n)
      PROVE  /\ q \in Pairs /\ Handled(q)
             /\ q.conn.last_active = c.last_active
             /\ c.want_close => q.conn.want_close
  <2> DEFINE rest == SubSeq(c.outgoing, n + 1, Len(c.outgoing))
             sent == SubSeq(c.outgoing, 1, n)
  <2>1. n \in 0..Len(c.outgoing)
    BY <1>1, LenProperties
  <2>2. rest \in Seq(1..MaxReq) /\ sent \in Seq(1..MaxReq) /\ sent \o rest = c.outgoing
    <3> HIDE DEF c
    <3> QED
      BY <1>1, <2>1, Remainder, Beginning, Parted
  <2>3. /\ q.conn = [c EXCEPT !.outgoing = rest,
                              !.want_read = IF rest = << >> THEN TRUE ELSE c.want_read,
                              !.want_write = IF rest = << >> THEN FALSE ELSE c.want_write]
        /\ q.sock = [s EXCEPT !.snd = s.snd \o sent]
        /\ q = Pair(q.conn, q.sock)
    BY <1>4 DEF Written, Pair
  <2> HIDE DEF rest, sent
  <2>4. s.snd \o sent \in Seq(1..MaxReq)
    BY <1>1, <2>2, ConcatProperties
  <2>5. q.conn \in Conns /\ q.sock \in Socks
    BY <1>1, <2>2, <2>3, <2>4 DEF Conns, Socks
  <2>6. /\ q.conn.outgoing = rest /\ q.conn.incoming = c.incoming
        /\ q.conn.want_close = c.want_close /\ q.conn.last_active = c.last_active
        /\ q.conn.want_read = (IF rest = << >> THEN TRUE ELSE c.want_read)
        /\ q.conn.want_write = (IF rest = << >> THEN FALSE ELSE c.want_write)
        /\ q.sock.snd = s.snd \o sent /\ q.sock.rcv = s.rcv
        /\ q.sock.got = s.got /\ q.sock.sent = s.sent
    BY <1>1, <2>3 DEF Conns, Socks
  <2>7. (s.snd \o sent) \o rest = s.snd \o c.outgoing
    <3> HIDE DEF c, s
    <3>1. \A u, v, w \in Seq(1..MaxReq) : (u \o v) \o w = u \o (v \o w)
      BY Associative
    <3>2. (s.snd \o sent) \o rest = s.snd \o (sent \o rest)
      BY <1>1, <2>2, <3>1, Zenon
    <3> QED
      BY <3>2, <2>2
  <2>8. StreamOf(q)
    BY <2>6, <2>7 DEF StreamOf
  <2>9. c.want_close \/ (Wants(q.conn) /\ Clean(q.conn.incoming))
    BY <2>6 DEF Wants
  <2> QED
    BY <2>3, <2>5, <2>6, <2>8, <2>9 DEF Handled, Pairs, Pair
<1> QED
  <2>1. \/ q = WantClose(p) \/ q = p
        \/ \E n \in 1..Len(c.outgoing) : q = Written(p, n)
    <3> DEFINE room == SndCap - Len(s.snd)
    <3>1. room \in Int /\ Len(c.outgoing) \in Nat
      BY <1>1, LenProperties, EventLoopAssumption
    <3>2. \A n \in 1..(IF room < Len(c.outgoing) THEN room ELSE Len(c.outgoing)) :
             n \in 1..Len(c.outgoing)
      BY <3>1
    <3> QED
      BY <3>2 DEF handle_write
  <2> QED
    BY <2>1, <1>2, <1>3, <1>4

(* Parts that were read move from the socket to the connection.              *)
LEMMA ReadMoves ==
    ASSUME NEW p \in Pairs, StreamOf(p), NEW n \in 1..Len(p.sock.rcv)
    PROVE  LET s == [p.sock EXCEPT !.rcv = SubSeq(@, n + 1, Len(@))]
               c == [p.conn EXCEPT !.incoming = @ \o SubSeq(p.sock.rcv, 1, n)]
           IN  Pair(c, s) \in Pairs /\ StreamOf(Pair(c, s))
<1> DEFINE b == p.conn.incoming
           r == p.sock.rcv
           taken == SubSeq(r, 1, n)
           rest == SubSeq(r, n + 1, Len(r))
           s == [p.sock EXCEPT !.rcv = SubSeq(@, n + 1, Len(@))]
           c == [p.conn EXCEPT !.incoming = @ \o SubSeq(p.sock.rcv, 1, n)]
<1>1. /\ p.conn \in Conns /\ p.sock \in Socks /\ b \in Seq(Parts) /\ r \in Seq(Parts)
  BY PairFields
<1>2. taken \in Seq(Parts) /\ rest \in Seq(Parts) /\ taken \o rest = r
  <2>1. n \in 0..Len(r)
    BY <1>1, LenProperties
  <2> HIDE DEF r
  <2> QED
    BY <1>1, <2>1, Remainder, Beginning, Parted
<1> HIDE DEF taken, rest
<1>3. b \o taken \in Seq(Parts)
  BY <1>1, <1>2, ConcatProperties
<1>4. (b \o taken) \o rest = b \o r
  <2> HIDE DEF b, r
  <2>1. \A u, v, w \in Seq(Parts) : (u \o v) \o w = u \o (v \o w)
    BY Associative
  <2>2. (b \o taken) \o rest = b \o (taken \o rest)
    <3>1. b \in Seq(Parts) /\ taken \in Seq(Parts) /\ rest \in Seq(Parts)
      BY <1>1, <1>2
    <3> QED
      BY <2>1, <3>1, Zenon
  <2> QED
    BY <2>2, <1>2
<1>5. /\ c \in Conns /\ c.incoming = b \o taken /\ c.outgoing = p.conn.outgoing
      /\ s \in Socks /\ s.rcv = rest /\ s.snd = p.sock.snd
      /\ s.got = p.sock.got /\ s.sent = p.sock.sent
  <2>1. /\ c = [p.conn EXCEPT !.incoming = b \o taken]
        /\ s = [p.sock EXCEPT !.rcv = rest]
    BY DEF taken, rest
  <2> HIDE DEF c, s
  <2>2. c \in Conns /\ c.incoming = b \o taken /\ c.outgoing = p.conn.outgoing
    BY <1>1, <1>3, <2>1 DEF Conns
  <2>3. /\ s \in Socks /\ s.rcv = rest /\ s.snd = p.sock.snd
        /\ s.got = p.sock.got /\ s.sent = p.sock.sent
    BY <1>1, <1>2, <2>1 DEF Socks
  <2> QED
    BY <2>2, <2>3
<1>6. Pair(c, s) \in Pairs /\ StreamOf(Pair(c, s))
  <2> HIDE DEF c, s
  <2> DEFINE q == Pair(c, s)
  <2>1. q \in Pairs /\ q.conn = c /\ q.sock = s
    BY <1>5 DEF Pairs, Pair
  <2> HIDE DEF q
  <2>2. Stream(p.sock.snd \o p.conn.outgoing, b \o r, p.sock.got, p.sock.sent)
    BY DEF StreamOf
  <2> HIDE DEF b, r
  <2>3. Stream(s.snd \o c.outgoing, c.incoming \o s.rcv, s.got, s.sent)
    BY <1>4, <1>5, <2>2
  <2> QED
    BY <2>1, <2>3 DEF StreamOf, q
<1> QED
  BY <1>6

LEMMA ReadKeeps ==
    ASSUME NEW p \in Pairs, Sound(p), p.conn.want_read,
           NEW q \in handle_read(p)
    PROVE  /\ q \in Pairs /\ Handled(q)
           /\ q.conn.last_active = p.conn.last_active
<1>1. p.conn \in Conns /\ p.sock \in Socks /\ p = Pair(p.conn, p.sock)
  BY PairFields
<1>2. CASE q = p
  BY <1>2 DEF Handled, Sound
<1>3. CASE q = WantClose(p)
  <2>1. /\ q.conn = [p.conn EXCEPT !.want_close = TRUE] /\ q.sock = p.sock /\ q \in Pairs
    BY <1>1, <1>3 DEF WantClose, Pair, Pairs, Conns
  <2>2. /\ q.conn.want_close /\ q.conn.incoming = p.conn.incoming
        /\ q.conn.outgoing = p.conn.outgoing /\ q.conn.last_active = p.conn.last_active
    BY <2>1, <1>1 DEF Conns
  <2> QED
    BY <2>1, <2>2 DEF Handled, StreamOf, Sound
<1>4. ASSUME NEW n \in 1..Len(p.sock.rcv),
             q \in LET s == [p.sock EXCEPT !.rcv = SubSeq(@, n + 1, Len(@))]
                       c == TryRequests([p.conn EXCEPT !.incoming = @ \o SubSeq(p.sock.rcv, 1, n)])
                   IN  IF c.outgoing = << >> THEN {Pair(c, s)}
                       ELSE handle_write(Pair([c EXCEPT !.want_read = FALSE, !.want_write = TRUE], s))
      PROVE  /\ q \in Pairs /\ Handled(q)
             /\ q.conn.last_active = p.conn.last_active
  <2> DEFINE s == [p.sock EXCEPT !.rcv = SubSeq(@, n + 1, Len(@))]
             c0 == [p.conn EXCEPT !.incoming = @ \o SubSeq(p.sock.rcv, 1, n)]
             c == TryRequests(c0)
  <2>1. Pair(c0, s) \in Pairs /\ StreamOf(Pair(c0, s))
    BY ReadMoves DEF Sound
  <2>2. /\ c0.want_read /\ ~c0.want_write /\ ~c0.want_close
        /\ c0.last_active = p.conn.last_active
    BY <1>1 DEF Sound, Wants, Conns
  <2> HIDE DEF c0, s
  <2>3. /\ Pair(c, s) \in Pairs /\ StreamOf(Pair(c, s))
        /\ c.want_read /\ ~c.want_write
        /\ c.last_active = p.conn.last_active
        /\ c.want_close \/ Clean(c.incoming)
    <3> DEFINE p0 == Pair(c0, s)
    <3>1. p0.conn = c0 /\ p0.sock = s /\ p0 \in Pairs /\ StreamOf(p0) /\ ~p0.conn.want_close
      BY <2>1, <2>2 DEF Pair
    <3> HIDE DEF p0
    <3>2. LET d == TryRequests(p0.conn) IN
          /\ Pair(d, p0.sock) \in Pairs
          /\ StreamOf(Pair(d, p0.sock))
          /\ d.want_read = p0.conn.want_read /\ d.want_write = p0.conn.want_write
          /\ d.last_active = p0.conn.last_active
          /\ d.want_close \/ Clean(d.incoming)
      BY <3>1, TryKeeps
    <3> QED
      BY <3>1, <3>2, <2>2
  <2>4. q \in IF c.outgoing = << >> THEN {Pair(c, s)}
              ELSE handle_write(Pair([c EXCEPT !.want_read = FALSE, !.want_write = TRUE], s))
    BY <1>4 DEF c0, s
  <2> HIDE DEF c
  <2>5. CASE c.outgoing = << >>
    <3>1. q = Pair(c, s) /\ q.conn = c
      BY <2>4, <2>5 DEF Pair
    <3> QED
      BY <2>3, <2>5, <3>1 DEF Handled, Wants
  <2>6. CASE c.outgoing # << >>
    <3> DEFINE d == [c EXCEPT !.want_read = FALSE, !.want_write = TRUE]
               p1 == Pair(d, s)
    <3>1. c \in Conns /\ s \in Socks
      BY <2>3 DEF Pairs, Pair
    <3>2. /\ d \in Conns /\ d.want_write /\ ~d.want_read /\ d.outgoing = c.outgoing
          /\ d.incoming = c.incoming /\ d.want_close = c.want_close
          /\ d.last_active = c.last_active
      BY <3>1 DEF Conns
    <3> HIDE DEF d
    <3>3. p1 \in Pairs /\ StreamOf(p1) /\ p1.conn = d /\ q \in handle_write(p1)
      BY <2>3, <2>4, <2>6, <3>1, <3>2 DEF Pairs, Pair, StreamOf, d
    <3> HIDE DEF p1
    <3> QED
      BY <2>3, <2>6, <3>2, <3>3, WriteKeeps
  <2> QED
    BY <2>5, <2>6
<1> QED
  <2>1. \/ q = p \/ q = WantClose(p)
        \/ \E n \in 1..Len(p.sock.rcv) :
              q \in LET s == [p.sock EXCEPT !.rcv = SubSeq(@, n + 1, Len(@))]
                        c == TryRequests([p.conn EXCEPT !.incoming = @ \o SubSeq(p.sock.rcv, 1, n)])
                    IN  IF c.outgoing = << >> THEN {Pair(c, s)}
                        ELSE handle_write(Pair([c EXCEPT !.want_read = FALSE, !.want_write = TRUE], s))
    BY Zenon DEF handle_read
  <2> QED
    BY <2>1, <1>2, <1>3, <1>4, Zenon

LEMMA StampKeeps ==
    ASSUME NEW c \in Conns, NEW s \in Socks, Sound(Pair(c, s)), NEW t \in 0..MaxTime
    PROVE  LET p == Pair([c EXCEPT !.last_active = t], s) IN
           /\ p \in Pairs /\ Sound(p) /\ p.conn.last_active = t
           /\ p.conn.want_read = c.want_read /\ p.conn.want_write = c.want_write
<1> DEFINE d == [c EXCEPT !.last_active = t]
           p == Pair(d, s)
<1>1. /\ d \in Conns /\ d.last_active = t /\ d.want_read = c.want_read
      /\ d.want_write = c.want_write /\ d.want_close = c.want_close
      /\ d.incoming = c.incoming /\ d.outgoing = c.outgoing
  BY DEF Conns
<1> HIDE DEF d
<1>2. p.conn = d /\ p.sock = s /\ p \in Pairs
  BY <1>1 DEF Pair, Pairs
<1>3. Sound(p)
  BY <1>1, <1>2 DEF Sound, Wants, StreamOf, Pair
<1> QED
  BY <1>1, <1>2, <1>3 DEF d

(* One turn of a connection in the loop over poll_args.                      *)
LEMMA TurnKeeps ==
    ASSUME NEW p0 \in Pairs, Sound(p0), NEW ready,
           "POLLIN" \in ready => p0.conn.want_read,
           "POLLOUT" \in ready => p0.conn.want_write /\ "POLLIN" \notin ready,
           NEW p1 \in IF "POLLIN" \in ready THEN handle_read(p0) ELSE {p0},
           NEW p2 \in IF "POLLOUT" \in ready THEN handle_write(p1) ELSE {p1}
    PROVE  p2 \in Pairs /\ Handled(p2) /\ p2.conn.last_active = p0.conn.last_active
<1>2. CASE "POLLIN" \in ready
  <2>1. p1 \in handle_read(p0) /\ p2 = p1
    BY <1>2
  <2> QED
    BY <1>2, <2>1, ReadKeeps
<1>3. CASE "POLLIN" \notin ready /\ "POLLOUT" \in ready
  <2>1. p1 = p0 /\ p2 \in handle_write(p0)
    BY <1>3
  <2>2. p0.conn.want_write /\ ~p0.conn.want_read /\ p0.conn.outgoing # << >>
    <3>1. p0.conn.want_read \in BOOLEAN
      BY PairFields DEF Conns
    <3> QED
      BY <1>3, <3>1 DEF Sound, Wants
  <2> QED
    BY <2>1, <2>2, WriteKeeps DEF Sound
<1>4. CASE "POLLIN" \notin ready /\ "POLLOUT" \notin ready
  <2>1. p2 = p0
    BY <1>4
  <2> QED
    BY <2>1 DEF Handled, Sound
<1> QED
  BY <1>2, <1>3, <1>4

-----------------------------------------------------------------------------
(* The ring of list.h.  L is a function on the nodes N; linked ones have     *)
(* two pointers.                                                             *)
Linked(L, N, n) == n \in N /\ L[n] \in [prev : N, next : N]

Chain(L, N, head, s) ==
    /\ DOMAIN L = N
    /\ s \in Seq(N)
    /\ IsRing(L, head, s)
    /\ \A i \in 0..Len(s) : Linked(L, N, Nth(head, s, i))

LEMMA NthDistinct ==
    ASSUME NEW L, NEW head, NEW s, Len(s) \in Nat, IsRing(L, head, s)
    PROVE  /\ \A i, j \in 0..Len(s) : Nth(head, s, i) = Nth(head, s, j) => i = j
           /\ \A i, j \in 1..(Len(s) + 1) : Nth(head, s, i) = Nth(head, s, j) => i = j
BY DEF IsRing, Nth

(* dlist_insert_before the head appends.                                     *)
LEMMA RingInsert ==
    ASSUME NEW N, NEW L, NEW head, NEW s, Chain(L, N, head, s), NEW x \in N, x # head,
           \A i \in 1..Len(s) : s[i] # x
    PROVE  LET M == dlist_insert_before(L, head, x) IN
           /\ DOMAIN M = N
           /\ IsRing(M, head, Append(s, x))
           /\ Linked(M, N, x)
           /\ \A n \in N : n # x /\ Linked(L, N, n) => Linked(M, N, n)
           /\ \A n \in N : n # x /\ ~Linked(L, N, n) => M[n] = L[n]
<1> DEFINE last == L[head].prev
           n == Len(s)
           M == dlist_insert_before(L, head, x)
           t == Append(s, x)
<1>0. DOMAIN L = N /\ s \in Seq(N) /\ IsRing(L, head, s) /\ \A i \in 0..n : Linked(L, N, Nth(head, s, i))
  BY DEF Chain
<1> USE <1>0
<1>1. n \in Nat /\ \A i \in 1..n : s[i] \in N
  BY LenProperties, ElementOfSeq
<1>2. Len(t) = n + 1 /\ (\A i \in 1..n : t[i] = s[i]) /\ t[n + 1] = x
  BY AppendProperties
<1>3. last = Nth(head, s, n) /\ head = Nth(head, s, n + 1) /\ head = Nth(head, s, 0)
  BY <1>1 DEF IsRing, Nth
<1>4. /\ last \in N /\ head \in N /\ x # last
      /\ L[last] \in [prev : N, next : N] /\ L[head] \in [prev : N, next : N]
  BY <1>1, <1>3 DEF Linked, Nth
<1>5. /\ DOMAIN M = N
      /\ M[x] = [prev |-> last, next |-> head]
      /\ M[last].next = x
      /\ M[head].prev = x
      /\ last # head => M[last].prev = L[last].prev /\ M[head].next = L[head].next
      /\ \A m \in N \ {x, last, head} : M[m] = L[m]
      /\ M[last] \in [prev : N, next : N] /\ M[head] \in [prev : N, next : N]
  BY <1>4 DEF dlist_insert_before
<1> HIDE DEF M, last, t
<1>6. last = head <=> n = 0
  BY <1>1, <1>3 DEF IsRing, Nth
<1>7. ASSUME NEW i \in 0..(n + 1)
      PROVE  M[Nth(head, t, i)].next = Nth(head, t, i + 1) /\ M[Nth(head, t, i + 1)].prev = Nth(head, t, i)
  <2>1. CASE i = n + 1
    <3>1. Nth(head, t, i) = x /\ Nth(head, t, i + 1) = head
      BY <1>1, <1>2, <2>1 DEF Nth
    <3> QED
      BY <3>1, <1>5
  <2>2. CASE i = n
    <3>1. Nth(head, t, i) = last /\ Nth(head, t, i + 1) = x
      BY <1>1, <1>2, <1>3, <2>2 DEF Nth
    <3> QED
      BY <3>1, <1>5
  <2>3. CASE i < n
    <3>1. /\ i \in 0..n /\ Nth(head, t, i) = Nth(head, s, i) /\ Nth(head, t, i + 1) = Nth(head, s, i + 1)
      BY <1>1, <1>2, <2>3 DEF Nth
    <3>2. L[Nth(head, s, i)].next = Nth(head, s, i + 1) /\ L[Nth(head, s, i + 1)].prev = Nth(head, s, i)
      BY <3>1 DEF IsRing
    <3>3. Nth(head, s, i) # x /\ Nth(head, s, i) \in N /\ Nth(head, s, i) # last
      <4>1. CASE i = 0
        BY <4>1, <1>1, <1>4, <1>6, <2>3 DEF Nth
      <4>2. CASE i \in 1..n
        BY <4>2, <1>1, <1>3, <2>3 DEF Nth, IsRing
      <4> QED
        BY <4>1, <4>2, <3>1
    <3>4. i + 1 \in 1..n /\ Nth(head, s, i + 1) = s[i + 1]
      BY <1>1, <2>3 DEF Nth
    <3>5. s[i + 1] # x /\ s[i + 1] # head /\ s[i + 1] \in N
      BY <1>1, <3>4 DEF IsRing
    <3>6. M[Nth(head, s, i)].next = L[Nth(head, s, i)].next
      BY <1>5, <1>6, <3>3, <2>3, <1>1
    <3>7. M[s[i + 1]].prev = L[s[i + 1]].prev
      BY <1>5, <1>6, <3>5, <2>3, <1>1
    <3> QED
      BY <3>1, <3>2, <3>4, <3>6, <3>7
  <2> QED
    BY <2>1, <2>2, <2>3, <1>1
<1>8. IsRing(M, head, t)
  <2>1. \A i \in 1..Len(t) : t[i] # head
    BY <1>1, <1>2 DEF IsRing
  <2>2. \A i, j \in 1..Len(t) : t[i] = t[j] => i = j
    BY <1>1, <1>2 DEF IsRing
  <2> QED
    BY <2>1, <2>2, <1>2, <1>7 DEF IsRing
<1>9. /\ Linked(M, N, x)
      /\ \A m \in N : m # x /\ Linked(L, N, m) => Linked(M, N, m)
      /\ \A m \in N : m # x /\ ~Linked(L, N, m) => M[m] = L[m]
  BY <1>4, <1>5 DEF Linked
<1> QED
  BY <1>5, <1>8, <1>9 DEF M, t

(* dlist_detach takes one node out; its own pointers stay.                   *)
Without(s, k) == [i \in 1..(Len(s) - 1) |-> IF i < k THEN s[i] ELSE s[i + 1]]

LEMMA RingDetach ==
    ASSUME NEW N, NEW L, NEW head, NEW s, Chain(L, N, head, s), NEW k \in 1..Len(s)
    PROVE  LET M == dlist_detach(L, s[k]) IN
           /\ DOMAIN M = N
           /\ IsRing(M, head, Without(s, k))
           /\ Without(s, k) \in Seq(N) /\ Len(Without(s, k)) = Len(s) - 1
           /\ \A n \in N : Linked(L, N, n) => Linked(M, N, n)
           /\ \A n \in N : ~Linked(L, N, n) => M[n] = L[n]
<1> DEFINE n == Len(s)
           x == s[k]
           before == L[x].prev
           after == L[x].next
           M == dlist_detach(L, x)
           t == Without(s, k)
<1>0. DOMAIN L = N /\ s \in Seq(N) /\ IsRing(L, head, s) /\ \A i \in 0..n : Linked(L, N, Nth(head, s, i))
  BY DEF Chain
<1>z. 0 \in 0..n
  <2>1. n \in Nat
    BY <1>0, LenProperties
  <2> QED
    BY <2>1
<1> USE <1>0
<1>1. n \in Nat /\ \A i \in 1..n : s[i] \in N
  BY LenProperties, ElementOfSeq
<1>2. /\ t \in Seq(N) /\ Len(t) = n - 1
      /\ \A i \in 1..(n - 1) : t[i] = IF i < k THEN s[i] ELSE s[i + 1]
  BY <1>1 DEF Without
<1> HIDE DEF t
<1>3. /\ \A i \in 0..(k - 1) : Nth(head, t, i) = Nth(head, s, i)
      /\ \A i \in k..n : Nth(head, t, i) = Nth(head, s, i + 1)
  BY <1>1, <1>2 DEF Nth
<1>4. before = Nth(head, s, k - 1) /\ after = Nth(head, s, k + 1)
  <2>1. k \in 0..n /\ k - 1 \in 0..n /\ k - 1 + 1 = k /\ Nth(head, s, k) = x
    BY <1>1 DEF Nth
  <2> QED
    BY <2>1 DEF IsRing
<1>5. before \in N /\ after \in N /\ L[before] \in [prev : N, next : N] /\ L[after] \in [prev : N, next : N]
  <2>1. k - 1 \in 0..n
    BY <1>1
  <2>2. head = Nth(head, s, 0)
    BY DEF Nth
  <2>3. after = Nth(head, s, 0) \/ (k + 1 \in 0..n)
    <3>1. k + 1 = n + 1 \/ k + 1 \in 0..n
      BY <1>1
    <3>2. Nth(head, s, n + 1) = head
      BY <1>1 DEF Nth
    <3> QED
      BY <1>4, <2>2, <3>1, <3>2
  <2>4. 0 \in 0..n
    BY <1>z, Zenon
  <2> QED
    <3>1. \A i \in 0..n : /\ Nth(head, s, i) \in N
                          /\ L[Nth(head, s, i)] \in [prev : N, next : N]
      BY DEF Linked
    <3> HIDE DEF before, after
    <3> QED
      BY <2>1, <2>3, <2>4, <1>4, <3>1, Zenon
<1>6. /\ DOMAIN M = N
      /\ M[before].next = after /\ M[after].prev = before
      /\ \A m \in N \ {before, after} : M[m] = L[m]
      /\ before # after => M[before].prev = L[before].prev /\ M[after].next = L[after].next
      /\ M[before] \in [prev : N, next : N] /\ M[after] \in [prev : N, next : N]
  BY <1>5, Zenon DEF dlist_detach
<1> HIDE DEF M, before, after, x
<1>7. /\ \A i, j \in 0..n : Nth(head, s, i) = Nth(head, s, j) => i = j
      /\ \A i, j \in 1..(n + 1) : Nth(head, s, i) = Nth(head, s, j) => i = j
  BY <1>1, NthDistinct
<1>8. \A i \in 0..(n + 1) : Nth(head, s, i) \in N
  <2>1. head = Nth(head, s, 0) /\ 0 \in 0..n
    BY <1>1 DEF Nth
  <2>2. head \in N
    BY <2>1 DEF Linked
  <2> QED
    BY <1>1, <2>2 DEF Nth
<1>9. ASSUME NEW i \in 0..(n - 1)
      PROVE  M[Nth(head, t, i)].next = Nth(head, t, i + 1) /\ M[Nth(head, t, i + 1)].prev = Nth(head, t, i)
  <2>1. CASE i = k - 1
    <3>1. Nth(head, t, i) = before /\ Nth(head, t, i + 1) = after
      BY <1>1, <1>3, <1>4, <2>1
    <3> QED
      BY <3>1, <1>6
  <2>2. ASSUME NEW j \in 0..n, j # k - 1, j # k,
               Nth(head, t, i) = Nth(head, s, j), Nth(head, t, i + 1) = Nth(head, s, j + 1)
        PROVE  M[Nth(head, t, i)].next = Nth(head, t, i + 1) /\ M[Nth(head, t, i + 1)].prev = Nth(head, t, i)
    <3> DEFINE p == Nth(head, s, j)
               q == Nth(head, s, j + 1)
    <3>1. L[p].next = q /\ L[q].prev = p
      BY <2>2 DEF IsRing
    <3>2. p # before
      BY <1>1, <1>4, <1>7, <2>2
    <3>3. q # after
      <4>1. j + 1 \in 1..(n + 1) /\ k + 1 \in 1..(n + 1) /\ j + 1 # k + 1
        BY <1>1, <2>2
      <4> QED
        BY <1>4, <1>7, <4>1
    <3>4. p \in N /\ q \in N
      BY <1>1, <1>8, <2>2
    <3> HIDE DEF p, q
    <3>5. M[p].next = L[p].next
      BY <1>6, <3>2, <3>4
    <3>6. M[q].prev = L[q].prev
      BY <1>6, <3>3, <3>4
    <3> QED
      BY <2>2, <3>1, <3>5, <3>6 DEF p, q
  <2>3. CASE i < k - 1
    <3>1. /\ i \in 0..n /\ i # k - 1 /\ i # k
          /\ Nth(head, t, i) = Nth(head, s, i) /\ Nth(head, t, i + 1) = Nth(head, s, i + 1)
      BY <1>1, <1>3, <2>3
    <3> QED
      BY <2>2, <3>1
  <2>4. CASE i > k - 1
    <3>1. /\ i + 1 \in 0..n /\ i + 1 # k - 1 /\ i + 1 # k
          /\ Nth(head, t, i) = Nth(head, s, i + 1) /\ Nth(head, t, i + 1) = Nth(head, s, i + 1 + 1)
      BY <1>1, <1>3, <2>4
    <3> QED
      BY <2>2, <3>1
  <2> QED
    BY <2>1, <2>3, <2>4, <1>1
<1>10. IsRing(M, head, t)
  <2>1. \A i \in 1..Len(t) : t[i] # head
    BY <1>1, <1>2 DEF IsRing
  <2>2. \A i, j \in 1..Len(t) : t[i] = t[j] => i = j
    <3> SUFFICES ASSUME NEW i \in 1..Len(t), NEW j \in 1..Len(t), t[i] = t[j] PROVE i = j
      OBVIOUS
    <3>1. i \in 1..(n - 1) /\ j \in 1..(n - 1)
      BY <1>2
    <3> DEFINE at(m) == IF m < k THEN m ELSE m + 1
    <3>2. s[at(i)] = s[at(j)]
      BY <1>2, <3>1
    <3>3. at(i) \in 1..n /\ at(j) \in 1..n
      BY <1>1, <3>1
    <3>4. at(i) = at(j)
      BY <3>2, <3>3 DEF IsRing
    <3> QED
      BY <3>1, <3>4
  <2> QED
    BY <2>1, <2>2, <1>2, <1>9 DEF IsRing
<1>11. /\ \A m \in N : Linked(L, N, m) => Linked(M, N, m)
       /\ \A m \in N : ~Linked(L, N, m) => M[m] = L[m]
  BY <1>5, <1>6 DEF Linked
<1> QED
  BY <1>2, <1>6, <1>10, <1>11 DEF M, t, x, before, after

LEMMA RingNodes ==
    ASSUME NEW L, NEW s, NEW F, Ring(L, s, F)
    PROVE  /\ s \in Seq(Nodes) /\ Len(s) \in Nat
           /\ \A i \in 1..Len(s) : s[i] \in F /\ s[i] # IdleHead
           /\ Chain(L, Nodes, IdleHead, s)
<1>1. s \in Seq(Fds) /\ Len(s) \in Nat /\ \A i \in 1..Len(s) : s[i] \in Fds
  BY LenProperties, ElementOfSeq DEF Ring
<1>2. s \in Seq(Nodes)
  BY <1>1, SeqMonotonic DEF Nodes
<1>3. \A i \in 1..Len(s) : s[i] \in F /\ s[i] # IdleHead
  BY <1>1 DEF Ring, IsRing
<1>4. \A i \in 0..Len(s) : Nth(IdleHead, s, i) \in F \cup {IdleHead}
  BY <1>3 DEF Nth
<1>5. F \cup {IdleHead} \subseteq Nodes
  BY DEF Ring, Nodes
<1>6. \A i \in 0..Len(s) : Linked(L, Nodes, Nth(IdleHead, s, i))
  BY <1>4, <1>5 DEF Ring, Linked, Links
<1>7. DOMAIN L = Nodes /\ IsRing(L, IdleHead, s)
  BY DEF Ring
<1> QED
  BY <1>1, <1>2, <1>3, <1>6, <1>7 DEF Chain

LEMMA InsertEnd ==
    ASSUME NEW L, NEW s, NEW F, Ring(L, s, F), NEW fd \in Fds \ F
    PROVE  Ring(dlist_insert_before(L, IdleHead, fd), Append(s, fd), F \cup {fd})
<1> DEFINE M == dlist_insert_before(L, IdleHead, fd)
           t == Append(s, fd)
<1>1. /\ s \in Seq(Nodes) /\ Len(s) \in Nat
      /\ \A i \in 1..Len(s) : s[i] \in F /\ s[i] # IdleHead
      /\ Chain(L, Nodes, IdleHead, s)
  BY RingNodes
<1>2. fd \in Nodes /\ fd # IdleHead /\ \A i \in 1..Len(s) : s[i] # fd
  BY <1>1, EventLoopAssumption DEF Nodes, IdleHead
<1>3. /\ DOMAIN M = Nodes
      /\ IsRing(M, IdleHead, t)
      /\ M[fd] \in Links
      /\ \A n \in Nodes : n # fd /\ L[n] \in Links => M[n] \in Links
      /\ \A n \in Nodes : n # fd /\ L[n] \notin Links => M[n] = L[n]
  <2>1. IsRing(L, IdleHead, s)
    BY DEF Ring
  <2>2. /\ DOMAIN dlist_insert_before(L, IdleHead, fd) = Nodes
        /\ IsRing(dlist_insert_before(L, IdleHead, fd), IdleHead, Append(s, fd))
        /\ Linked(dlist_insert_before(L, IdleHead, fd), Nodes, fd)
        /\ \A n \in Nodes : n # fd /\ Linked(L, Nodes, n) =>
              Linked(dlist_insert_before(L, IdleHead, fd), Nodes, n)
        /\ \A n \in Nodes : n # fd /\ ~Linked(L, Nodes, n) =>
              dlist_insert_before(L, IdleHead, fd)[n] = L[n]
    BY <1>1, <1>2, <2>1, RingInsert
  <2> HIDE DEF M, t
  <2> QED
    BY <2>2 DEF Linked, Links, M, t
<1>4. /\ t \in Seq(Fds) /\ Len(t) = Len(s) + 1 /\ t[Len(s) + 1] = fd
      /\ \A i \in 1..Len(s) : t[i] = s[i]
  BY AppendProperties DEF Ring
<1>5. ASSUME NEW x \in Fds PROVE x \in F \cup {fd} <=> \E i \in 1..Len(t) : t[i] = x
  <2>1. x \in F <=> \E i \in 1..Len(s) : s[i] = x
    BY DEF Ring
  <2>2. Len(s) + 1 \in 1..Len(t) /\ \A i \in 1..Len(s) : i \in 1..Len(t)
    BY <1>1, <1>4
  <2>3. \A i \in 1..Len(t) : i \in 1..Len(s) \/ i = Len(s) + 1
    BY <1>1, <1>4
  <2> QED
    BY <1>4, <2>1, <2>2, <2>3
<1>6. M \in [Nodes -> Links \cup {NULL}]
  <2>1. M = [n \in Nodes |-> M[n]]
    BY <1>3 DEF dlist_insert_before
  <2>2. \A n \in Nodes : M[n] \in Links \cup {NULL}
    BY <1>3 DEF Ring
  <2> HIDE DEF M
  <2> QED
    BY <2>1, <2>2
<1>7. \A n \in F \cup {fd, IdleHead} : M[n] \in Links
  BY <1>3 DEF Ring, Nodes
<1> QED
  BY <1>3, <1>4, <1>5, <1>6, <1>7 DEF Ring

LEMMA DetachOne ==
    ASSUME NEW L, NEW s, NEW F, Ring(L, s, F), NEW k \in 1..Len(s)
    PROVE  Ring(dlist_detach(L, s[k]), Without(s, k), F \ {s[k]})
<1> DEFINE M == dlist_detach(L, s[k])
           t == Without(s, k)
<1>1. /\ s \in Seq(Nodes) /\ Len(s) \in Nat
      /\ \A i \in 1..Len(s) : s[i] \in F /\ s[i] # IdleHead
      /\ Chain(L, Nodes, IdleHead, s)
  BY RingNodes
<1>2. IsRing(L, IdleHead, s)
  BY DEF Ring
<1>3. /\ DOMAIN M = Nodes
      /\ IsRing(M, IdleHead, t)
      /\ Len(t) = Len(s) - 1
      /\ \A n \in Nodes : L[n] \in Links => M[n] \in Links
      /\ \A n \in Nodes : L[n] \notin Links => M[n] = L[n]
  <2>1. /\ DOMAIN dlist_detach(L, s[k]) = Nodes
        /\ IsRing(dlist_detach(L, s[k]), IdleHead, Without(s, k))
        /\ Len(Without(s, k)) = Len(s) - 1
        /\ \A n \in Nodes : Linked(L, Nodes, n) => Linked(dlist_detach(L, s[k]), Nodes, n)
        /\ \A n \in Nodes : ~Linked(L, Nodes, n) => dlist_detach(L, s[k])[n] = L[n]
    BY <1>1, <1>2, RingDetach
  <2>2. \A n \in Nodes : Linked(L, Nodes, n) <=> L[n] \in Links
    BY DEF Linked, Links
  <2>3. \A n \in Nodes : Linked(M, Nodes, n) <=> M[n] \in Links
    <3> HIDE DEF M
    <3> QED
      BY DEF Linked, Links
  <2> QED
    BY <2>1, <2>2, <2>3, Zenon
<1>4. t \in Seq(Fds) /\ \A i \in 1..(Len(s) - 1) : t[i] = IF i < k THEN s[i] ELSE s[i + 1]
  <2>1. \A i \in 1..Len(s) : s[i] \in Fds
    BY ElementOfSeq DEF Ring
  <2> QED
    BY <1>1, <2>1 DEF Without
<1>5. ASSUME NEW x \in Fds PROVE x \in F \ {s[k]} <=> \E i \in 1..Len(t) : t[i] = x
  <2>1. x \in F <=> \E i \in 1..Len(s) : s[i] = x
    BY DEF Ring
  <2>2. ASSUME NEW i \in 1..Len(s), s[i] = x, x # s[k] PROVE \E j \in 1..Len(t) : t[j] = x
    <3>1. CASE i < k
      <4>1. i \in 1..(Len(s) - 1)
        BY <1>1, <3>1
      <4> QED
        BY <1>3, <1>4, <2>2, <3>1, <4>1
    <3>2. CASE i > k
      <4>1. i - 1 \in 1..(Len(s) - 1) /\ ~(i - 1 < k) /\ (i - 1) + 1 = i
        BY <1>1, <3>2
      <4>2. t[i - 1] = s[i]
        BY <1>4, <4>1
      <4> QED
        BY <1>3, <2>2, <4>1, <4>2
    <3> QED
      BY <2>2, <3>1, <3>2, <1>1
  <2>3. ASSUME NEW j \in 1..Len(t), t[j] = x PROVE x \in F /\ x # s[k]
    <3>1. j \in 1..(Len(s) - 1)
      BY <1>3
    <3>2. CASE j < k
      <4>1. t[j] = s[j]
        BY <1>4, <3>1, <3>2
      <4>2. j \in 1..Len(s) /\ j # k
        BY <1>1, <3>1, <3>2
      <4> QED
        BY <1>1, <1>2, <2>3, <4>1, <4>2 DEF IsRing
    <3>3. CASE ~(j < k)
      <4>1. t[j] = s[j + 1]
        BY <1>4, <3>1, <3>3
      <4>2. j + 1 \in 1..Len(s) /\ j + 1 # k
        BY <1>1, <3>1, <3>3
      <4> QED
        BY <1>1, <1>2, <2>3, <4>1, <4>2 DEF IsRing
    <3> QED
      BY <3>2, <3>3
  <2> QED
    BY <2>1, <2>2, <2>3
<1>6. M \in [Nodes -> Links \cup {NULL}]
  <2>1. M = [n \in Nodes |-> M[n]]
    BY <1>3, Zenon DEF dlist_detach
  <2>2. \A n \in Nodes : M[n] \in Links \cup {NULL}
    BY <1>3 DEF Ring
  <2> HIDE DEF M
  <2> QED
    BY <2>1, <2>2, Zenon
<1>7. \A n \in (F \ {s[k]}) \cup {IdleHead} : M[n] \in Links
  BY <1>3 DEF Ring, Nodes
<1>8. F \ {s[k]} \subseteq Fds /\ IsRing(M, IdleHead, t)
  BY <1>3 DEF Ring
<1> HIDE DEF M, t
<1>9. Ring(M, t, F \ {s[k]})
  BY <1>4, <1>5, <1>6, <1>7, <1>8 DEF Ring
<1> QED
  BY <1>9 DEF M, t

LEMMA FreeOne ==
    ASSUME NEW L, NEW s, NEW F, Ring(L, s, F), NEW fd \in Fds \ F
    PROVE  Ring([L EXCEPT ![fd] = NULL], s, F)
<1> DEFINE M == [L EXCEPT ![fd] = NULL]
<1>1. /\ Len(s) \in Nat
      /\ \A i \in 0..Len(s) : Nth(IdleHead, s, i) \in F \cup {IdleHead}
  BY RingNodes DEF Nth
<1>2. fd \in Nodes /\ fd # IdleHead
  BY EventLoopAssumption DEF Nodes, IdleHead
<1>3. M \in [Nodes -> Links \cup {NULL}] /\ \A n \in F \cup {IdleHead} : M[n] = L[n] /\ n \in Nodes
  BY <1>1, <1>2 DEF Ring, Nodes
<1>4. \A i \in 0..(Len(s) + 1) : M[Nth(IdleHead, s, i)] = L[Nth(IdleHead, s, i)]
  BY <1>1, <1>3 DEF Nth
<1>5. IsRing(M, IdleHead, s)
  <2>1. \A i \in 0..Len(s) : i \in 0..(Len(s) + 1) /\ i + 1 \in 0..(Len(s) + 1)
    BY <1>1
  <2> QED
    BY <1>4, <2>1 DEF Ring, IsRing
<1> QED
  BY <1>3, <1>5 DEF Ring

-----------------------------------------------------------------------------
(* The idle list's three uses.                                               *)
LEMMA SortedWithout ==
    ASSUME NEW s \in Seq(Fds), NEW k \in 1..Len(s), NEW conns, NEW conns2, Sorted(s, conns),
           \A i \in 1..Len(s) : i # k => conns2[s[i]] = conns[s[i]]
    PROVE  Sorted(Without(s, k), conns2)
<1> DEFINE t == Without(s, k)
           at(i) == IF i < k THEN i ELSE i + 1
<1>1. Len(s) \in Nat
  BY LenProperties
<1>2. Len(t) = Len(s) - 1 /\ \A i \in 1..(Len(s) - 1) : t[i] = s[at(i)]
  BY <1>1 DEF Without
<1> HIDE DEF t
<1>3. \A i \in 1..(Len(s) - 1) : at(i) \in 1..Len(s) /\ at(i) # k
  BY <1>1
<1>4. \A i, j \in 1..(Len(s) - 1) : i <= j => at(i) <= at(j)
  BY <1>1
<1> HIDE DEF at
<1>5. ASSUME NEW i \in 1..Len(t), NEW j \in 1..Len(t), i <= j
      PROVE  conns2[t[i]].last_active <= conns2[t[j]].last_active
  <2>1. at(i) \in 1..Len(s) /\ at(j) \in 1..Len(s) /\ at(i) <= at(j) /\ at(i) # k /\ at(j) # k
    BY <1>2, <1>3, <1>4, <1>5
  <2>2. t[i] = s[at(i)] /\ t[j] = s[at(j)]
    BY <1>2, <1>5
  <2>3. conns[s[at(i)]].last_active <= conns[s[at(j)]].last_active
    BY <2>1 DEF Sorted
  <2> QED
    BY <2>1, <2>2, <2>3
<1> QED
  BY <1>5 DEF Sorted, t

LEMMA SortedAppend ==
    ASSUME NEW s \in Seq(Fds), NEW fd \in Fds, NEW conns, NEW conns2, Sorted(s, conns),
           conns2[fd].last_active \in Int,
           \A i \in 1..Len(s) : /\ conns2[s[i]] = conns[s[i]]
                                /\ conns2[s[i]].last_active <= conns2[fd].last_active
    PROVE  Sorted(Append(s, fd), conns2)
<1> DEFINE t == Append(s, fd)
<1>1. Len(s) \in Nat
  BY LenProperties
<1>2. /\ Len(t) = Len(s) + 1 /\ t[Len(s) + 1] = fd
      /\ \A i \in 1..Len(s) : t[i] = s[i]
  BY AppendProperties
<1> HIDE DEF t
<1>3. ASSUME NEW i \in 1..Len(t), NEW j \in 1..Len(t), i <= j
      PROVE  conns2[t[i]].last_active <= conns2[t[j]].last_active
  <2>1. CASE j = Len(s) + 1
    <3>1. i \in 1..Len(s) \/ i = Len(s) + 1
      BY <1>1, <1>2
    <3> QED
      BY <3>1, <2>1, <1>2
  <2>2. CASE j # Len(s) + 1
    <3>1. i \in 1..Len(s) /\ j \in 1..Len(s)
      BY <1>1, <1>2, <1>3, <2>2
    <3> QED
      BY <1>2, <1>3, <3>1 DEF Sorted
  <2> QED
    BY <2>1, <2>2
<1> QED
  BY <1>3 DEF Sorted, t

(* handle_accept: a new connection goes to the end.                          *)
LEMMA ListAccept ==
    ASSUME NEW L, NEW F, NEW conns, NEW conns2, NEW fd \in Fds \ F,
           \E s \in Seq(Fds) : Ring(L, s, F) /\ Sorted(s, conns),
           conns2[fd].last_active \in Int,
           \A f \in F : /\ conns2[f] = conns[f]
                        /\ conns2[f].last_active <= conns2[fd].last_active
    PROVE  \E t \in Seq(Fds) : /\ Ring(dlist_insert_before(L, IdleHead, fd), t, F \cup {fd})
                               /\ Sorted(t, conns2)
<1>1. PICK s \in Seq(Fds) : Ring(L, s, F) /\ Sorted(s, conns)
  OBVIOUS
<1>2. \A i \in 1..Len(s) : s[i] \in F
  BY <1>1, RingNodes
<1>3. Sorted(Append(s, fd), conns2)
  BY <1>1, <1>2, SortedAppend
<1>4. Append(s, fd) \in Seq(Fds)
  BY AppendProperties
<1> QED
  BY <1>1, <1>3, <1>4, InsertEnd

(* conn_destroy: it goes, and its node with it.                              *)
LEMMA ListDestroy ==
    ASSUME NEW L, NEW F, NEW conns, NEW conns2, NEW fd \in F,
           \E s \in Seq(Fds) : Ring(L, s, F) /\ Sorted(s, conns),
           \A f \in F \ {fd} : conns2[f] = conns[f]
    PROVE  \E t \in Seq(Fds) : /\ Ring([dlist_detach(L, fd) EXCEPT ![fd] = NULL], t, F \ {fd})
                               /\ Ring(dlist_detach(L, fd), t, F \ {fd})
                               /\ Sorted(t, conns2)
<1>1. PICK s \in Seq(Fds) : Ring(L, s, F) /\ Sorted(s, conns)
  OBVIOUS
<1>2. Len(s) \in Nat /\ \A i \in 1..Len(s) : s[i] \in F
  BY <1>1, RingNodes
<1>3. PICK k \in 1..Len(s) : s[k] = fd
  BY <1>1 DEF Ring
<1>4. \A i \in 1..Len(s) : i # k => s[i] # fd
  BY <1>1, <1>3 DEF Ring, IsRing
<1>5. Sorted(Without(s, k), conns2)
  BY <1>1, <1>2, <1>4, SortedWithout
<1>6. Ring(dlist_detach(L, fd), Without(s, k), F \ {fd})
  BY <1>1, <1>3, DetachOne
<1>7. Without(s, k) \in Seq(Fds)
  BY <1>6 DEF Ring
<1>8. fd \in Fds \ (F \ {fd})
  BY <1>1 DEF Ring
<1>9. Ring([dlist_detach(L, fd) EXCEPT ![fd] = NULL], Without(s, k), F \ {fd})
  BY <1>6, <1>8, FreeOne
<1> QED
  BY <1>5, <1>6, <1>7, <1>9

(* handle_events: a connection that was active goes to the end.              *)
LEMMA ListMove ==
    ASSUME NEW L, NEW F, NEW conns, NEW conns2, NEW fd \in F,
           \E s \in Seq(Fds) : Ring(L, s, F) /\ Sorted(s, conns),
           conns2[fd].last_active \in Int,
           \A f \in F \ {fd} : /\ conns2[f] = conns[f]
                               /\ conns2[f].last_active <= conns2[fd].last_active
    PROVE  \E t \in Seq(Fds) :
              /\ Ring(dlist_insert_before(dlist_detach(L, fd), IdleHead, fd), t, F)
              /\ Sorted(t, conns2)
<1> DEFINE M == dlist_detach(L, fd)
           G == F \ {fd}
<1>1. \E t \in Seq(Fds) : Ring(M, t, G) /\ Sorted(t, conns2)
  BY ListDestroy
<1>2. fd \in Fds \ G /\ G \cup {fd} = F
  BY DEF Ring
<1>3. \A f \in G : conns2[f].last_active <= conns2[fd].last_active
  OBVIOUS
<1> HIDE DEF M, G
<1>4. \E t \in Seq(Fds) : Ring(dlist_insert_before(M, IdleHead, fd), t, G \cup {fd}) /\ Sorted(t, conns2)
  BY <1>1, <1>2, <1>3, ListAccept
<1> QED
  BY <1>2, <1>4 DEF M

(* The connection at the head of the list has been idle the longest.         *)
LEMMA ListHead ==
    ASSUME NEW L, NEW F, NEW conns,
           \E s \in Seq(Fds) : Ring(L, s, F) /\ Sorted(s, conns)
    PROVE  /\ dlist_empty(L, IdleHead) <=> F = {}
           /\ F # {} => /\ L[IdleHead].next \in F
                        /\ \A f \in F : conns[L[IdleHead].next].last_active <= conns[f].last_active
<1>1. PICK s \in Seq(Fds) : Ring(L, s, F) /\ Sorted(s, conns)
  OBVIOUS
<1>2. Len(s) \in Nat /\ \A i \in 1..Len(s) : s[i] \in F /\ s[i] # IdleHead
  BY <1>1, RingNodes
<1>3. F \subseteq Fds /\ \A fd \in Fds : fd \in F <=> \E i \in 1..Len(s) : s[i] = fd
  BY <1>1 DEF Ring
<1>4. L[IdleHead].next = Nth(IdleHead, s, 1)
  <2>1. 0 \in 0..Len(s) /\ Nth(IdleHead, s, 0) = IdleHead /\ 0 + 1 = 1
    BY <1>2 DEF Nth
  <2> QED
    BY <1>1, <2>1 DEF Ring, IsRing
<1>5. CASE Len(s) = 0
  <2>1. 1 \notin 1..Len(s) /\ \A i \in 1..Len(s) : FALSE
    BY <1>5
  <2>2. F = {} /\ L[IdleHead].next = IdleHead
    BY <1>3, <1>4, <2>1 DEF Nth
  <2> QED
    BY <2>2 DEF dlist_empty
<1>6. CASE Len(s) # 0
  <2>1. 1 \in 1..Len(s)
    BY <1>2, <1>6
  <2>2. L[IdleHead].next = s[1] /\ s[1] \in F /\ s[1] # IdleHead
    BY <1>2, <1>4, <2>1 DEF Nth
  <2>3. \A i \in 1..Len(s) : conns[s[1]].last_active <= conns[s[i]].last_active
    BY <1>1, <2>1 DEF Sorted
  <2>4. \A f \in F : conns[s[1]].last_active <= conns[f].last_active
    BY <1>3, <2>3
  <2> QED
    BY <2>2, <2>4 DEF dlist_empty
<1> QED
  BY <1>5, <1>6

-----------------------------------------------------------------------------
(* next_timer_ms.                                                            *)
LEMMA InInt32 ==
    ASSUME NEW n \in Int
    PROVE  ToInt32(n) \in -Half..(Half - 1)
<1>1. Half \in Nat /\ Half > 0 /\ 2 * Half > 0
  BY EventLoopAssumption
<1> DEFINE m == 2 * Half
<1>2. \A x, y \in Int : y > 0 => x % y \in 0..(y - 1)
  OBVIOUS
<1>3. (n + Half) % m \in 0..(m - 1)
  <2>1. n + Half \in Int /\ m \in Int /\ m > 0
    BY <1>1
  <2> HIDE DEF m
  <2> QED
    BY <1>2, <2>1
<1> QED
  BY <1>1, <1>3 DEF ToInt32

LEMMA SameInt32 ==
    ASSUME NEW n \in Nat, n < Half
    PROVE  ToInt32(n) = n
<1>1. Half \in Nat /\ Half > 0 /\ 2 * Half > 0
  BY EventLoopAssumption
<1>2. \A x, y \in Nat : x < y => x % y = x
  OBVIOUS
<1>3. n + Half \in Nat /\ 2 * Half \in Nat /\ n + Half < 2 * Half
  BY <1>1
<1>4. (n + Half) % (2 * Half) = n + Half
  BY <1>2, <1>3
<1> QED
  BY <1>1, <1>4 DEF ToInt32

(* The deadlines poll() must not miss.                                       *)
LEMMA Deadlines ==
    ASSUME TypeOK, RingInv
    PROVE  /\ IdleDue \cup TTLDue \subseteq Nat
           /\ \A fd \in Open : /\ fd2conn[fd].last_active + IdleTimeout \in Nat
                               /\ \E d \in IdleDue : d <= fd2conn[fd].last_active + IdleTimeout
           /\ Open # {} => /\ Oldest \in Open
                           /\ IdleDue = {fd2conn[Oldest].last_active + IdleTimeout}
           /\ Open = {} => IdleDue = {}
<1>1. \A fd \in Open : fd \in Fds /\ fd2conn[fd] \in Conns /\ fd2conn[fd].last_active \in Nat
  BY DEF TypeOK, Open, Conns
<1>2. IdleTimeout \in Nat /\ TTLs \subseteq Nat
  BY EventLoopAssumption
<1>3. /\ dlist_empty(idle_node, IdleHead) <=> Open = {}
      /\ Open # {} => /\ Oldest \in Open
                      /\ \A f \in Open : fd2conn[Oldest].last_active <= fd2conn[f].last_active
  <2>1. \E s \in Seq(Fds) : Ring(idle_node, s, Open) /\ Sorted(s, fd2conn)
    BY DEF RingInv
  <2> QED
    BY <2>1, ListHead DEF Oldest
<1>4. TTLDue \subseteq Nat
  BY <1>2 DEF TTLDue, TypeOK
<1>5. CASE Open = {}
  BY <1>3, <1>4, <1>5 DEF IdleDue
<1>6. CASE Open # {}
  <2>1. IdleDue = {fd2conn[Oldest].last_active + IdleTimeout} /\ Oldest \in Open
    BY <1>3, <1>6 DEF IdleDue
  <2>2. \A fd \in Open : fd2conn[fd].last_active + IdleTimeout \in Nat
    BY <1>1, <1>2
  <2>3. \A fd \in Open : fd2conn[Oldest].last_active + IdleTimeout <= fd2conn[fd].last_active + IdleTimeout
    BY <1>1, <1>2, <1>3, <1>6
  <2> QED
    BY <1>4, <1>6, <2>1, <2>2, <2>3
<1> QED
  BY <1>5, <1>6

LEMMA NextTimer ==
    ASSUME TypeOK, RingInv
    PROVE  /\ next_timer_ms \in -Half..(Half - 1)
           /\ IdleDue \cup TTLDue = {} => next_timer_ms = -1
           /\ IdleDue \cup TTLDue # {} =>
                 \E d \in IdleDue \cup TTLDue :
                    /\ \A x \in IdleDue \cup TTLDue : d <= x
                    /\ next_timer_ms = IF d <= now THEN 0 ELSE ToInt32(d - now)
<1> DEFINE due == IdleDue \cup TTLDue
           next_ms == CHOOSE d \in due : \A x \in due : d <= x
<1>1. due \subseteq Nat /\ now \in Nat /\ Half \in Nat /\ Half > 0
  BY Deadlines, EventLoopAssumption DEF TypeOK
<1> HIDE DEF due
<1>2. CASE due = {}
  <2>1. next_timer_ms = -1
    BY <1>2 DEF next_timer_ms, due
  <2> QED
    BY <1>1, <1>2, <2>1 DEF due
<1>3. CASE due # {}
  <2>1. \E d \in due : \A x \in due : d <= x
    BY <1>1, <1>3, NatMin
  <2>2. next_ms \in due /\ \A x \in due : next_ms <= x
    BY <2>1
  <2>3. next_timer_ms = IF next_ms <= now THEN 0 ELSE ToInt32(next_ms - now)
    BY <1>3 DEF next_timer_ms, due
  <2> HIDE DEF next_ms
  <2>4. next_ms - now \in Int
    BY <1>1, <2>2
  <2>5. next_timer_ms \in -Half..(Half - 1)
    BY <1>1, <2>3, <2>4, InInt32
  <2> QED
    BY <1>3, <2>2, <2>3, <2>5 DEF due
<1> QED
  BY <1>2, <1>3

-----------------------------------------------------------------------------
(* The invariant is inductive.                                               *)
LEMMA InitIInv == Init => IInv
<1> SUFFICES ASSUME Init PROVE IInv
  OBVIOUS
<1> USE EventLoopAssumption
<1>1. Open = {}
  BY DEF Init, Open
<1>2. idle_node = [n \in Nodes |-> IF n = IdleHead THEN [prev |-> IdleHead, next |-> IdleHead] ELSE NULL]
  BY DEF Init, dlist_init, Nodes
<1>3. TypeOK
  <2>1. idle_node \in [Nodes -> Links \cup {NULL}]
    BY <1>2 DEF Links, Nodes
  <2>2. DOMAIN revents = {} /\ revents \in [DOMAIN revents -> SUBSET {"POLLIN", "POLLOUT", "POLLERR"}]
    BY DEF Init
  <2>3. timeout_ms \in -Half..(Half - 1)
    BY DEF Init
  <2>4. now \in 0..MaxTime /\ now_ms \in 0..now /\ slept_at \in 0..now /\ spurious \in 0..MaxSpurious
    BY DEF Init
  <2> QED
    BY <2>1, <2>2, <2>3, <2>4 DEF Init, TypeOK
<1>4. MapIsExact
  BY DEF Init, MapIsExact
<1>5. ConnInv /\ ClockInv
  BY <1>1 DEF ConnInv, ClockInv
<1>6. ReportInv
  BY DEF Init, ReportInv, ReportsStillWanted
<1>7. RingInv
  <2> DEFINE s == << >>
  <2>1. s \in Seq(Fds) /\ Len(s) = 0
    OBVIOUS
  <2>2. \A i \in 0..0 : i = 0
    OBVIOUS
  <2>3. Nth(IdleHead, s, 0) = IdleHead /\ Nth(IdleHead, s, 1) = IdleHead
    BY <2>1 DEF Nth
  <2>4. idle_node[IdleHead] = [prev |-> IdleHead, next |-> IdleHead] /\ idle_node[IdleHead] \in Links
    BY <1>2 DEF Nodes, Links
  <2>5. idle_node \in [Nodes -> Links \cup {NULL}]
    BY <1>3 DEF TypeOK
  <2> HIDE DEF s
  <2>6. \A i \in 1..Len(s) : FALSE
    BY <2>1
  <2>7. \A i \in 0..Len(s) : i = 0
    BY <2>1
  <2>8. IsRing(idle_node, IdleHead, s)
    BY <2>3, <2>4, <2>6, <2>7 DEF IsRing
  <2>9. Ring(idle_node, s, Open) /\ Sorted(s, fd2conn)
    BY <1>1, <2>1, <2>4, <2>5, <2>6, <2>8 DEF Ring, Sorted
  <2> QED
    BY <2>1, <2>9 DEF RingInv
<1> QED
  BY <1>3, <1>4, <1>5, <1>6, <1>7 DEF IInv

(* A step that leaves the connections, their sockets and the list alone.     *)
LEMMA ConnsAlone ==
    ASSUME IInv, UNCHANGED <<fd2conn, sock, idle_node>>, now' \in Nat, now <= now'
    PROVE  /\ Open' = Open
           /\ MapIsExact' /\ ConnInv' /\ RingInv' /\ ClockInv'
           /\ fd2conn' \in [Fds -> Conns \cup {NULL}]
           /\ sock' \in [Fds -> Socks \cup {NULL}]
           /\ idle_node' \in [Nodes -> Links \cup {NULL}]
<1>1. Open' = Open
  BY DEF Open
<1>2. MapIsExact'
  BY DEF IInv, MapIsExact
<1>3. ConnInv'
  BY <1>1 DEF IInv, ConnInv
<1>4. RingInv'
  BY <1>1 DEF IInv, RingInv
<1>5. ClockInv'
  <2>1. \A fd \in Open : fd2conn[fd].last_active \in Nat /\ fd2conn[fd].last_active <= now
    BY DEF IInv, TypeOK, Open, Conns, ClockInv
  <2>2. now \in Nat
    BY DEF IInv, TypeOK
  <2> QED
    BY <1>1, <2>1, <2>2 DEF ClockInv
<1> QED
  BY <1>1, <1>2, <1>3, <1>4, <1>5 DEF IInv, TypeOK

(* So do most of the loop's own.                                             *)
LEMMA PrepareKeeps == IInv /\ Prepare => IInv'
<1> SUFFICES ASSUME IInv, Prepare PROVE IInv'
  OBVIOUS
<1>1. now' = now /\ now \in Nat
  BY DEF IInv, TypeOK, Prepare
<1>2. /\ MapIsExact' /\ ConnInv' /\ RingInv' /\ ClockInv'
      /\ fd2conn' \in [Fds -> Conns \cup {NULL}]
      /\ sock' \in [Fds -> Socks \cup {NULL}]
      /\ idle_node' \in [Nodes -> Links \cup {NULL}]
  BY <1>1, ConnsAlone DEF Prepare
<1>3. timeout_ms' \in -Half..(Half - 1)
  BY NextTimer DEF IInv, Prepare
<1>4. slept_at' \in 0..now' /\ now_ms' \in 0..now' /\ now' \in 0..MaxTime
  BY <1>1 DEF IInv, TypeOK, Prepare
<1>5. TypeOK'
  BY <1>2, <1>3, <1>4 DEF IInv, TypeOK, Prepare
<1>6. ReportInv'
  BY DEF IInv, ReportInv, ReportsStillWanted, Prepare
<1> QED
  BY <1>2, <1>5, <1>6 DEF IInv

LEMMA OpenFinite ==
    ASSUME RingInv
    PROVE  IsFiniteSet(Open)
<1>1. PICK s \in Seq(Fds) : Ring(idle_node, s, Open)
  BY DEF RingInv
<1>2. Len(s) \in Nat /\ \A i \in 1..Len(s) : s[i] \in Open
  BY <1>1, RingNodes
<1>3. \A fd \in Open : \E i \in 1..Len(s) : s[i] = fd
  BY <1>1 DEF Ring
<1> DEFINE f == [i \in 1..Len(s) |-> s[i]]
<1>4. f \in Surjection(1..Len(s), Open)
  BY <1>2, <1>3 DEF Surjection
<1>5. IsFiniteSet(1..Len(s))
  BY <1>2, FS_Interval
<1> QED
  BY <1>4, <1>5, FS_Surjection

LEMMA PollReturnsKeeps ==
    ASSUME IInv, NEW lies \in SUBSET Open, PollReturns(lies)
    PROVE  IInv'
<1> DEFINE ev == [fd \in Open |-> Events(fd, fd \in lies)]
           ready == {fd \in Open : ev[fd] # {}}
<1>1. now' = now /\ now \in Nat
  BY DEF IInv, TypeOK, PollReturns
<1>2. /\ Open' = Open /\ MapIsExact' /\ ConnInv' /\ RingInv' /\ ClockInv'
      /\ fd2conn' \in [Fds -> Conns \cup {NULL}]
      /\ sock' \in [Fds -> Socks \cup {NULL}]
      /\ idle_node' \in [Nodes -> Links \cup {NULL}]
  BY <1>1, ConnsAlone DEF PollReturns
<1>3. spurious' \in 0..MaxSpurious
  <2>1. IsFiniteSet(lies)
    BY OpenFinite, FS_Subset DEF IInv
  <2>2. Cardinality(lies) \in Nat
    BY <2>1, FS_CardinalityType
  <2> QED
    BY <2>2, EventLoopAssumption DEF IInv, TypeOK, PollReturns
<1>4. /\ revents' = [fd \in ready |-> ev[fd]]
      /\ ready \subseteq Open /\ Open \subseteq Fds
      /\ \A fd \in ready : ev[fd] = Events(fd, fd \in lies)
  BY DEF PollReturns, Open
<1> HIDE DEF ev, ready
<1>5. \A fd, lie : Events(fd, lie) \in SUBSET {"POLLIN", "POLLOUT", "POLLERR"}
  BY DEF Events
<1>6. DOMAIN revents' = ready /\ \A fd \in ready : revents'[fd] = Events(fd, fd \in lies)
  BY <1>4
<1>7. revents' \in [DOMAIN revents' -> SUBSET {"POLLIN", "POLLOUT", "POLLERR"}]
  <2>1. \A fd \in ready : ev[fd] \in SUBSET {"POLLIN", "POLLOUT", "POLLERR"}
    BY <1>4, <1>5
  <2> QED
    BY <1>4, <1>6, <2>1
<1>8. timeout_ms' \in -Half..(Half - 1) /\ slept_at' \in 0..now' /\ now_ms' \in 0..now'
  BY <1>1, EventLoopAssumption DEF IInv, TypeOK, PollReturns, Awake
<1>9. TypeOK'
  <2>1. listening' \in BOOLEAN /\ backlog' \in BOOLEAN /\ heap0' \in TTLs \cup {NULL}
        /\ pc' = "accept" /\ now' \in 0..MaxTime
    BY DEF IInv, TypeOK, PollReturns
  <2>2. DOMAIN revents' \subseteq Fds
    BY <1>4, <1>6
  <2> QED
    BY <1>2, <1>3, <1>7, <1>8, <2>1, <2>2 DEF TypeOK
<1>10. ReportInv'
  <2>1. ASSUME NEW fd \in ready
        PROVE  /\ fd2conn'[fd] # NULL
               /\ "POLLIN" \in revents'[fd] => fd2conn'[fd].want_read
               /\ "POLLOUT" \in revents'[fd] =>
                     /\ fd2conn'[fd].want_write /\ fd2conn'[fd].outgoing # << >>
                     /\ "POLLIN" \notin revents'[fd]
    <3>1. fd \in Open /\ fd2conn'[fd] = fd2conn[fd]
      BY <1>4 DEF PollReturns
    <3>2. Wants(fd2conn[fd])
      BY <3>1 DEF IInv, ConnInv, Sound, Pair
    <3>3. /\ "POLLIN" \in revents'[fd] => fd2conn[fd].want_read
          /\ "POLLOUT" \in revents'[fd] => fd2conn[fd].want_write
      BY <1>6 DEF Events
    <3>4. ~(fd2conn[fd].want_read /\ fd2conn[fd].want_write)
      <4>1. fd2conn[fd].want_read \in BOOLEAN /\ fd2conn[fd].want_write \in BOOLEAN
        BY <3>1 DEF IInv, TypeOK, Open, Conns
      <4> QED
        BY <3>2, <4>1 DEF Wants
    <3> QED
      BY <3>1, <3>2, <3>3, <3>4 DEF Wants, Open
  <2> QED
    BY <1>6, <2>1 DEF ReportInv, ReportsStillWanted, PollReturns
<1> QED
  BY <1>2, <1>9, <1>10 DEF IInv

LEMMA PollInterruptedKeeps == IInv /\ PollInterrupted => IInv'
<1> SUFFICES ASSUME IInv, PollInterrupted PROVE IInv'
  OBVIOUS
<1>1. now' = now /\ now \in Nat
  BY DEF IInv, TypeOK, PollInterrupted
<1>2. /\ MapIsExact' /\ ConnInv' /\ RingInv' /\ ClockInv'
      /\ fd2conn' \in [Fds -> Conns \cup {NULL}]
      /\ sock' \in [Fds -> Socks \cup {NULL}]
      /\ idle_node' \in [Nodes -> Links \cup {NULL}]
  BY <1>1, ConnsAlone DEF PollInterrupted
<1>3. /\ timeout_ms' \in -Half..(Half - 1) /\ slept_at' \in 0..now' /\ now_ms' \in 0..now'
      /\ spurious' \in 0..MaxSpurious /\ now' \in 0..MaxTime
  BY <1>1, EventLoopAssumption DEF IInv, TypeOK, PollInterrupted, Awake
<1>4. TypeOK'
  BY <1>2, <1>3 DEF IInv, TypeOK, PollInterrupted
<1>5. ReportInv'
  BY DEF IInv, ReportInv, ReportsStillWanted, PollInterrupted
<1> QED
  BY <1>2, <1>4, <1>5 DEF IInv

LEMMA ServedAllKeeps == IInv /\ ServedAll => IInv'
<1> SUFFICES ASSUME IInv, ServedAll PROVE IInv'
  OBVIOUS
<1>1. now' = now /\ now \in Nat
  BY DEF IInv, TypeOK, ServedAll
<1>2. /\ MapIsExact' /\ ConnInv' /\ RingInv' /\ ClockInv'
      /\ fd2conn' \in [Fds -> Conns \cup {NULL}]
      /\ sock' \in [Fds -> Socks \cup {NULL}]
      /\ idle_node' \in [Nodes -> Links \cup {NULL}]
  BY <1>1, ConnsAlone DEF ServedAll
<1>3. timeout_ms' \in -Half..(Half - 1) /\ slept_at' \in 0..now' /\ now_ms' \in 0..now' /\ now' \in 0..MaxTime
  BY <1>1 DEF IInv, TypeOK, ServedAll
<1>4. TypeOK'
  BY <1>2, <1>3 DEF IInv, TypeOK, ServedAll
<1>5. ReportInv'
  BY DEF IInv, ReportInv, ReportsStillWanted, ServedAll
<1> QED
  BY <1>2, <1>4, <1>5 DEF IInv

LEMMA EndTimersKeeps == IInv /\ EndTimers => IInv'
<1> SUFFICES ASSUME IInv, EndTimers PROVE IInv'
  OBVIOUS
<1>1. now' = now /\ now \in Nat
  BY DEF IInv, TypeOK, EndTimers
<1>2. /\ MapIsExact' /\ ConnInv' /\ RingInv' /\ ClockInv'
      /\ fd2conn' \in [Fds -> Conns \cup {NULL}]
      /\ sock' \in [Fds -> Socks \cup {NULL}]
      /\ idle_node' \in [Nodes -> Links \cup {NULL}]
  BY <1>1, ConnsAlone DEF EndTimers
<1>3. timeout_ms' \in -Half..(Half - 1) /\ slept_at' \in 0..now' /\ now_ms' \in 0..now' /\ now' \in 0..MaxTime
  BY <1>1 DEF IInv, TypeOK, EndTimers
<1>4. heap0' \in TTLs \cup {NULL}
  BY DEF IInv, TypeOK, EndTimers
<1>5. TypeOK'
  BY <1>2, <1>3, <1>4 DEF IInv, TypeOK, EndTimers
<1>6. ReportInv'
  BY DEF IInv, ReportInv, ReportsStillWanted, EndTimers
<1> QED
  BY <1>2, <1>5, <1>6 DEF IInv

(* So do time and the queue of accept().                                     *)
LEMMA OutsideKeeps == IInv /\ (Tick \/ Connect \/ GiveUp) => IInv'
<1> SUFFICES ASSUME IInv, Tick \/ Connect \/ GiveUp PROVE IInv'
  OBVIOUS
<1>1. /\ now \in Nat /\ now' \in 0..MaxTime /\ now <= now'
      /\ UNCHANGED <<fd2conn, sock, idle_node, heap0, loop, spurious>>
      /\ backlog' \in BOOLEAN
  <2>1. now \in 0..MaxTime /\ MaxTime \in Nat /\ backlog \in BOOLEAN
    BY EventLoopAssumption DEF IInv, TypeOK
  <2>2. CASE Tick
    BY <2>1, <2>2 DEF Tick
  <2>3. CASE Connect
    BY <2>1, <2>3 DEF Connect, Kernel
  <2>4. CASE GiveUp
    <3>1. backlog' \in BOOLEAN
      BY <2>4 DEF GiveUp
    <3>2. UNCHANGED <<fd2conn, sock, idle_node, heap0, loop, spurious, now>>
      BY <2>4 DEF GiveUp, Kernel
    <3> QED
      BY <2>1, <3>1, <3>2
  <2>5. Tick \/ Connect \/ GiveUp
    OBVIOUS
  <2> QED
    BY <2>2, <2>3, <2>4, <2>5
<1>2. /\ MapIsExact' /\ ConnInv' /\ RingInv' /\ ClockInv'
      /\ fd2conn' \in [Fds -> Conns \cup {NULL}]
      /\ sock' \in [Fds -> Socks \cup {NULL}]
      /\ idle_node' \in [Nodes -> Links \cup {NULL}]
  BY <1>1, ConnsAlone
<1>3. timeout_ms' \in -Half..(Half - 1) /\ slept_at' \in 0..now' /\ now_ms' \in 0..now'
  BY <1>1 DEF IInv, TypeOK, loop
<1>4. TypeOK'
  BY <1>1, <1>2, <1>3 DEF IInv, TypeOK, loop
<1>5. ReportInv'
  BY <1>1 DEF IInv, ReportInv, ReportsStillWanted, loop
<1> QED
  BY <1>2, <1>4, <1>5 DEF IInv

-----------------------------------------------------------------------------
(* The loop's other steps.                                                   *)
LEMMA Fresh ==
    ASSUME NEW t \in 0..MaxTime
    PROVE  /\ NewConn(t) \in Conns /\ NewSock \in Socks
           /\ Sound(Pair(NewConn(t), NewSock))
           /\ NewConn(t).last_active = t
<1> USE EventLoopAssumption
<1>1. NewConn(t) \in Conns /\ NewSock \in Socks /\ NewConn(t).last_active = t
  BY DEF NewConn, NewSock, Conns, Socks
<1>2. Wants(NewConn(t))
  BY DEF Wants, NewConn
<1>3. Clean(<< >>)
  <2>1. << >> \in Seq(Parts) /\ Len(<< >>) = 0
    OBVIOUS
  <2>2. Complete(<< >>) \in 0..(Len(<< >>) \div 2)
    BY <2>1, CompleteMost
  <2>3. 0 \div 2 = 0 /\ \A x \in 0..0 : x = 0
    OBVIOUS
  <2> QED
    BY <2>1, <2>2, <2>3 DEF Clean
<1>4. Stream(<< >>, << >>, 0, 0)
  <2> DEFINE e == << >>
  <2>1. Len(e) = 0
    OBVIOUS
  <2> HIDE DEF e
  <2>2. \A i \in 1..Len(e) : FALSE
    BY <2>1
  <2>3. Len(e) = 0 - 2 * (0 + Len(e))
    BY <2>1
  <2>4. Stream(e, e, 0, 0)
    BY <2>2, <2>3 DEF Stream, InOrder
  <2> QED
    BY <2>4 DEF e
<1>5. << >> \o << >> = << >>
  OBVIOUS
<1>6. StreamOf(Pair(NewConn(t), NewSock))
  BY <1>4, <1>5 DEF StreamOf, Pair, NewConn, NewSock
<1> QED
  BY <1>1, <1>2, <1>3, <1>6 DEF Sound, Pair, NewConn

LEMMA AcceptKeeps == IInv /\ Accept => IInv'
<1> SUFFICES ASSUME IInv, Accept PROVE IInv'
  OBVIOUS
<1>1. /\ now' = now /\ now \in 0..MaxTime /\ now \in Nat /\ pc = "accept" /\ pc' = "io"
      /\ timeout_ms' \in -Half..(Half - 1) /\ slept_at' \in 0..now' /\ now_ms' \in 0..now'
      /\ spurious' \in 0..MaxSpurious /\ heap0' \in TTLs \cup {NULL}
      /\ revents' = revents /\ listening' \in BOOLEAN
  <2>1. /\ now \in 0..MaxTime /\ timeout_ms \in -Half..(Half - 1) /\ slept_at \in 0..now
        /\ now_ms \in 0..now /\ spurious \in 0..MaxSpurious /\ heap0 \in TTLs \cup {NULL}
    BY DEF IInv, TypeOK
  <2>2. /\ pc = "accept" /\ pc' = "io" /\ listening' = FALSE
        /\ UNCHANGED <<heap0, revents, slept_at, timeout_ms, now_ms, now, spurious>>
    BY DEF Accept
  <2>3. now \in Nat /\ now' = now
    BY <2>1, <2>2, EventLoopAssumption
  <2>4. listening' \in BOOLEAN
    BY <2>2
  <2>5. timeout_ms' \in -Half..(Half - 1) /\ slept_at' \in 0..now' /\ now_ms' \in 0..now'
    BY <2>1, <2>2
  <2> QED
    BY <2>1, <2>2, <2>3, <2>4, <2>5
<1>2. ASSUME UNCHANGED <<fd2conn, idle_node, sock, backlog>> PROVE IInv'
  <2>1. /\ MapIsExact' /\ ConnInv' /\ RingInv' /\ ClockInv'
        /\ fd2conn' \in [Fds -> Conns \cup {NULL}]
        /\ sock' \in [Fds -> Socks \cup {NULL}]
        /\ idle_node' \in [Nodes -> Links \cup {NULL}]
    BY <1>1, <1>2, ConnsAlone
  <2>2. TypeOK'
    BY <1>1, <1>2, <2>1 DEF IInv, TypeOK
  <2>3. ReportInv'
    BY <1>1, <1>2 DEF IInv, ReportInv, ReportsStillWanted
  <2> QED
    BY <2>1, <2>2, <2>3 DEF IInv
<1>3. ASSUME NEW fd \in Fds, Accepted(fd) PROVE IInv'
  <2> DEFINE c == NewConn(now)
  <2>1. fd2conn[fd] = NULL /\ fd \notin Open
    BY <1>3 DEF IInv, MapIsExact, Accepted, Open
  <2>2. /\ c \in Conns /\ NewSock \in Socks /\ Sound(Pair(c, NewSock)) /\ c.last_active = now
    BY <1>1, Fresh
  <2>3. c # NULL /\ NewSock # NULL
    BY <2>2, EventLoopAssumption
  <2> HIDE DEF c
  <2>4. /\ fd2conn' = [fd2conn EXCEPT ![fd] = c] /\ sock' = [sock EXCEPT ![fd] = NewSock]
        /\ idle_node' = dlist_insert_before(idle_node, IdleHead, fd) /\ backlog' = FALSE
    BY <1>3 DEF Accepted, c
  <2>5. /\ fd2conn' \in [Fds -> Conns \cup {NULL}] /\ sock' \in [Fds -> Socks \cup {NULL}]
        /\ fd2conn'[fd] = c /\ sock'[fd] = NewSock
        /\ \A f \in Fds \ {fd} : fd2conn'[f] = fd2conn[f] /\ sock'[f] = sock[f]
    BY <2>2, <2>4 DEF IInv, TypeOK
  <2>6. Open' = Open \cup {fd}
    BY <2>3, <2>5 DEF Open
  <2>7. \A f \in Open : f # fd /\ f \in Fds /\ fd2conn'[f] = fd2conn[f] /\ sock'[f] = sock[f]
    BY <2>1, <2>5 DEF Open
  <2>8. MapIsExact'
    BY <2>3, <2>5 DEF IInv, MapIsExact
  <2>9. ConnInv'
    BY <2>2, <2>5, <2>6, <2>7 DEF IInv, ConnInv
  <2>10. ClockInv'
    BY <1>1, <2>2, <2>5, <2>6, <2>7 DEF IInv, ClockInv
  <2>11. RingInv'
    <3>1. fd \in Fds \ Open /\ fd2conn'[fd].last_active \in Int
      BY <1>1, <2>1, <2>2, <2>5
    <3>2. \A f \in Open : fd2conn'[f] = fd2conn[f] /\ fd2conn'[f].last_active <= fd2conn'[fd].last_active
      BY <2>2, <2>5, <2>7 DEF IInv, ClockInv
    <3>3. \E s \in Seq(Fds) : Ring(idle_node, s, Open) /\ Sorted(s, fd2conn)
      BY DEF IInv, RingInv
    <3>4. \E t \in Seq(Fds) : Ring(idle_node', t, Open \cup {fd}) /\ Sorted(t, fd2conn')
      BY <2>4, <3>1, <3>2, <3>3, ListAccept
    <3> QED
      BY <2>6, <3>4 DEF RingInv
  <2>12. idle_node' \in [Nodes -> Links \cup {NULL}]
    BY <2>11 DEF RingInv, Ring
  <2>13. TypeOK'
    BY <1>1, <2>4, <2>5, <2>12 DEF IInv, TypeOK
  <2>14. ReportInv'
    <3>1. \A f \in DOMAIN revents : f \in Open
      BY DEF IInv, ReportInv, ReportsStillWanted, TypeOK, Open
    <3> QED
      BY <1>1, <2>7, <3>1 DEF IInv, ReportInv, ReportsStillWanted
  <2> QED
    BY <2>8, <2>9, <2>10, <2>11, <2>13, <2>14 DEF IInv
<1> QED
  BY <1>2, <1>3 DEF Accept

(* conn_destroy.                                                             *)
LEMMA DestroyKeeps ==
    ASSUME IInv, NEW fd \in Open,
           fd2conn' = [fd2conn EXCEPT ![fd] = NULL],
           sock' = [sock EXCEPT ![fd] = NULL],
           \E t \in Seq(Fds) : Ring(idle_node', t, Open \ {fd}) /\ Sorted(t, fd2conn'),
           now' = now, spurious' \in 0..MaxSpurious, pc' = pc, pc \in {"io", "timers"},
           timeout_ms' \in -Half..(Half - 1), slept_at' \in 0..now', now_ms' \in 0..now',
           listening' \in BOOLEAN, backlog' \in BOOLEAN, heap0' \in TTLs \cup {NULL},
           revents' \in [DOMAIN revents' -> SUBSET {"POLLIN", "POLLOUT", "POLLERR"}],
           DOMAIN revents' = DOMAIN revents \ {fd},
           \A f \in DOMAIN revents' : revents'[f] = revents[f]
    PROVE  IInv'
<1>1. /\ fd \in Fds
      /\ fd2conn \in [Fds -> Conns \cup {NULL}] /\ sock \in [Fds -> Socks \cup {NULL}]
      /\ now \in 0..MaxTime /\ DOMAIN revents \subseteq Fds
  BY DEF IInv, TypeOK, Open
<1>2. /\ fd2conn' \in [Fds -> Conns \cup {NULL}] /\ sock' \in [Fds -> Socks \cup {NULL}]
      /\ fd2conn'[fd] = NULL /\ sock'[fd] = NULL
      /\ \A f \in Fds \ {fd} : fd2conn'[f] = fd2conn[f] /\ sock'[f] = sock[f]
  BY <1>1
<1>3. Open' = Open \ {fd}
  BY <1>2 DEF Open
<1>4. \A f \in Open \ {fd} : f \in Fds /\ fd2conn'[f] = fd2conn[f] /\ sock'[f] = sock[f]
  BY <1>2 DEF Open
<1>5. MapIsExact'
  BY <1>2 DEF IInv, MapIsExact
<1>6. ConnInv' /\ ClockInv'
  BY <1>3, <1>4 DEF IInv, ConnInv, ClockInv
<1>7. RingInv'
  BY <1>3 DEF RingInv
<1>8. idle_node' \in [Nodes -> Links \cup {NULL}]
  BY DEF Ring
<1>9. TypeOK'
  <2>1. pc' \in {"prepare", "poll", "accept", "io", "timers"} /\ now' \in 0..MaxTime
        /\ DOMAIN revents' \subseteq Fds
    BY <1>1
  <2> QED
    BY <1>2, <1>8, <2>1 DEF TypeOK
<1>10. ReportInv'
  <2>1. \A f \in DOMAIN revents' : f # fd /\ f \in DOMAIN revents /\ f \in Open
    BY <1>1 DEF IInv, ReportInv, ReportsStillWanted, Open
  <2>2. pc \notin {"accept", "io"} => DOMAIN revents' = {}
    BY DEF IInv, ReportInv
  <2> QED
    BY <1>4, <2>1, <2>2 DEF IInv, ReportInv, ReportsStillWanted
<1> QED
  BY <1>5, <1>6, <1>7, <1>9, <1>10 DEF IInv

(* One ready connection: its turn, its place in the list, or its end.        *)
LEMMA ServeKeeps ==
    ASSUME IInv, NEW fd \in Fds, Serve(fd)
    PROVE  IInv'
<1> DEFINE ready == revents[fd]
           p0 == Pair([fd2conn[fd] EXCEPT !.last_active = now], sock[fd])
<1>1. /\ now' = now /\ now \in 0..MaxTime /\ now \in Nat /\ pc = "io" /\ pc' = "io"
      /\ timeout_ms' \in -Half..(Half - 1) /\ slept_at' \in 0..now' /\ now_ms' \in 0..now'
      /\ spurious' \in 0..MaxSpurious /\ listening' \in BOOLEAN /\ backlog' \in BOOLEAN
  <2>1. /\ now \in 0..MaxTime /\ timeout_ms \in -Half..(Half - 1) /\ slept_at \in 0..now
        /\ now_ms \in 0..now /\ spurious \in 0..MaxSpurious
        /\ listening \in BOOLEAN /\ backlog \in BOOLEAN
    BY DEF IInv, TypeOK
  <2>2. /\ pc = "io"
        /\ UNCHANGED <<pc, listening, slept_at, timeout_ms, now_ms, backlog, now, spurious>>
    BY DEF Serve
  <2>3. now \in Nat /\ now' = now
    BY <2>1, <2>2, EventLoopAssumption
  <2>4. listening' \in BOOLEAN /\ backlog' \in BOOLEAN
    BY <2>1, <2>2
  <2>5. timeout_ms' \in -Half..(Half - 1) /\ slept_at' \in 0..now' /\ now_ms' \in 0..now'
    BY <2>1, <2>2
  <2> QED
    BY <2>1, <2>2, <2>3, <2>4, <2>5
<1>2. /\ fd \in DOMAIN revents
      /\ revents' = [f \in DOMAIN revents \ {fd} |-> revents[f]]
  BY DEF Serve
<1>3. /\ fd \in Open /\ fd2conn[fd] \in Conns /\ sock[fd] \in Socks /\ sock[fd] # NULL
      /\ Sound(Pair(fd2conn[fd], sock[fd]))
      /\ "POLLIN" \in ready => fd2conn[fd].want_read
      /\ "POLLOUT" \in ready => fd2conn[fd].want_write /\ "POLLIN" \notin ready
  BY <1>2 DEF IInv, TypeOK, ReportInv, ReportsStillWanted, Open, MapIsExact, ConnInv
<1>4. PICK p1 \in IF "POLLIN" \in ready THEN handle_read(p0) ELSE {p0} :
        \E p2 \in IF "POLLOUT" \in ready THEN handle_write(p1) ELSE {p1} :
           /\ IF "POLLERR" \in ready \/ p2.conn.want_close THEN Destroy(fd, MoveToEnd(fd))
              ELSE /\ fd2conn' = [fd2conn EXCEPT ![fd] = p2.conn]
                   /\ sock' = [sock EXCEPT ![fd] = p2.sock]
                   /\ idle_node' = MoveToEnd(fd)
           /\ heap0' \in IF Answered(p2) = Answered(p0) THEN {heap0} ELSE {heap0, NULL} \cup TTLs
  BY DEF Serve
<1>5. PICK p2 \in IF "POLLOUT" \in ready THEN handle_write(p1) ELSE {p1} :
           /\ IF "POLLERR" \in ready \/ p2.conn.want_close THEN Destroy(fd, MoveToEnd(fd))
              ELSE /\ fd2conn' = [fd2conn EXCEPT ![fd] = p2.conn]
                   /\ sock' = [sock EXCEPT ![fd] = p2.sock]
                   /\ idle_node' = MoveToEnd(fd)
           /\ heap0' \in IF Answered(p2) = Answered(p0) THEN {heap0} ELSE {heap0, NULL} \cup TTLs
  BY <1>4
<1> HIDE DEF ready
<1>6. p2 \in Pairs /\ Handled(p2) /\ p2.conn.last_active = now
  <2>1. /\ p0 \in Pairs /\ Sound(p0) /\ p0.conn.last_active = now
        /\ p0.conn.want_read = fd2conn[fd].want_read /\ p0.conn.want_write = fd2conn[fd].want_write
    BY <1>1, <1>3, StampKeeps
  <2>2. /\ p1 \in IF "POLLIN" \in ready THEN handle_read(p0) ELSE {p0}
        /\ p2 \in IF "POLLOUT" \in ready THEN handle_write(p1) ELSE {p1}
    BY <1>4, <1>5
  <2> HIDE DEF p0
  <2>3. /\ "POLLIN" \in ready => p0.conn.want_read
        /\ "POLLOUT" \in ready => p0.conn.want_write /\ "POLLIN" \notin ready
    BY <1>3, <2>1
  <2>4. p2 \in Pairs /\ Handled(p2) /\ p2.conn.last_active = p0.conn.last_active
    BY <2>1, <2>2, <2>3, TurnKeeps
  <2> QED
    BY <2>1, <2>4
<1> HIDE DEF p0
<1>7. heap0' \in TTLs \cup {NULL}
  <2>1. heap0 \in TTLs \cup {NULL}
    BY DEF IInv, TypeOK
  <2> QED
    BY <1>5, <2>1
<1>8. /\ DOMAIN revents' = DOMAIN revents \ {fd}
      /\ \A f \in DOMAIN revents' : revents'[f] = revents[f]
      /\ DOMAIN revents' \subseteq Fds
      /\ revents' \in [DOMAIN revents' -> SUBSET {"POLLIN", "POLLOUT", "POLLERR"}]
  <2>1. /\ DOMAIN revents' = DOMAIN revents \ {fd}
        /\ \A f \in DOMAIN revents' : revents'[f] = revents[f]
    BY <1>2
  <2>2. /\ DOMAIN revents \subseteq Fds
        /\ \A f \in DOMAIN revents : revents[f] \in SUBSET {"POLLIN", "POLLOUT", "POLLERR"}
    BY DEF IInv, TypeOK
  <2>3. revents' = [f \in DOMAIN revents' |-> revents'[f]]
    BY <1>2, <2>1
  <2>4. \A f \in DOMAIN revents' : revents'[f] \in SUBSET {"POLLIN", "POLLOUT", "POLLERR"}
    BY <2>1, <2>2
  <2> QED
    BY <2>1, <2>2, <2>3, <2>4
<1> DEFINE moved == [fd2conn EXCEPT ![fd] = p2.conn]
<1>9. /\ \A f \in Open : f \in Fds /\ fd2conn[f] \in Conns
                         /\ fd2conn[f].last_active \in Nat /\ fd2conn[f].last_active <= now
      /\ p2.conn \in Conns /\ p2.sock \in Socks /\ p2 = Pair(p2.conn, p2.sock)
      /\ p2.conn # NULL /\ p2.sock # NULL
  <2>1. \A f \in Open : f \in Fds /\ fd2conn[f] \in Conns
                         /\ fd2conn[f].last_active \in Nat /\ fd2conn[f].last_active <= now
    BY DEF IInv, TypeOK, ClockInv, Open, Conns
  <2>2. p2.conn \in Conns /\ p2.sock \in Socks /\ p2 = Pair(p2.conn, p2.sock)
    BY <1>6, PairFields
  <2> QED
    BY <2>1, <2>2, EventLoopAssumption
<1>10. moved[fd] = p2.conn /\ \A f \in Fds \ {fd} : moved[f] = fd2conn[f]
  BY DEF IInv, TypeOK
<1> HIDE DEF moved
<1>11. \E t \in Seq(Fds) : Ring(MoveToEnd(fd), t, Open) /\ Sorted(t, moved)
  <2>1. \E s \in Seq(Fds) : Ring(idle_node, s, Open) /\ Sorted(s, fd2conn)
    BY DEF IInv, RingInv
  <2>2. moved[fd].last_active \in Int
    BY <1>1, <1>6, <1>10
  <2>3. \A f \in Open \ {fd} : moved[f] = fd2conn[f] /\ moved[f].last_active <= moved[fd].last_active
    BY <1>6, <1>9, <1>10
  <2>4. \E t \in Seq(Fds) :
           /\ Ring(dlist_insert_before(dlist_detach(idle_node, fd), IdleHead, fd), t, Open)
           /\ Sorted(t, moved)
    BY <1>3, <2>1, <2>2, <2>3, ListMove
  <2> QED
    BY <2>4 DEF MoveToEnd
<1>12. CASE "POLLERR" \in ready \/ p2.conn.want_close
  <2>1. /\ fd2conn' = [fd2conn EXCEPT ![fd] = NULL]
        /\ sock' = [sock EXCEPT ![fd] = NULL]
        /\ idle_node' = [dlist_detach(MoveToEnd(fd), fd) EXCEPT ![fd] = NULL]
    BY <1>5, <1>12 DEF Destroy
  <2>2. \A f \in Open \ {fd} : fd2conn'[f] = moved[f]
    BY <1>9, <1>10, <2>1 DEF IInv, TypeOK
  <2>3. \E t \in Seq(Fds) : Ring(idle_node', t, Open \ {fd}) /\ Sorted(t, fd2conn')
    BY <1>3, <1>11, <2>1, <2>2, ListDestroy
  <2> QED
    BY <1>1, <1>3, <1>7, <1>8, <2>1, <2>3, DestroyKeeps
<1>13. CASE ~("POLLERR" \in ready \/ p2.conn.want_close)
  <2>1. /\ fd2conn' = moved /\ sock' = [sock EXCEPT ![fd] = p2.sock]
        /\ idle_node' = MoveToEnd(fd)
    BY <1>5, <1>13 DEF moved
  <2>2. Sound(p2)
    BY <1>6, <1>13 DEF Handled, Sound
  <2>3. /\ fd2conn' \in [Fds -> Conns \cup {NULL}] /\ sock' \in [Fds -> Socks \cup {NULL}]
        /\ sock'[fd] = p2.sock /\ \A f \in Fds \ {fd} : sock'[f] = sock[f]
    BY <1>9, <2>1 DEF IInv, TypeOK, moved
  <2>4. Open' = Open
    BY <1>3, <1>9, <1>10, <2>1 DEF Open
  <2>5. MapIsExact'
    BY <1>9, <1>10, <2>1, <2>3 DEF IInv, MapIsExact
  <2>6. ConnInv'
    BY <1>9, <1>10, <2>1, <2>2, <2>3, <2>4 DEF IInv, ConnInv
  <2>7. ClockInv'
    BY <1>1, <1>6, <1>9, <1>10, <2>1, <2>4 DEF ClockInv
  <2>8. RingInv'
    BY <1>11, <2>1, <2>4 DEF RingInv
  <2>9. idle_node' \in [Nodes -> Links \cup {NULL}]
    BY <1>11, <2>1 DEF Ring
  <2>10. TypeOK'
    BY <1>1, <1>7, <1>8, <2>3, <2>9 DEF TypeOK
  <2>11. ReportInv'
    <3>1. \A f \in DOMAIN revents' : f # fd /\ f \in DOMAIN revents /\ f \in Open /\ f \in Fds
      BY <1>8 DEF IInv, ReportInv, ReportsStillWanted, TypeOK, Open
    <3>2. \A f \in DOMAIN revents' : fd2conn'[f] = fd2conn[f] /\ revents'[f] = revents[f]
      BY <1>8, <1>10, <2>1, <3>1
    <3> QED
      BY <1>1, <3>1, <3>2 DEF IInv, ReportInv, ReportsStillWanted
  <2> QED
    BY <2>5, <2>6, <2>7, <2>8, <2>10, <2>11 DEF IInv
<1> QED
  BY <1>12, <1>13

LEMMA CloseIdleKeeps == IInv /\ CloseIdle => IInv'
<1> SUFFICES ASSUME IInv, CloseIdle PROVE IInv'
  OBVIOUS
<1> DEFINE fd == Oldest
<1>1. fd \in Open
  <2>1. IdleDue # {}
    BY DEF CloseIdle, IdleDone
  <2> QED
    BY <2>1, Deadlines DEF IInv
<1>2. /\ fd2conn' = [fd2conn EXCEPT ![fd] = NULL]
      /\ sock' = [sock EXCEPT ![fd] = NULL]
      /\ idle_node' = [dlist_detach(idle_node, fd) EXCEPT ![fd] = NULL]
      /\ UNCHANGED <<heap0, loop, backlog, now, spurious>> /\ pc = "timers"
  BY DEF CloseIdle, Destroy
<1> HIDE DEF fd
<1>3. \E t \in Seq(Fds) : Ring(idle_node', t, Open \ {fd}) /\ Sorted(t, fd2conn')
  <2>1. \E s \in Seq(Fds) : Ring(idle_node, s, Open) /\ Sorted(s, fd2conn)
    BY DEF IInv, RingInv
  <2>2. \A f \in Open \ {fd} : fd2conn'[f] = fd2conn[f]
    BY <1>2 DEF IInv, TypeOK, Open
  <2> QED
    BY <1>1, <1>2, <2>1, <2>2, ListDestroy
<1>4. /\ now' = now /\ spurious' \in 0..MaxSpurious /\ pc' = pc /\ pc \in {"io", "timers"}
      /\ timeout_ms' \in -Half..(Half - 1) /\ slept_at' \in 0..now' /\ now_ms' \in 0..now'
      /\ heap0' \in TTLs \cup {NULL}
  BY <1>2 DEF IInv, TypeOK, loop
<1>5. listening' \in BOOLEAN /\ backlog' \in BOOLEAN
  BY <1>2 DEF IInv, TypeOK, loop
<1>6. /\ revents' = revents /\ DOMAIN revents = {}
      /\ revents \in [DOMAIN revents -> SUBSET {"POLLIN", "POLLOUT", "POLLERR"}]
  BY <1>2 DEF IInv, TypeOK, ReportInv, loop
<1>7. /\ revents' \in [DOMAIN revents' -> SUBSET {"POLLIN", "POLLOUT", "POLLERR"}]
      /\ DOMAIN revents' = DOMAIN revents \ {fd}
      /\ \A f \in DOMAIN revents' : revents'[f] = revents[f]
  BY <1>6
<1> QED
  BY <1>1, <1>2, <1>3, <1>4, <1>5, <1>7, DestroyKeeps

-----------------------------------------------------------------------------
(* The clients' steps change one socket.                                     *)
LEMMA SockKeeps ==
    ASSUME IInv, NEW fd \in Fds, sock[fd] # NULL, NEW s \in Socks,
           sock' = [sock EXCEPT ![fd] = s],
           UNCHANGED <<backlog, Kernel>>,
           StreamOf(Pair(fd2conn[fd], s))
    PROVE  IInv'
<1>1. /\ UNCHANGED <<fd2conn, idle_node, heap0, pc, revents, listening, slept_at, timeout_ms, now_ms>>
      /\ UNCHANGED <<backlog, now, spurious>>
  BY DEF Kernel, loop
<1>2. /\ sock' \in [Fds -> Socks \cup {NULL}] /\ sock'[fd] = s
      /\ \A f \in Fds \ {fd} : sock'[f] = sock[f]
  BY DEF IInv, TypeOK
<1>3. s # NULL
  BY EventLoopAssumption
<1>4. Open' = Open /\ Open \subseteq Fds
  BY <1>1 DEF Open
<1>5. TypeOK'
  BY <1>1, <1>2 DEF IInv, TypeOK
<1>6. MapIsExact'
  BY <1>1, <1>2, <1>3 DEF IInv, MapIsExact
<1>7. ConnInv'
  <2> SUFFICES ASSUME NEW f \in Open PROVE Sound(Pair(fd2conn[f], sock'[f]))
    BY <1>1, <1>4 DEF ConnInv
  <2>1. Sound(Pair(fd2conn[f], sock[f]))
    BY DEF IInv, ConnInv
  <2> QED
    BY <1>2, <1>4, <2>1 DEF Sound, Pair
<1>8. ReportInv'
  BY <1>1 DEF IInv, ReportInv, ReportsStillWanted
<1>9. RingInv' /\ ClockInv'
  BY <1>1, <1>4 DEF IInv, RingInv, ClockInv
<1> QED
  BY <1>5, <1>6, <1>7, <1>8, <1>9 DEF IInv

LEMMA OpenSock ==
    ASSUME IInv, NEW fd \in Fds, sock[fd] # NULL
    PROVE  /\ fd \in Open /\ fd2conn[fd] \in Conns /\ sock[fd] \in Socks
           /\ StreamOf(Pair(fd2conn[fd], sock[fd]))
BY DEF IInv, TypeOK, MapIsExact, ConnInv, Sound, Open

(* What is sent next.                                                        *)
LEMMA NextPart ==
    ASSUME NEW sent \in Nat, sent < 2 * MaxReq
    PROVE  /\ PartAt(sent + 1) \in Parts
           /\ PartAt(sent + 1) = IF sent % 2 = 0 THEN Part(sent \div 2 + 1) ELSE End(sent \div 2 + 1)
<1> DEFINE k == sent \div 2
<1>1. k \in Nat /\ k + 1 \in 1..MaxReq /\ (sent = 2 * k \/ sent = 2 * k + 1)
      /\ (sent % 2 = 0 <=> sent = 2 * k)
  BY EventLoopAssumption
<1> HIDE DEF k
<1>2. Part(k + 1) \in Parts /\ End(k + 1) \in Parts
  BY <1>1 DEF Part, End, Parts
<1>3. CASE sent = 2 * k
  <2>1. PartAt(sent + 1) = Part(k + 1)
    BY <1>1, <1>3, PartAtParity
  <2> QED
    BY <1>1, <1>2, <1>3, <2>1 DEF k
<1>4. CASE sent = 2 * k + 1
  <2>1. sent + 1 = 2 * (k + 1) /\ k + 1 \in Nat
    BY <1>1, <1>4
  <2>2. PartAt(sent + 1) = End(k + 1)
    BY <2>1, PartAtParity
  <2>3. sent % 2 # 0
    BY <1>1, <1>4
  <2> QED
    BY <1>2, <2>2, <2>3 DEF k
<1> QED
  BY <1>1, <1>3, <1>4

LEMMA StreamSend ==
    ASSUME NEW out \in Seq(1..MaxReq), NEW b \in Seq(Parts), NEW r \in Seq(Parts), NEW got \in Nat,
           NEW sent \in Nat, Stream(out, b \o r, got, sent), sent < 2 * MaxReq
    PROVE  /\ Stream(out, b \o Append(r, PartAt(sent + 1)), got, sent + 1)
           /\ sent % 2 = 0 => Stream(out, b \o Append(r, Bad), got, 2 * MaxReq)
<1>0. \A x \in Parts : b \o Append(r, x) = Append(b \o r, x)
  BY ConcatAppend
<1> DEFINE in == b \o r
           a == got + Len(out)
           n == Len(in)
<1>1. in \in Seq(Parts) /\ n \in Nat /\ a \in Nat /\ MaxReq \in Nat
  BY ConcatProperties, LenProperties, EventLoopAssumption
<1> HIDE DEF in
<1>2. n = sent - 2 * a /\ InOrder(in, a, n)
  BY DEF Stream, in
<1>3. ASSUME NEW x \in Parts
      PROVE  LET on == b \o Append(r, x) IN
             on # << >> /\ Len(on) = n + 1 /\ on[n + 1] = x /\ \A i \in 1..n : on[i] = in[i]
  <2>3. b \o Append(r, x) = Append(in, x)
    BY <1>0 DEF in
  <2>4. /\ Append(in, x) # << >> /\ Len(Append(in, x)) = Len(in) + 1
        /\ Append(in, x)[Len(in) + 1] = x
        /\ \A i \in 1..Len(in) : Append(in, x)[i] = in[i]
    <3>1. in \in Seq(Parts)
      BY <1>1
    <3> QED
      BY <3>1, AppendProperties
  <2> QED
    BY <2>3, <2>4
<1>4. PartAt(sent + 1) \in Parts
  BY NextPart
<1>5. Stream(out, b \o Append(r, PartAt(sent + 1)), got, sent + 1)
  <2> DEFINE x == PartAt(sent + 1)
             on == b \o Append(r, x)
  <2>1. Len(on) = n + 1 /\ on[n + 1] = x /\ \A i \in 1..n : on[i] = in[i]
    BY <1>3, <1>4
  <2> HIDE DEF on
  <2>2. n + 1 = sent + 1 - 2 * a /\ 2 * a + (n + 1) = sent + 1
    BY <1>1, <1>2
  <2>3. InOrder(on, a, n + 1)
    <3> SUFFICES ASSUME NEW j \in 1..(n + 1) PROVE on[j] = PartAt(2 * a + j)
      BY DEF InOrder
    <3>1. j \in 1..n \/ j = n + 1
      BY <1>1
    <3> QED
      BY <1>2, <2>1, <2>2, <3>1 DEF InOrder
  <2>4. Stream(out, on, got, sent + 1)
    BY <2>1, <2>2, <2>3 DEF Stream, a
  <2> QED
    BY <2>4 DEF on
<1>6. ASSUME sent % 2 = 0 PROVE Stream(out, b \o Append(r, Bad), got, 2 * MaxReq)
  <2> DEFINE on == b \o Append(r, Bad)
  <2>1. on # << >> /\ Len(on) = n + 1 /\ on[n + 1] = Bad /\ \A i \in 1..n : on[i] = in[i]
    BY <1>3 DEF Parts
  <2> HIDE DEF on
  <2>2. n + 1 - 1 = n /\ 2 * a + (n + 1) - 1 < 2 * MaxReq /\ n % 2 = 0
    BY <1>1, <1>2, <1>6
  <2>3. InOrder(on, a, n)
    BY <1>2, <2>1 DEF InOrder
  <2>4. Stream(out, on, got, 2 * MaxReq)
    BY <2>1, <2>2, <2>3 DEF Stream, a
  <2> QED
    BY <2>4 DEF on
<1> QED
  BY <1>5, <1>6

(* What is received no longer is under way.                                  *)
LEMMA StreamReceive ==
    ASSUME NEW snd \in Seq(1..MaxReq), snd # << >>, NEW o \in Seq(1..MaxReq), NEW in,
           NEW got \in Nat, NEW sent \in Nat, Stream(snd \o o, in, got, sent)
    PROVE  /\ Tail(snd) \in Seq(1..MaxReq)
           /\ got + 1 \in 1..MaxReq
           /\ Stream(Tail(snd) \o o, in, got + 1, sent)
<1> DEFINE out == snd \o o
           left == Tail(snd) \o o
<1>1. Len(snd) \in Nat /\ Len(snd) > 0 /\ Len(o) \in Nat
  BY LenProperties, EmptySeq
<1>2. Tail(snd) \in Seq(1..MaxReq) /\ Len(Tail(snd)) = Len(snd) - 1
      /\ \A i \in 1..(Len(snd) - 1) : Tail(snd)[i] = snd[i + 1]
  BY <1>1, HeadTailProperties
<1>3. /\ Len(out) = Len(snd) + Len(o)
      /\ \A i \in 1..(Len(snd) + Len(o)) : out[i] = IF i <= Len(snd) THEN snd[i] ELSE o[i - Len(snd)]
  BY ConcatProperties
<1>4. /\ Len(left) = (Len(snd) - 1) + Len(o)
      /\ \A i \in 1..((Len(snd) - 1) + Len(o)) :
            left[i] = IF i <= Len(snd) - 1 THEN Tail(snd)[i] ELSE o[i - (Len(snd) - 1)]
  BY <1>2, ConcatProperties
<1>5. \A i \in 1..Len(out) : out[i] = got + i
  BY DEF Stream
<1> HIDE DEF out, left
<1>6. got + 1 \in 1..MaxReq
  <2>1. 1 \in 1..Len(out) /\ 1 <= Len(snd) /\ 1 \in 1..(Len(snd) + Len(o)) /\ 1 \in 1..Len(snd)
    BY <1>1, <1>3
  <2>2. out[1] = snd[1] /\ out[1] = got + 1
    BY <1>3, <1>5, <2>1
  <2>3. snd[1] \in 1..MaxReq
    BY <2>1, ElementOfSeq
  <2> QED
    BY <2>2, <2>3
<1>7. Len(left) = Len(out) - 1 /\ Len(out) \in Nat
  BY <1>1, <1>3, <1>4
<1>8. ASSUME NEW i \in 1..Len(left) PROVE left[i] = got + 1 + i
  <2>1. left[i] = out[i + 1]
    <3>1. CASE i <= Len(snd) - 1
      <4>1. i \in 1..(Len(snd) - 1) /\ i + 1 \in 1..(Len(snd) + Len(o)) /\ i + 1 <= Len(snd)
            /\ i \in 1..((Len(snd) - 1) + Len(o))
        BY <1>1, <3>1
      <4> QED
        BY <1>2, <1>3, <1>4, <3>1, <4>1
    <3>2. CASE ~(i <= Len(snd) - 1)
      <4>1. i \in 1..((Len(snd) - 1) + Len(o)) /\ i + 1 \in 1..(Len(snd) + Len(o)) /\ ~(i + 1 <= Len(snd))
            /\ i - (Len(snd) - 1) = i + 1 - Len(snd)
        BY <1>1, <1>4, <3>2
      <4>2. left[i] = o[i - (Len(snd) - 1)]
        BY <1>4, <3>2, <4>1
      <4> DEFINE k == i + 1
      <4>3. k \in 1..(Len(snd) + Len(o)) /\ ~(k <= Len(snd)) /\ i - (Len(snd) - 1) = k - Len(snd)
        BY <4>1
      <4> HIDE DEF k
      <4>4. out[k] = o[k - Len(snd)]
        BY <1>3, <4>3
      <4> QED
        BY <4>2, <4>3, <4>4 DEF k
    <3> QED
      BY <3>1, <3>2
  <2>2. i + 1 \in 1..Len(out) /\ got + (i + 1) = got + 1 + i
    BY <1>7
  <2> QED
    BY <1>5, <2>1, <2>2
<1>9. got + 1 + Len(left) = got + Len(out)
  BY <1>7
<1>10. Stream(left, in, got + 1, sent)
  <2>1. Stream(out, in, got, sent)
    BY DEF out
  <2> QED
    BY <1>8, <1>9, <2>1 DEF Stream
<1> QED
  BY <1>2, <1>6, <1>10 DEF left

LEMMA SendKeeps ==
    ASSUME IInv, NEW fd \in Fds, Send(fd) \/ SendMalformed(fd)
    PROVE  IInv'
<1> DEFINE c == fd2conn[fd]
           k == sock[fd]
<1>1. /\ k # NULL /\ k.sent < 2 * MaxReq /\ UNCHANGED <<backlog, Kernel>>
  BY DEF Send, SendMalformed, Alive
<1>2. /\ c \in Conns /\ k \in Socks /\ StreamOf(Pair(c, k))
  BY <1>1, OpenSock
<1>3. /\ c.outgoing \in Seq(1..MaxReq) /\ c.incoming \in Seq(Parts)
      /\ k.rcv \in Seq(Parts) /\ k.snd \in Seq(1..MaxReq)
      /\ k.got \in Nat /\ k.sent \in Nat /\ k.sent \in 0..(2 * MaxReq)
  <2> HIDE DEF c, k
  <2> QED
    BY <1>2, ConnFields, SockFields
<1>4. k.snd \o c.outgoing \in Seq(1..MaxReq)
  BY <1>3, ConcatProperties
<1>5. Stream(k.snd \o c.outgoing, c.incoming \o k.rcv, k.got, k.sent)
  BY <1>2 DEF StreamOf, Pair
<1> HIDE DEF c, k
<1>6. /\ Stream(k.snd \o c.outgoing, c.incoming \o Append(k.rcv, PartAt(k.sent + 1)), k.got, k.sent + 1)
      /\ k.sent % 2 = 0 =>
            Stream(k.snd \o c.outgoing, c.incoming \o Append(k.rcv, Bad), k.got, 2 * MaxReq)
  BY <1>1, <1>3, <1>4, <1>5, StreamSend
<1>7. PartAt(k.sent + 1) \in Parts /\ Bad \in Parts
      /\ PartAt(k.sent + 1) = IF k.sent % 2 = 0 THEN Part(k.sent \div 2 + 1) ELSE End(k.sent \div 2 + 1)
  BY <1>1, <1>3, NextPart DEF Parts
<1>8. ASSUME NEW x \in Parts, NEW n \in 0..(2 * MaxReq),
             sock' = [sock EXCEPT ![fd] = [k EXCEPT !.rcv = Append(k.rcv, x), !.sent = n]],
             Stream(k.snd \o c.outgoing, c.incoming \o Append(k.rcv, x), k.got, n)
      PROVE  IInv'
  <2> DEFINE s == [k EXCEPT !.rcv = Append(k.rcv, x), !.sent = n]
  <2>1. Append(k.rcv, x) \in Seq(Parts)
    BY <1>3, AppendProperties
  <2>2. /\ s \in Socks /\ s.rcv = Append(k.rcv, x) /\ s.sent = n /\ s.snd = k.snd /\ s.got = k.got
    BY <1>2, <2>1 DEF Socks
  <2>3. sock' = [sock EXCEPT ![fd] = s]
    BY <1>8
  <2> HIDE DEF s
  <2>4. StreamOf(Pair(c, s))
    BY <1>8, <2>2 DEF StreamOf, Pair
  <2> QED
    BY <1>1, <2>2, <2>3, <2>4, SockKeeps DEF c, k
<1>9. CASE Send(fd)
  <2> DEFINE x == PartAt(k.sent + 1)
             n == k.sent + 1
  <2>1. sock' = [sock EXCEPT ![fd] = [k EXCEPT !.rcv = Append(k.rcv, x), !.sent = n]]
    <3>1. x = IF k.sent % 2 = 0 THEN Part(k.sent \div 2 + 1) ELSE End(k.sent \div 2 + 1)
      BY <1>7
    <3> HIDE DEF x
    <3> QED
      BY <1>9, <3>1 DEF Send, k
  <2>2. n \in 0..(2 * MaxReq)
    BY <1>1, <1>3, EventLoopAssumption
  <2> QED
    BY <1>6, <1>7, <1>8, <2>1, <2>2
<1>10. CASE SendMalformed(fd)
  <2>1. /\ k.sent % 2 = 0
        /\ sock' = [sock EXCEPT ![fd] = [k EXCEPT !.rcv = Append(k.rcv, Bad), !.sent = 2 * MaxReq]]
    BY <1>10 DEF SendMalformed, k
  <2>2. 2 * MaxReq \in 0..(2 * MaxReq)
    BY EventLoopAssumption
  <2> QED
    BY <1>6, <1>7, <1>8, <2>1, <2>2
<1> QED
  BY <1>9, <1>10

LEMMA ReceiveKeeps ==
    ASSUME IInv, NEW fd \in Fds, Receive(fd)
    PROVE  IInv'
<1> DEFINE c == fd2conn[fd]
           k == sock[fd]
           s == [k EXCEPT !.snd = Tail(k.snd), !.got = k.got + 1]
<1>1. /\ k # NULL /\ k.snd # << >> /\ UNCHANGED <<backlog, Kernel>>
      /\ sock' = [sock EXCEPT ![fd] = s]
  BY DEF Receive, Alive
<1>2. /\ c \in Conns /\ k \in Socks /\ StreamOf(Pair(c, k))
  BY <1>1, OpenSock
<1>3. /\ c.outgoing \in Seq(1..MaxReq) /\ k.snd \in Seq(1..MaxReq)
      /\ k.got \in Nat /\ k.sent \in Nat
  <2> HIDE DEF c, k
  <2> QED
    BY <1>2, ConnFields, SockFields
<1>4. Stream(k.snd \o c.outgoing, c.incoming \o k.rcv, k.got, k.sent)
  BY <1>2 DEF StreamOf, Pair
<1>5. /\ Tail(k.snd) \in Seq(1..MaxReq) /\ k.got + 1 \in 1..MaxReq
      /\ Stream(Tail(k.snd) \o c.outgoing, c.incoming \o k.rcv, k.got + 1, k.sent)
  <2> HIDE DEF c, k
  <2> QED
    BY <1>1, <1>3, <1>4, StreamReceive
<1>6. /\ s \in Socks /\ s.rcv = k.rcv /\ s.sent = k.sent /\ s.snd = Tail(k.snd) /\ s.got = k.got + 1
  <2>1. k.got + 1 \in 0..MaxReq
    BY <1>3, <1>5
  <2> HIDE DEF k
  <2>2. Tail(k.snd) \in Seq(1..MaxReq) /\ k \in Socks
    BY <1>2, <1>5
  <2> QED
    BY <2>1, <2>2 DEF Socks
<1> HIDE DEF s
<1>7. StreamOf(Pair(c, s))
  BY <1>5, <1>6 DEF StreamOf, Pair
<1> QED
  BY <1>1, <1>6, <1>7, SockKeeps

LEMMA EndsKeep ==
    ASSUME IInv, NEW fd \in Fds, Shut(fd) \/ Fail(fd)
    PROVE  IInv'
<1> DEFINE c == fd2conn[fd]
           k == sock[fd]
<1>1. k # NULL /\ UNCHANGED <<backlog, Kernel>>
  BY DEF Shut, Fail, Alive
<1>2. /\ c \in Conns /\ k \in Socks /\ StreamOf(Pair(c, k))
  BY <1>1, OpenSock
<1>3. ASSUME NEW s \in Socks, sock' = [sock EXCEPT ![fd] = s],
             s.rcv = k.rcv, s.snd = k.snd, s.got = k.got, s.sent = k.sent
      PROVE  IInv'
  <2>1. StreamOf(Pair(c, s))
    BY <1>2, <1>3 DEF StreamOf, Pair
  <2> QED
    BY <1>1, <1>3, <2>1, SockKeeps
<1>4. CASE Shut(fd)
  <2> DEFINE s == [k EXCEPT !.eof = TRUE]
  <2>1. sock' = [sock EXCEPT ![fd] = s]
    BY <1>4 DEF Shut
  <2>2. s \in Socks /\ s.rcv = k.rcv /\ s.snd = k.snd /\ s.got = k.got /\ s.sent = k.sent
    BY <1>2 DEF Socks
  <2> HIDE DEF s
  <2> QED
    BY <1>3, <2>1, <2>2
<1>5. CASE Fail(fd)
  <2> DEFINE s == [k EXCEPT !.err = TRUE]
  <2>1. sock' = [sock EXCEPT ![fd] = s]
    BY <1>5 DEF Fail
  <2>2. s \in Socks /\ s.rcv = k.rcv /\ s.snd = k.snd /\ s.got = k.got /\ s.sent = k.sent
    BY <1>2 DEF Socks
  <2> HIDE DEF s
  <2> QED
    BY <1>3, <2>1, <2>2
<1> QED
  BY <1>4, <1>5

LEMMA StepIInv == IInv /\ [Next]_vars => IInv'
<1> SUFFICES ASSUME IInv, [Next]_vars PROVE IInv'
  OBVIOUS
<1>1. CASE UNCHANGED vars
  <2>1. UNCHANGED <<fd2conn, idle_node, heap0, pc, revents, listening, slept_at, timeout_ms, now_ms,
                    sock, backlog, now, spurious>>
    BY <1>1 DEF vars, loop
  <2>2. now' \in Nat /\ now <= now'
    BY <2>1 DEF IInv, TypeOK
  <2>3. MapIsExact' /\ ConnInv' /\ RingInv' /\ ClockInv'
    BY <2>1, <2>2, ConnsAlone
  <2>4. TypeOK'
    BY <2>1 DEF IInv, TypeOK
  <2>5. ReportInv'
    BY <2>1 DEF IInv, ReportInv, ReportsStillWanted
  <2> QED
    BY <2>3, <2>4, <2>5 DEF IInv
<1>2. CASE Prepare
  BY <1>2, PrepareKeeps
<1>3. ASSUME NEW lies \in SUBSET {fd \in Open : ~Readable(fd)}, PollReturns(lies) PROVE IInv'
  <2>1. lies \in SUBSET Open
    OBVIOUS
  <2> QED
    BY <1>3, <2>1, PollReturnsKeeps
<1>4. CASE Accept
  BY <1>4, AcceptKeeps
<1>5. ASSUME NEW fd \in Fds, Serve(fd) PROVE IInv'
  BY <1>5, ServeKeeps
<1>6. CASE ServedAll
  BY <1>6, ServedAllKeeps
<1>7. CASE CloseIdle
  BY <1>7, CloseIdleKeeps
<1>8. CASE EndTimers
  BY <1>8, EndTimersKeeps
<1>9. CASE PollInterrupted
  BY <1>9, PollInterruptedKeeps
<1>10. CASE Tick \/ Connect \/ GiveUp
  BY <1>10, OutsideKeeps
<1>11. ASSUME NEW fd \in Fds, Client(fd) \/ Receive(fd) PROVE IInv'
  BY <1>11, SendKeeps, ReceiveKeeps, EndsKeep DEF Client
<1> QED
  BY <1>1, <1>2, <1>3, <1>4, <1>5, <1>6, <1>7, <1>8, <1>9, <1>10, <1>11 DEF Next, Loop

LEMMA Invariance == Spec => []IInv
BY InitIInv, StepIInv, PTL DEF Spec

-----------------------------------------------------------------------------
(* The theorems.                                                             *)

(* The type invariant: among other things, poll() is always given a timeout  *)
(* that fits in its int, and no client is sent more than it asked for.       *)
THEOREM TypeCorrect == Spec => []TypeOK
<1>1. IInv => TypeOK
  BY DEF IInv
<1> QED
  BY <1>1, Invariance, PTL

(* handle_accept's assert(!g_data.fd2conn[conn->fd]) never fails: conn_destroy *)
(* clears the map's entry whenever it closes the descriptor, so the kernel   *)
(* never hands out a number that is still in the map.                        *)
THEOREM MapCorrect == Spec => []MapIsExact
<1>1. IInv => MapIsExact
  BY DEF IInv
<1> QED
  BY <1>1, Invariance, PTL

(* The assertions of the loop over poll_args and of handle_write never fail: *)
(* between poll() and a connection's turn other handlers and an accept ran,  *)
(* and none changed what it wants.                                           *)
THEOREM ReportsCorrect == Spec => []ReportsStillWanted
<1>1. IInv => ReportsStillWanted
  BY DEF IInv, ReportInv
<1> QED
  BY <1>1, Invariance, PTL

(* A connection the loop sleeps on wants to read or to write, and no request *)
(* that handle_read could have answered was left in its buffer.              *)
THEOREM NobodyIsStranded == Spec => []NobodyStranded
<1>1. IInv => NobodyStranded
  <2> SUFFICES ASSUME IInv, NEW fd \in Open
               PROVE  LET c == fd2conn[fd] IN
                      /\ c.want_read # c.want_write /\ ~c.want_close
                      /\ c.want_write <=> c.outgoing # << >>
                      /\ Complete(c.incoming) = 0
                      /\ c.incoming # << >> => c.incoming[1] # Bad
    BY DEF NobodyStranded
  <2>1. Wants(fd2conn[fd]) /\ Clean(fd2conn[fd].incoming)
    BY DEF IInv, ConnInv, Sound, Pair
  <2> QED
    BY <2>1 DEF Wants, Clean
<1> QED
  BY <1>1, Invariance, PTL

(* However the reads and writes fall, the requests of a connection are       *)
(* answered one by one in their order: try_one_request consumes exactly what *)
(* it answers, and handle_write exactly what it sends.                       *)
THEOREM RepliesInOrder == Spec => []AnsweredInOrder
<1>1. IInv => AnsweredInOrder
  <2> SUFFICES ASSUME IInv, NEW fd \in Open
               PROVE  LET c == fd2conn[fd]
                          s == sock[fd]
                          out == s.snd \o c.outgoing
                          in == c.incoming \o s.rcv
                      IN  /\ \A i \in DOMAIN out : out[i] = s.got + i
                          /\ in # << >> /\ in[1] # Bad =>
                                in[1] = Part(Answered(Pair(c, s)) + 1)
    BY DEF AnsweredInOrder
  <2> DEFINE c == fd2conn[fd]
             s == sock[fd]
             out == s.snd \o c.outgoing
             in == c.incoming \o s.rcv
             a == s.got + Len(out)
  <2>1. /\ c.incoming \in Seq(Parts) /\ s.rcv \in Seq(Parts) /\ s.got \in Nat /\ s.sent \in Nat
        /\ s.snd \in Seq(1..MaxReq) /\ c.outgoing \in Seq(1..MaxReq)
        /\ Stream(out, in, s.got, s.sent)
    <3>1. c \in Conns /\ s \in Socks /\ Sound(Pair(c, s))
      BY DEF IInv, TypeOK, MapIsExact, ConnInv, Open
    <3> HIDE DEF c, s
    <3> QED
      BY <3>1, EventLoopAssumption DEF Conns, Socks, Sound, StreamOf, Pair
  <2> HIDE DEF c, s
  <2>2. /\ in \in Seq(Parts) /\ Len(in) \in Nat /\ (in # << >> => Len(in) > 0)
        /\ out \in Seq(1..MaxReq) /\ Len(out) = Len(s.snd) + Len(c.outgoing)
        /\ DOMAIN out = 1..Len(out) /\ Len(out) \in Nat
        /\ Len(s.snd) \in Nat /\ Len(c.outgoing) \in Nat
    <3>1. in \in Seq(Parts) /\ out \in Seq(1..MaxReq) /\ Len(out) = Len(s.snd) + Len(c.outgoing)
      BY <2>1, ConcatProperties
    <3>2. Len(s.snd) \in Nat /\ Len(c.outgoing) \in Nat
      BY <2>1, LenProperties
    <3> HIDE DEF in, out
    <3>3. Len(in) \in Nat /\ (in # << >> => Len(in) > 0)
      BY <3>1, LenProperties, EmptySeq
    <3>4. DOMAIN out = 1..Len(out) /\ Len(out) \in Nat
      BY <3>1, LenProperties
    <3> QED
      BY <3>1, <3>2, <3>3, <3>4
  <2> HIDE DEF in, out
  <2>3. a = Answered(Pair(c, s)) /\ a \in Nat
    <3>1. Answered(Pair(c, s)) = s.got + Len(s.snd) + Len(c.outgoing)
      BY DEF Answered, Pair
    <3> DEFINE x == s.got
               y == Len(s.snd)
               z == Len(c.outgoing)
    <3>2. Answered(Pair(c, s)) = x + y + z
      BY <3>1
    <3>3. a = x + (y + z)
      BY <2>2
    <3>4. x \in Nat /\ y \in Nat /\ z \in Nat
      BY <2>1, <2>2
    <3> HIDE DEF a, x, y, z
    <3>5. x + (y + z) = x + y + z /\ x + y + z \in Nat
      BY <3>4
    <3> QED
      BY <3>2, <3>3, <3>5
  <2>4. \A i \in DOMAIN out : out[i] = s.got + i
    BY <2>1, <2>2 DEF Stream
  <2>5. ASSUME in # << >>, in[1] # Bad PROVE in[1] = Part(a + 1)
    <3>1. PartAt(2 * a + 1) = Part(a + 1)
      BY <2>3, PartAtParity
    <3>2. 1 \in 1..Len(in) /\ (Len(in) = 1 \/ 1 \in 1..(Len(in) - 1))
      <4>1. Len(in) \in Nat /\ Len(in) > 0
        BY <2>2, <2>5
      <4>2. \A x \in Nat : x > 0 => 1 \in 1..x /\ (x = 1 \/ 1 \in 1..(x - 1))
        OBVIOUS
      <4> QED
        BY <4>1, <4>2
    <3>3. in[1] = PartAt(2 * a + 1)
      BY <2>1, <2>5, <3>2 DEF Stream, InOrder
    <3> QED
      BY <3>1, <3>3
  <2> HIDE DEF a
  <2> QED
    BY <2>3, <2>4, <2>5 DEF c, s, in, out
<1> QED
  BY <1>1, Invariance, PTL

(* The intrusive list links every open connection once, in both directions,  *)
(* and in the order of last_active, through every accept, move to the end    *)
(* and conn_destroy; a node that was freed is not linked any more.           *)
THEOREM IdleListCorrect == Spec => []IdleListExact
<1>1. IInv => IdleListExact
  <2> SUFFICES ASSUME IInv PROVE IdleListExact
    OBVIOUS
  <2>1. PICK s \in Seq(Fds) : Ring(idle_node, s, Open) /\ Sorted(s, fd2conn)
    BY DEF IInv, RingInv
  <2> DEFINE n == Len(s)
             ring == <<IdleHead>> \o s \o <<IdleHead>>
  <2>2. n \in Nat /\ (\A i \in 1..n : s[i] \in Open) /\ DOMAIN s = 1..n
        /\ s \in [1..n -> Fds] /\ s \in Seq(Nodes)
    BY <2>1, RingNodes, LenProperties
  <2>3. s \in [1..n -> Open]
    BY <2>2
  <2>4. {s[i] : i \in DOMAIN s} = Open
    <3>1. \A fd \in Open : \E i \in 1..n : s[i] = fd
      BY <2>1 DEF Ring
    <3> QED
      BY <2>2, <3>1
  <2>5. Cardinality(Open) = n
    <3>1. s \in Bijection(1..n, Open)
      <4>1. \A i, j \in 1..n : s[i] = s[j] => i = j
        BY <2>1 DEF Ring, IsRing
      <4>2. \A fd \in Open : \E i \in 1..n : s[i] = fd
        BY <2>1 DEF Ring
      <4>3. s \in Injection(1..n, Open)
        BY <2>3, <4>1 DEF Injection, IsInjective
      <4>4. s \in Surjection(1..n, Open)
        BY <2>3, <4>2 DEF Surjection
      <4> QED
        BY <4>3, <4>4 DEF Bijection
    <3>2. ExistsBijection(1..n, Open)
      BY <3>1 DEF ExistsBijection
    <3> QED
      BY <2>2, <3>2, FS_CountingElements
  <2>6. \A i \in 1..(n + 2) : ring[i] = Nth(IdleHead, s, i - 1)
    <3>1. <<IdleHead>> \in Seq(Nodes)
      BY DEF Nodes
    <3>2. \A i \in 1..(1 + n + 1) : ring[i] = IF i <= 1 THEN IdleHead
                                            ELSE IF i <= 1 + n THEN s[i - 1] ELSE IdleHead
      OBVIOUS
    <3> QED
      BY <2>2, <3>2 DEF Nth
  <2>7. ASSUME NEW i \in 1..(n + 1)
        PROVE  idle_node[ring[i]].next = ring[i + 1] /\ idle_node[ring[i + 1]].prev = ring[i]
    <3>1. ring[i] = Nth(IdleHead, s, i - 1) /\ ring[i + 1] = Nth(IdleHead, s, i - 1 + 1)
          /\ i - 1 \in 0..n
      <4>1. i \in 1..(n + 2) /\ i + 1 \in 1..(n + 2) /\ i + 1 - 1 = i - 1 + 1 /\ i - 1 \in 0..n
        BY <2>2
      <4> HIDE DEF ring
      <4> QED
        BY <2>6, <4>1
    <3> HIDE DEF ring
    <3> QED
      BY <2>1, <3>1 DEF Ring, IsRing
  <2>8. ASSUME NEW i \in DOMAIN s, NEW j \in DOMAIN s, i < j
        PROVE  fd2conn[s[i]].last_active <= fd2conn[s[j]].last_active
    BY <2>1, <2>2, <2>8 DEF Sorted
  <2> QED
    BY <2>3, <2>4, <2>5, <2>7, <2>8 DEF IdleListExact
<1> QED
  BY <1>1, Invariance, PTL

(* A deadline int32_t can hold the distance to.                              *)
Near == heap0 # NULL => heap0 < now + Half

LEMMA SleepsShort ==
    ASSUME IInv, Near, IdleTimeout < Half, Prepare
    PROVE  NoOversleep'
<1> DEFINE D == IdleDue \cup TTLDue
           ends == TTLDue \cup {fd2conn[fd].last_active + IdleTimeout : fd \in Open}
<1>1. /\ now \in Nat /\ Half \in Nat /\ IdleTimeout \in Nat /\ D \subseteq Nat
      /\ TypeOK /\ RingInv
      /\ \A fd \in Open : /\ fd2conn[fd].last_active \in Nat /\ fd2conn[fd].last_active <= now
  <2>1. \A fd \in Open : fd2conn[fd].last_active \in Nat /\ fd2conn[fd].last_active <= now
    BY DEF IInv, TypeOK, Open, Conns, ClockInv
  <2>2. TypeOK /\ RingInv /\ now \in Nat
    BY DEF IInv, TypeOK
  <2> QED
    BY <2>1, <2>2, Deadlines, EventLoopAssumption
<1>2. \A x \in D : x < now + Half
  <2>1. \A x \in TTLDue : x < now + Half
    BY DEF Near, TTLDue
  <2>2. \A x \in IdleDue : x < now + Half
    <3>1. CASE Open = {}
      BY <1>1, <3>1, Deadlines
    <3>2. CASE Open # {}
      <4>1. Oldest \in Open /\ IdleDue = {fd2conn[Oldest].last_active + IdleTimeout}
        BY <1>1, <3>2, Deadlines
      <4>2. \A x, y \in Nat : x <= now /\ y < Half => x + y < now + Half
        BY <1>1
      <4>3. fd2conn[Oldest].last_active + IdleTimeout < now + Half
        BY <1>1, <4>1, <4>2
      <4> QED
        BY <4>1, <4>3
    <3> QED
      BY <3>1, <3>2
  <2> QED
    BY <2>1, <2>2
<1>3. \A e \in ends : e \in Nat /\ \E d \in D : d <= e
  <2>1. \A e \in TTLDue : e \in Nat /\ e \in D /\ e <= e
    BY <1>1
  <2>2. \A fd \in Open : /\ fd2conn[fd].last_active + IdleTimeout \in Nat
                         /\ \E d \in IdleDue : d <= fd2conn[fd].last_active + IdleTimeout
    BY <1>1, Deadlines
  <2> QED
    BY <2>1, <2>2
<1>4. ends' = ends
  BY DEF Prepare, TTLDue, Open
<1>5. timeout_ms' = next_timer_ms /\ slept_at' = now
  BY DEF Prepare
<1>6. /\ D = {} => next_timer_ms = -1
      /\ D # {} => \E d \in D : /\ \A x \in D : d <= x
                                /\ next_timer_ms = IF d <= now THEN 0 ELSE ToInt32(d - now)
  BY <1>1, NextTimer
<1> HIDE DEF D
<1>7. ASSUME NEW e \in ends PROVE timeout_ms' >= 0 /\ (slept_at' + timeout_ms' <= e \/ timeout_ms' = 0)
  <2>1. PICK d0 \in D : d0 <= e
    BY <1>3
  <2>2. PICK d \in D : /\ \A x \in D : d <= x
                       /\ next_timer_ms = IF d <= now THEN 0 ELSE ToInt32(d - now)
    BY <1>6, <2>1
  <2>3. d \in Nat /\ d <= e /\ d < now + Half /\ e \in Nat
    <3>1. d \in Nat /\ d0 \in Nat /\ e \in Nat /\ d <= d0
      BY <1>1, <1>3, <2>1, <2>2
    <3> QED
      BY <1>2, <2>1, <3>1
  <2>4. CASE d <= now
    BY <1>5, <2>2, <2>4
  <2>5. CASE ~(d <= now)
    <3>1. d - now \in Nat /\ d - now < Half /\ now + (d - now) = d
      BY <1>1, <2>3, <2>5
    <3>2. timeout_ms' = d - now
      BY <1>5, <2>2, <2>5, <3>1, SameInt32
    <3> QED
      BY <1>5, <2>3, <3>1, <3>2
  <2> QED
    BY <2>4, <2>5
<1> QED
  BY <1>4, <1>7 DEF NoOversleep

LEMMA SleepKeeps ==
    ASSUME IInv, Near, IdleTimeout < Half, NoOversleep, [Next]_vars
    PROVE  NoOversleep'
<1>1. ASSUME UNCHANGED <<fd2conn, heap0, pc, slept_at, timeout_ms>> PROVE NoOversleep'
  BY <1>1 DEF NoOversleep, TTLDue, Open
<1>2. ASSUME pc' # "poll" PROVE NoOversleep'
  BY <1>2 DEF NoOversleep
<1>3. CASE UNCHANGED vars
  BY <1>1, <1>3 DEF vars, loop
<1>4. CASE Prepare
  BY <1>4, SleepsShort
<1>5. ASSUME NEW lies, PollReturns(lies) PROVE NoOversleep'
  BY <1>2, <1>5 DEF PollReturns
<1>6. CASE Accept \/ ServedAll \/ EndTimers \/ PollInterrupted
  BY <1>2, <1>6 DEF Accept, ServedAll, EndTimers, PollInterrupted
<1>7. ASSUME NEW fd \in Fds, Serve(fd) PROVE NoOversleep'
  BY <1>2, <1>7 DEF Serve
<1>8. CASE CloseIdle
  BY <1>2, <1>8 DEF CloseIdle, loop
<1>9. CASE Tick \/ Connect \/ GiveUp
  BY <1>1, <1>9 DEF Tick, Connect, GiveUp, Kernel, loop
<1>10. ASSUME NEW fd \in Fds, Client(fd) \/ Receive(fd) PROVE NoOversleep'
  <2>1. UNCHANGED Kernel
    BY <1>10 DEF Client, Send, SendMalformed, Shut, Fail, Receive
  <2> QED
    BY <1>1, <2>1 DEF Kernel, loop
<1> QED
  BY <1>3, <1>4, <1>5, <1>6, <1>7, <1>8, <1>9, <1>10 DEF Next, Loop

(* next_timer_ms never lets poll() sleep past the first deadline, as long as *)
(* int32_t can hold the distance: K_IDLE_TIMEOUT_MS is 5000, so only a key   *)
(* that expires in 2^31 ms or more can be overslept.                         *)
THEOREM SleepsInTime ==
    ASSUME IdleTimeout < Half
    PROVE  Spec /\ []Near => []NoOversleep
<1>1. Init => NoOversleep
  BY DEF Init, NoOversleep
<1>2. IInv /\ Near /\ NoOversleep /\ [Next]_vars => NoOversleep'
  BY SleepKeeps
<1> QED
  BY <1>1, <1>2, Invariance, PTL DEF Spec

(* In particular when every deadline is less than 2^31.                      *)
THEOREM SleepsInTimeEarly ==
    ASSUME IdleTimeout < Half, \A d \in TTLs : d < Half
    PROVE  Spec => []NoOversleep
<1>1. IInv => Near
  BY EventLoopAssumption DEF IInv, TypeOK, Near
<1>2. Spec /\ []Near => []NoOversleep
  BY SleepsInTime
<1> QED
  BY <1>1, <1>2, Invariance, PTL

(* next_timer_ms' "no timers, no timeouts" is true of the same deadlines:    *)
(* nothing but a far key makes poll() wait for ever while there are timers.  *)
THEOREM ForeverOnlyWithoutTimers ==
    ASSUME IdleTimeout < Half
    PROVE  Spec /\ []Near => []ForeverMeansNoTimers
<1>1. IInv /\ NoOversleep => ForeverMeansNoTimers
  <2> SUFFICES ASSUME IInv, NoOversleep, pc = "poll", timeout_ms < 0 PROVE TTLDue = {} /\ Open = {}
    BY DEF ForeverMeansNoTimers
  <2>1. ~(timeout_ms >= 0)
    BY DEF IInv, TypeOK
  <2>2. TTLDue \cup {fd2conn[fd].last_active + IdleTimeout : fd \in Open} = {}
    BY <2>1 DEF NoOversleep
  <2> QED
    BY <2>2
<1>2. Spec /\ []Near => []NoOversleep
  BY SleepsInTime
<1> QED
  BY <1>1, <1>2, Invariance, PTL
=============================================================================
