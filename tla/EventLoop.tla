----------------------------- MODULE EventLoop -----------------------------
(***************************************************************************)
(* The event loop of server.cpp with the connections of lib/server/conn.cpp*)
(* and the timers of lib/server/timer.cpp: poll, accept, one handler per   *)
(* ready connection, process_timers, and round again.                      *)
(*                                                                         *)
(* A client sends a stream of requests, each in two parts, so that a read  *)
(* may end inside a request or bring several at once.  A request and its   *)
(* response are known by their number on the connection.  The sockets are  *)
(* the kernel's: they fill, drain, end and fail between any two steps of   *)
(* the loop.  Of the TTL heap the loop sees the earliest deadline alone.   *)
(***************************************************************************)
EXTENDS DList, Integers, Sequences, FiniteSets

CONSTANTS Fds,          (* descriptors the kernel can hand out              *)
          IdleTimeout,  (* K_IDLE_TIMEOUT_MS                                *)
          Half,         (* 2^31: int32_t holds -Half..Half-1                *)
          SndCap,       (* room in a socket's send buffer                   *)
          MaxReq,       (* bound: requests per connection                   *)
          MaxTime,      (* bound: the clock                                 *)
          MaxSpurious,  (* bound: false readiness and interrupted calls     *)
          TTLs,         (* deadlines a request may leave first in the heap  *)
          NULL

VARIABLES
    fd2conn,    (* g_data.fd2conn: fd -> Conn or NULL                       *)
    idle_node,  (* the ring of idle connections: fd -> its Conn::idle_node, *)
                (* or NULL; IdleHead -> g_data.idle_list                    *)
    heap0,      (* g_data.heap[0].val, or NULL when the heap is empty       *)
    pc,         (* where the loop is                                        *)
    revents,    (* what poll() reported, for the connections still to serve *)
    listening,  (* what it reported for the listening socket                *)
    slept_at, timeout_ms,   (* the call of poll(): its instant and timeout  *)
    now_ms,     (* process_timers' snapshot of the clock                    *)
    sock,       (* the kernel's socket behind each open fd, or NULL         *)
    backlog,    (* a connection waits to be accepted                        *)
    now,        (* the monotonic clock                                      *)
    spurious    (* false readiness and interrupted calls so far             *)

loop == <<pc, revents, listening, slept_at, timeout_ms, now_ms>>
vars == <<fd2conn, idle_node, heap0, loop, sock, backlog, now, spurious>>

IdleHead == -1

(* What is sent, in parts; connections, sockets and list nodes.              *)
Part(i)  == <<"first", i>>
End(i)   == <<"second", i>>
Bad      == <<"malformed", 0>>
Parts == ({"first", "second"} \X (1..MaxReq)) \cup {Bad}
Conns == [want_read : BOOLEAN, want_write : BOOLEAN, want_close : BOOLEAN,
          incoming : Seq(Parts), outgoing : Seq(1..MaxReq), last_active : 0..MaxTime]
Socks == [rcv : Seq(Parts), snd : Seq(1..MaxReq), eof : BOOLEAN, err : BOOLEAN,
          sent : 0..(2 * MaxReq), got : 0..MaxReq]
Nodes == Fds \cup {IdleHead}
Links == [prev : Nodes, next : Nodes]

ASSUME EventLoopAssumption ==
    /\ Fds \subseteq Nat
    /\ IdleTimeout \in Nat /\ Half \in Nat \ {0} /\ SndCap \in Nat \ {0}
    /\ MaxReq \in Nat /\ MaxTime \in Nat /\ MaxSpurious \in Nat
    /\ TTLs \subseteq Nat
    /\ NULL \notin Fds \cup TTLs \cup Conns \cup Socks \cup Links

Open == {fd \in Fds : fd2conn[fd] # NULL}

NewConn(t) == [want_read |-> TRUE, want_write |-> FALSE, want_close |-> FALSE,
               incoming |-> << >>, outgoing |-> << >>, last_active |-> t]

(* rcv: parts on their way to the server; snd: responses on their way back;  *)
(* sent, got: parts the client sent, responses it received.                  *)
NewSock == [rcv |-> << >>, snd |-> << >>, eof |-> FALSE, err |-> FALSE,
            sent |-> 0, got |-> 0]

-----------------------------------------------------------------------------
(* next_timer_ms                                                             *)

ToInt32(n) == ((n + Half) % (2 * Half)) - Half

Oldest == idle_node[IdleHead].next
IdleDue == IF dlist_empty(idle_node, IdleHead) THEN {}
           ELSE {fd2conn[Oldest].last_active + IdleTimeout}
TTLDue == IF heap0 = NULL THEN {} ELSE {heap0}

(* Mutants: the connections alone, the keys alone.                           *)
Mut_next_timer_NoTTL ==
    IF IdleDue = {} THEN -1
    ELSE LET next_ms == CHOOSE d \in IdleDue : TRUE IN
         IF next_ms <= now THEN 0 ELSE ToInt32(next_ms - now)

Mut_next_timer_NoIdle ==
    IF TTLDue = {} THEN -1
    ELSE IF heap0 <= now THEN 0 ELSE ToInt32(heap0 - now)

next_timer_ms ==
    LET due == IdleDue \cup TTLDue IN
    IF due = {} THEN -1
    ELSE LET next_ms == CHOOSE d \in due : \A x \in due : d <= x IN
         IF next_ms <= now THEN 0 ELSE ToInt32(next_ms - now)

(* Top of the loop: poll_args are the connections' intentions, which nobody  *)
(* changes until poll() returns.                                             *)
Prepare ==
    /\ pc = "prepare"
    /\ slept_at' = now
    /\ timeout_ms' = next_timer_ms
    /\ pc' = "poll"
    /\ UNCHANGED <<fd2conn, idle_node, heap0, revents, listening, now_ms, sock, backlog, now,
                   spurious>>

Readable(fd) == sock[fd].rcv # << >> \/ sock[fd].eof \/ sock[fd].err
Writable(fd) == Len(sock[fd].snd) < SndCap \/ sock[fd].err

Events(fd, lie) ==
    (IF fd2conn[fd].want_read /\ (lie \/ Readable(fd)) THEN {"POLLIN"} ELSE {})
      \cup (IF fd2conn[fd].want_write /\ Writable(fd) THEN {"POLLOUT"} ELSE {})
      \cup (IF sock[fd].err THEN {"POLLERR"} ELSE {})

(* The call's own arguments are gone with it.                                *)
Awake == slept_at' = 0 /\ timeout_ms' = 0

(* poll() returns: somebody is ready, or the timeout has passed.  `lies' are *)
(* sockets reported readable although read() would block.                    *)
PollReturns(lies) ==
    /\ pc = "poll"
    /\ spurious + Cardinality(lies) <= MaxSpurious
    /\ spurious' = spurious + Cardinality(lies)
    /\ LET ev == [fd \in Open |-> Events(fd, fd \in lies)]
           ready == {fd \in Open : ev[fd] # {}}
       IN  /\ \/ ready # {} \/ backlog
              \/ timeout_ms >= 0 /\ now >= slept_at + timeout_ms
           /\ revents' = [fd \in ready |-> ev[fd]]
    /\ listening' = backlog
    /\ Awake
    /\ pc' = "accept"
    /\ UNCHANGED <<fd2conn, idle_node, heap0, now_ms, sock, backlog, now>>

(* EINTR: back to the top of the loop.                                       *)
PollInterrupted ==
    /\ pc = "poll"
    /\ spurious < MaxSpurious
    /\ spurious' = spurious + 1
    /\ Awake
    /\ pc' = "prepare"
    /\ UNCHANGED <<fd2conn, idle_node, heap0, revents, listening, now_ms,
                   sock, backlog, now>>

-----------------------------------------------------------------------------
(* handle_accept.  accept() fails when the client has given up meanwhile, or *)
(* when no descriptor is left.                                               *)
Accepted(fd) ==
    /\ listening /\ backlog
    /\ sock[fd] = NULL
    /\ backlog' = FALSE
    /\ sock' = [sock EXCEPT ![fd] = NewSock]
    /\ fd2conn' = [fd2conn EXCEPT ![fd] = NewConn(now)]
    /\ idle_node' = dlist_insert_before(idle_node, IdleHead, fd)

Accept ==
    /\ pc = "accept"
    /\ \/ \E fd \in Fds : Accepted(fd)
       \/ /\ ~(listening /\ backlog) \/ \A fd \in Fds : sock[fd] # NULL
          /\ UNCHANGED <<fd2conn, idle_node, sock, backlog>>
    /\ pc' = "io"
    /\ listening' = FALSE
    /\ UNCHANGED <<heap0, revents, slept_at, timeout_ms, now_ms, now, spurious>>

-----------------------------------------------------------------------------
(* The handlers, on a Conn and its socket: each is the set of its outcomes.  *)
Pair(c, s) == [conn |-> c, sock |-> s]
WantClose(p) == [p EXCEPT !.conn.want_close = TRUE]

(* Mutants: written data is not consumed; write interest is not withdrawn;   *)
(* read interest is not restored.                                            *)
Mut_Written_NotConsumed(p, n) ==
    Pair(p.conn, [p.sock EXCEPT !.snd = @ \o SubSeq(p.conn.outgoing, 1, n)])

Mut_Written_StillWrites(p, n) ==
    LET rest == SubSeq(p.conn.outgoing, n + 1, Len(p.conn.outgoing)) IN
    Pair([p.conn EXCEPT !.outgoing = rest,
                        !.want_read = IF rest = << >> THEN TRUE ELSE @],
         [p.sock EXCEPT !.snd = @ \o SubSeq(p.conn.outgoing, 1, n)])

Mut_Written_NeverReads(p, n) ==
    LET rest == SubSeq(p.conn.outgoing, n + 1, Len(p.conn.outgoing)) IN
    Pair([p.conn EXCEPT !.outgoing = rest,
                        !.want_write = IF rest = << >> THEN FALSE ELSE @],
         [p.sock EXCEPT !.snd = @ \o SubSeq(p.conn.outgoing, 1, n)])

(* The responses written leave `outgoing'; once it is empty, read again.     *)
Written(p, n) ==
    LET c == p.conn
        rest == SubSeq(c.outgoing, n + 1, Len(c.outgoing))
    IN  Pair([c EXCEPT !.outgoing = rest,
                       !.want_read = IF rest = << >> THEN TRUE ELSE @,
                       !.want_write = IF rest = << >> THEN FALSE ELSE @],
             [p.sock EXCEPT !.snd = @ \o SubSeq(c.outgoing, 1, n)])

handle_write(p) ==
    LET room == SndCap - Len(p.sock.snd) IN
    IF p.sock.err THEN {WantClose(p)}
    ELSE IF room = 0 THEN {p}     \* EAGAIN
    ELSE {Written(p, n) : n \in 1..(IF room < Len(p.conn.outgoing) THEN room
                                    ELSE Len(p.conn.outgoing))}

(* try_one_request until it fails: how many whole requests `incoming' starts *)
(* with, and whether a malformed one comes next.                             *)
Whole(b, m) ==
    \A j \in 1..m : b[2 * j - 1][1] = "first" /\ b[2 * j][1] = "second"
Complete(b) ==
    CHOOSE m \in 0..(Len(b) \div 2) :
        Whole(b, m) /\ \A k \in 0..(Len(b) \div 2) : Whole(b, k) => k <= m

(* Mutants: one request per read; a malformed request is answered, not       *)
(* rejected.                                                                 *)
Mut_TryRequests_Once(c) ==
    LET b == c.incoming
        m == IF Complete(b) = 0 THEN 0 ELSE 1
        rest == SubSeq(b, 2 * m + 1, Len(b))
    IN  [c EXCEPT !.incoming = rest,
                  !.outgoing = @ \o [j \in 1..m |-> b[2 * j][2]],
                  !.want_close = @ \/ (rest # << >> /\ rest[1] = Bad)]

Mut_TryRequests_AnswersBad(c) ==
    LET b == c.incoming
        m == Complete(b)
        rest == SubSeq(b, 2 * m + 1, Len(b))
    IN  [c EXCEPT !.incoming = rest,
                  !.outgoing = @ \o [j \in 1..m |-> b[2 * j][2]]
                                 \o (IF rest # << >> /\ rest[1] = Bad THEN <<0>> ELSE << >>)]

TryRequests(c) ==
    LET b == c.incoming
        m == Complete(b)
        rest == SubSeq(b, 2 * m + 1, Len(b))
    IN  [c EXCEPT !.incoming = rest,
                  !.outgoing = @ \o [j \in 1..m |-> b[2 * j][2]],
                  !.want_close = @ \/ (rest # << >> /\ rest[1] = Bad)]

(* read(): data first, then the error or the end of the stream.              *)
handle_read(p) ==
    IF p.sock.rcv = << >>
    THEN {IF p.sock.err \/ p.sock.eof THEN WantClose(p) ELSE p}
    ELSE UNION
      { LET s == [p.sock EXCEPT !.rcv = SubSeq(@, n + 1, Len(@))]
            c == TryRequests([p.conn EXCEPT !.incoming = @ \o SubSeq(p.sock.rcv, 1, n)])
        IN  IF c.outgoing = << >> THEN {Pair(c, s)}
            ELSE handle_write(Pair([c EXCEPT !.want_read = FALSE, !.want_write = TRUE], s))
        : n \in 1..Len(p.sock.rcv) }

(* Mutant: the connection keeps its place in the idle list.                  *)
Mut_MoveToEnd_Stays(fd) == idle_node

MoveToEnd(fd) == dlist_insert_before(dlist_detach(idle_node, fd), IdleHead, fd)

(* Mutant: g_data.fd2conn keeps the pointer.                                 *)
Mut_Destroy_KeepsMap(fd, nodes) ==
    /\ sock' = [sock EXCEPT ![fd] = NULL]
    /\ idle_node' = [dlist_detach(nodes, fd) EXCEPT ![fd] = NULL]
    /\ UNCHANGED fd2conn

(* conn_destroy, which closes the socket as well.                            *)
Destroy(fd, nodes) ==
    /\ fd2conn' = [fd2conn EXCEPT ![fd] = NULL]
    /\ sock' = [sock EXCEPT ![fd] = NULL]
    /\ idle_node' = [dlist_detach(nodes, fd) EXCEPT ![fd] = NULL]

(* The requests answered so far on a connection.                             *)
Answered(p) == p.sock.got + Len(p.sock.snd) + Len(p.conn.outgoing)

(* One connection of the loop over poll_args, in the order of descriptors.   *)
(* A request that was executed may have changed the earliest deadline.       *)
Serve(fd) ==
    /\ pc = "io"
    /\ fd \in DOMAIN revents
    /\ \A f \in DOMAIN revents : fd <= f
    /\ LET ready == revents[fd]
           p0 == Pair([fd2conn[fd] EXCEPT !.last_active = now], sock[fd])
       IN  \E p1 \in IF "POLLIN" \in ready THEN handle_read(p0) ELSE {p0} :
           \E p2 \in IF "POLLOUT" \in ready THEN handle_write(p1) ELSE {p1} :
               /\ IF "POLLERR" \in ready \/ p2.conn.want_close THEN Destroy(fd, MoveToEnd(fd))
                  ELSE /\ fd2conn' = [fd2conn EXCEPT ![fd] = p2.conn]
                       /\ sock' = [sock EXCEPT ![fd] = p2.sock]
                       /\ idle_node' = MoveToEnd(fd)
               /\ heap0' \in IF Answered(p2) = Answered(p0) THEN {heap0}
                             ELSE {heap0, NULL} \cup TTLs
    /\ revents' = [f \in DOMAIN revents \ {fd} |-> revents[f]]
    /\ UNCHANGED <<pc, listening, slept_at, timeout_ms, now_ms, backlog, now, spurious>>

ServedAll ==
    /\ pc = "io"
    /\ DOMAIN revents = {}
    /\ pc' = "timers"
    /\ now_ms' = now
    /\ UNCHANGED <<fd2conn, idle_node, heap0, revents, listening, slept_at, timeout_ms,
                   sock, backlog, now, spurious>>

(* process_timers, one iteration: the connection at the head of the list, if *)
(* it is due.                                                                *)
IdleDone == \A next_ms \in IdleDue : next_ms >= now_ms

CloseIdle ==
    /\ pc = "timers" /\ ~IdleDone
    /\ Destroy(Oldest, idle_node)
    /\ UNCHANGED <<heap0, loop, backlog, now, spurious>>

(* Then the keys that are due (see Keyspace), after which another deadline   *)
(* may be the earliest.                                                      *)
EndTimers ==
    /\ pc = "timers" /\ IdleDone
    /\ heap0' \in IF heap0 # NULL /\ heap0 < now_ms
                  THEN {NULL} \cup {d \in TTLs : d >= heap0} ELSE {heap0}
    /\ pc' = "prepare"
    /\ now_ms' = 0
    /\ UNCHANGED <<fd2conn, idle_node, revents, listening, slept_at, timeout_ms, sock, backlog, now, spurious>>

-----------------------------------------------------------------------------
(* The clients and the kernel.                                               *)
Kernel == <<fd2conn, idle_node, heap0, loop, now, spurious>>   \* not theirs

Connect == ~backlog /\ backlog' = TRUE /\ UNCHANGED <<sock, Kernel>>
GiveUp  == backlog /\ backlog' = FALSE /\ UNCHANGED <<sock, Kernel>>

Alive(fd) == sock[fd] # NULL /\ ~sock[fd].eof /\ ~sock[fd].err

Send(fd) ==
    /\ Alive(fd)
    /\ sock[fd].sent < 2 * MaxReq
    /\ LET i == sock[fd].sent \div 2 + 1
           part == IF sock[fd].sent % 2 = 0 THEN Part(i) ELSE End(i)
       IN  sock' = [sock EXCEPT ![fd].rcv = Append(@, part), ![fd].sent = @ + 1]
    /\ UNCHANGED <<backlog, Kernel>>

SendMalformed(fd) ==
    /\ Alive(fd)
    /\ sock[fd].sent < 2 * MaxReq /\ sock[fd].sent % 2 = 0
    /\ sock' = [sock EXCEPT ![fd].rcv = Append(@, Bad), ![fd].sent = 2 * MaxReq]
    /\ UNCHANGED <<backlog, Kernel>>

Receive(fd) ==
    /\ Alive(fd)
    /\ sock[fd].snd # << >>
    /\ sock' = [sock EXCEPT ![fd].snd = Tail(@), ![fd].got = @ + 1]
    /\ UNCHANGED <<backlog, Kernel>>

Shut(fd) ==
    /\ Alive(fd)
    /\ sock' = [sock EXCEPT ![fd].eof = TRUE]
    /\ UNCHANGED <<backlog, Kernel>>

Fail(fd) ==
    /\ sock[fd] # NULL /\ ~sock[fd].err
    /\ sock' = [sock EXCEPT ![fd].err = TRUE]
    /\ UNCHANGED <<backlog, Kernel>>

Tick ==
    /\ now < MaxTime
    /\ now' = now + 1
    /\ UNCHANGED <<fd2conn, idle_node, heap0, loop, sock, backlog, spurious>>

-----------------------------------------------------------------------------
Init ==
    /\ fd2conn = [fd \in Fds |-> NULL]
    /\ idle_node = dlist_init([fd \in Fds \cup {IdleHead} |-> NULL], IdleHead)
    /\ heap0 = NULL
    /\ pc = "prepare"
    /\ revents = [fd \in {} |-> {}]
    /\ listening = FALSE
    /\ slept_at = 0 /\ timeout_ms = 0 /\ now_ms = 0
    /\ sock = [fd \in Fds |-> NULL]
    /\ backlog = FALSE
    /\ now = 0
    /\ spurious = 0

Loop ==
    \/ Prepare
    \/ \E lies \in SUBSET {fd \in Open : ~Readable(fd)} : PollReturns(lies)
    \/ Accept
    \/ \E fd \in Fds : Serve(fd)
    \/ ServedAll
    \/ CloseIdle \/ EndTimers

Client(fd) == Send(fd) \/ SendMalformed(fd) \/ Shut(fd) \/ Fail(fd)

Next ==
    \/ Loop \/ PollInterrupted
    \/ Connect \/ GiveUp \/ Tick
    \/ \E fd \in Fds : Client(fd) \/ Receive(fd)

Spec == Init /\ [][Next]_vars

(* The server's thread runs.  Clients owe it nothing, not even to read the   *)
(* responses they are sent; what needs that of them says so.                 *)
FairSpec == Spec /\ WF_vars(Loop)

ClientsRead == \A fd \in Fds : WF_vars(Receive(fd))

-----------------------------------------------------------------------------
TypeOK ==
    /\ fd2conn \in [Fds -> Conns \cup {NULL}]
    /\ sock \in [Fds -> Socks \cup {NULL}]
    /\ idle_node \in [Nodes -> Links \cup {NULL}]
    /\ heap0 \in TTLs \cup {NULL}
    /\ pc \in {"prepare", "poll", "accept", "io", "timers"}
    /\ DOMAIN revents \subseteq Fds
    /\ revents \in [DOMAIN revents -> SUBSET {"POLLIN", "POLLOUT", "POLLERR"}]
    /\ listening \in BOOLEAN /\ backlog \in BOOLEAN
    /\ timeout_ms \in -Half..(Half - 1)
    /\ now \in 0..MaxTime /\ now_ms \in 0..now /\ slept_at \in 0..now
    /\ spurious \in 0..MaxSpurious

(* assert(!g_data.fd2conn[conn->fd]) in handle_accept, and its converse: a   *)
(* descriptor is in the map exactly while the socket is open.                *)
MapIsExact == \A fd \in Fds : fd2conn[fd] = NULL <=> sock[fd] = NULL

(* assert(conn->want_read), assert(conn->want_write) in main and             *)
(* assert(conn->outgoing.size() > 0) in handle_write: what poll() reported   *)
(* still is what the connection wants when its turn comes.                   *)
ReportsStillWanted ==
    \A fd \in DOMAIN revents :
        /\ fd2conn[fd] # NULL
        /\ "POLLIN" \in revents[fd] => fd2conn[fd].want_read
        /\ "POLLOUT" \in revents[fd] =>
              /\ fd2conn[fd].want_write /\ fd2conn[fd].outgoing # << >>
              /\ "POLLIN" \notin revents[fd]

(* While the server sleeps every connection waits for exactly one thing: for *)
(* room when it has responses, else for more data, and then no request it    *)
(* could answer (or must reject) is left in its buffer.                      *)
NobodyStranded ==
    pc = "poll" => \A fd \in Open :
        LET c == fd2conn[fd] IN
        /\ c.want_read # c.want_write /\ ~c.want_close
        /\ c.want_write <=> c.outgoing # << >>
        /\ Complete(c.incoming) = 0
        /\ c.incoming # << >> => c.incoming[1] # Bad

(* The ring of idle nodes goes through every connection once, the longest    *)
(* idle first, and back the same way; nothing that was freed is linked.      *)
IdleListExact ==
    \E s \in [1..Cardinality(Open) -> Open] :
        LET ring == <<IdleHead>> \o s \o <<IdleHead>> IN
        /\ {s[i] : i \in DOMAIN s} = Open
        /\ \A i \in 1..(Len(s) + 1) :
              idle_node[ring[i]].next = ring[i + 1] /\ idle_node[ring[i + 1]].prev = ring[i]
        /\ \A i, j \in DOMAIN s :
              i < j => fd2conn[s[i]].last_active <= fd2conn[s[j]].last_active

(* Pipelining: across both buffers and both directions of the socket, the    *)
(* requests are answered one by one, in order, with none lost or repeated.   *)
AnsweredInOrder ==
    \A fd \in Open :
        LET c == fd2conn[fd]
            s == sock[fd]
            out == s.snd \o c.outgoing
            in == c.incoming \o s.rcv
        IN  /\ \A i \in DOMAIN out : out[i] = s.got + i
            /\ in # << >> /\ in[1] # Bad =>
                  in[1] = Part(Answered(Pair(c, s)) + 1)

(* poll() never sleeps past the first timer: neither the connection that is  *)
(* idle the longest nor the key that expires first.                          *)
NoOversleep ==
    pc = "poll" =>
        \A due \in TTLDue \cup {fd2conn[fd].last_active + IdleTimeout : fd \in Open} :
            timeout_ms >= 0 /\ (slept_at + timeout_ms <= due \/ timeout_ms = 0)

(* timer.cpp, next_timer_ms: "no timers, no timeouts" is what a negative     *)
(* timeout stands for.                                                       *)
ForeverMeansNoTimers ==
    pc = "poll" /\ timeout_ms < 0 => TTLDue = {} /\ Open = {}

(* If clients read, every request that reached the server whole is answered, *)
(* or its connection is closed.                                              *)
RequestsAnswered ==
    ClientsRead =>
        \A fd \in Fds : \A i \in 1..MaxReq :
            (sock[fd] # NULL /\ sock[fd].sent >= 2 * i)
                ~> (sock[fd] = NULL \/ sock[fd].got >= i \/ sock[fd].eof \/ sock[fd].err)

(* A connection that has been idle too long goes, unless it becomes active:  *)
(* also one on which the server waits for room to write while the client     *)
(* never reads.                                                              *)
IdleConnsGo ==
    \A fd \in Fds, a \in 0..MaxTime :
        (fd2conn[fd] # NULL /\ fd2conn[fd].last_active = a /\ a + IdleTimeout < now)
            ~> ~(fd2conn[fd] # NULL /\ fd2conn[fd].last_active = a)
=============================================================================
