------------------------------ MODULE Protocol ------------------------------
(***************************************************************************)
(* One connection, byte by byte: the client of lib/client/query.cpp and    *)
(* client.cpp, the sockets between, and on the server try_one_request with *)
(* parse_req, response_begin and response_end, and the out_* functions.    *)
(*                                                                         *)
(* A u32 takes Width bytes, a byte has Base values; an i64 or a double is  *)
(* its 2 * Width bytes.  What a command answers is any of Responses (see   *)
(* Keyspace for the commands).  Of the event loop there is what concerns   *)
(* one connection; see EventLoop for many of them and for the timers.      *)
(***************************************************************************)
EXTENDS Replies, Integers, SequencesExt

CONSTANTS Base, Width,
          MaxMsg,       (* K_MAX_MSG                                        *)
          MaxArgs,      (* K_MAX_ARGS                                       *)
          ErrTooBig,    (* ERR_TOO_BIG                                      *)
          TooBigText,   (* "response is too big."                           *)
          Responses,    (* what do_request may append                       *)
          Scripts,      (* the requests a client may send in a run          *)
          Streams,      (* what other peers may send                        *)
          Requests,     (* bound: the requests that FramesExact considers   *)
          RcvCap, SndCap,   (* room in the sockets' buffers                 *)
          NULL

Byte == 0..(Base - 1)
Cmds == Seq(Seq(Byte))

(* How many numbers i bytes can hold.                                        *)
Power[i \in Nat] == IF i = 0 THEN 1 ELSE Base * Power[i - 1]

(* What a command may answer: the tagged values of Replies, in bytes.        *)
Plain == {out_nil} \cup ({"TAG_ERR"} \X ((0..(Power[Width] - 1)) \X Seq(Byte)))
            \cup ({"TAG_STR"} \X Seq(Byte)) \cup ({"TAG_INT", "TAG_DBL"} \X [1..(2 * Width) -> Byte])
Values == Plain \cup ({"TAG_ARR"} \X Seq(Plain))

Conns == [incoming : Seq(Byte), outgoing : Seq(Byte),
          want_read : BOOLEAN, want_write : BOOLEAN, want_close : BOOLEAN]

ASSUME ProtocolAssumption ==
    /\ Base \in Nat /\ Base >= 6 /\ Width \in Nat \ {0}
    /\ MaxMsg \in Nat /\ MaxMsg < Power[Width]
    /\ MaxArgs \in Nat /\ MaxArgs * Width >= MaxMsg
    /\ ErrTooBig \in 0..(Power[Width] - 1) /\ TooBigText \in Seq(Byte)
    /\ 1 + 2 * Width + Len(TooBigText) <= MaxMsg
    /\ Responses \subseteq Values
    /\ Scripts \subseteq Seq(Cmds) \ {<< >>} /\ Streams \subseteq Seq(Byte)
    /\ Requests \subseteq Cmds
    /\ RcvCap \in Nat \ {0} /\ SndCap \in Nat \ {0}
    /\ NULL \notin Nat \cup Seq(Byte) \cup Cmds \cup Conns
    /\ NULL \notin [cur : Nat, out : Cmds] \cup [val : Values, size : Nat]

VARIABLES
    script, stream,     (* what this peer sends: requests, or any bytes     *)
    asked,              (* the requests send_req was called for             *)
    cpc,                (* where the client is                              *)
    wbuf, rbuf,         (* bytes still to write; bytes of a response so far *)
    shown, outcome,     (* what was printed; how the run ended              *)
    c2s, s2c,           (* bytes on their way                               *)
    c_closed, s_closed, (* the ends that were closed                        *)
    broken,             (* the connection was reset                         *)
    conn, spc,          (* the server's Conn, or NULL; where its handler is *)
    served              (* history: requests executed, with their responses *)

client == <<script, stream, asked, cpc, wbuf, rbuf, shown, outcome, c_closed>>
server == <<conn, spc, served, s_closed>>
vars   == <<client, server, c2s, s2c, broken>>

-----------------------------------------------------------------------------
(* Little-endian integers.                                                   *)
U32(n) ==
    LET rest[i \in 0..Width] == IF i = 0 THEN n ELSE rest[i - 1] \div Base
    IN  [i \in 1..Width |-> rest[i - 1] % Base]
Num(b) ==
    LET num[i \in 0..Len(b)] == IF i = 0 THEN 0 ELSE b[Len(b) + 1 - i] + Base * num[i - 1]
    IN  num[Len(b)]

(* read_u32 and read_str, from offset cur.                                   *)
read_u32(data, cur) ==
    IF cur + Width > Len(data) THEN NULL ELSE Num(SubSeq(data, cur + 1, cur + Width))
read_str(data, cur, n) ==
    IF cur + n > Len(data) THEN NULL ELSE SubSeq(data, cur + 1, cur + n)

(* One iteration of parse_req's loop, which reads a string behind the others.*)
ParseOne(data, before) ==
    IF before = NULL THEN NULL
    ELSE LET len == read_u32(data, before.cur) IN
         IF len = NULL \/ read_str(data, before.cur + Width, len) = NULL THEN NULL
         ELSE [cur |-> before.cur + Width + len,
               out |-> Append(before.out, read_str(data, before.cur + Width, len))]

Parsed(data, nstr) ==
    LET parsed[k \in Nat] ==
            IF k = 0 THEN [cur |-> Width, out |-> << >>] ELSE ParseOne(data, parsed[k - 1])
    IN  parsed[nstr]

(* Mutant: bytes behind the last string are ignored.                         *)
Mut_parse_req_Trailing(data) ==
    LET nstr == read_u32(data, 0)
    IN  IF nstr = NULL \/ nstr > MaxArgs \/ Parsed(data, nstr) = NULL THEN NULL
        ELSE Parsed(data, nstr).out

(* The strings of a request, or NULL.                                        *)
parse_req(data) ==
    LET nstr == read_u32(data, 0)
    IN  IF \/ nstr = NULL \/ nstr > MaxArgs
           \/ Parsed(data, nstr) = NULL \/ Parsed(data, nstr).cur # Len(data)
        THEN NULL ELSE Parsed(data, nstr).out

-----------------------------------------------------------------------------
(* The writers of buffer.cpp.                                                *)
Tag(name) == CASE name = "TAG_NIL" -> 0 [] name = "TAG_ERR" -> 1 [] name = "TAG_STR" -> 2
               [] name = "TAG_INT" -> 3 [] name = "TAG_DBL" -> 4 [] name = "TAG_ARR" -> 5

Str(s) == U32(Len(s)) \o s

(* What is appended for one value that is not an array; an error is its code *)
(* and its text.                                                             *)
Scalar(v) ==
    CASE v[1] = "TAG_NIL" -> <<Tag(v[1])>>
      [] v[1] = "TAG_ERR" -> <<Tag(v[1])>> \o U32(v[2][1]) \o Str(v[2][2])
      [] v[1] = "TAG_STR" -> <<Tag(v[1])>> \o Str(v[2])
      [] v[1] \in {"TAG_INT", "TAG_DBL"} -> <<Tag(v[1])>> \o v[2]

Scalars(vs) == FlattenSeq([i \in DOMAIN vs |-> Scalar(vs[i])])

(* memcpy over the u32 at offset ctx.                                        *)
Patch(out, ctx, n) ==
    [i \in DOMAIN out |-> IF i \in (ctx + 1)..(ctx + Width) THEN U32(n)[i - ctx] ELSE out[i]]

(* do_keys knows the length of its array first: out_arr; do_zquery last:     *)
(* out_begin_arr, out_end_arr.                                               *)
ArrKnown(out, vs) == out \o <<Tag("TAG_ARR")>> \o U32(Len(vs)) \o Scalars(vs)
ArrCounted(out, vs) ==
    LET begun == out \o <<Tag("TAG_ARR")>> \o U32(0)
    IN  Patch(begun \o Scalars(vs), Len(begun) - Width, Len(vs))

do_request(out, v) ==
    IF v[1] = "TAG_ARR" THEN {ArrKnown(out, v[2]), ArrCounted(out, v[2])} ELSE {out \o Scalar(v)}

response_begin(out) == out \o U32(0)
response_size(out, header) == Len(out) - header - Width

too_big == out_err(<<ErrTooBig, TooBigText>>)

(* Mutant: cut back to the first header in the buffer.                       *)
Mut_response_end_CutsAll(out, header) ==
    LET fits == response_size(out, header) <= MaxMsg
        kept == IF fits THEN out ELSE SubSeq(out, 1, Width) \o Scalar(too_big)
        at == IF fits THEN header ELSE 0
    IN  Patch(kept, at, response_size(kept, at))

response_end(out, header) ==
    LET kept == IF response_size(out, header) <= MaxMsg THEN out
                ELSE SubSeq(out, 1, header + Width) \o Scalar(too_big)
    IN  Patch(kept, header, response_size(kept, header))

-----------------------------------------------------------------------------
(* print_response on the data of a response: what it shows and how many      *)
(* bytes it took, or NULL.  inner: what its calls on every offset yield.     *)
took(v, n) == [val |-> v, size |-> n]

(* arr_bytes after each iteration of the loop over an array.                 *)
ArrBytes(at, inner, len) ==
    LET bytes[i \in 0..len] ==
            IF i = 0 THEN 1 + Width
            ELSE LET before == bytes[i - 1] IN
                 IF before = NULL \/ inner[at + before] = NULL THEN NULL
                 ELSE before + inner[at + before].size
    IN  bytes

PrintArr(at, inner, len) ==
    LET bytes == ArrBytes(at, inner, len)
    IN  IF bytes[len] = NULL THEN NULL
        ELSE took(out_arr([i \in 1..len |-> inner[at + bytes[i - 1]].val]), bytes[len])

PrintOne(data, at, inner) ==
    LET size == Len(data) - at
        tag == data[at + 1]
        u32(i) == Num(SubSeq(data, at + i + 1, at + i + Width))
        text(i, n) == SubSeq(data, at + i + 1, at + i + n)
    IN  IF size < 1 THEN NULL
        ELSE CASE
             tag = Tag("TAG_NIL") -> took(out_nil, 1)
          [] tag = Tag("TAG_ERR") ->
                IF size < 1 + 2 * Width \/ size < 1 + 2 * Width + u32(1 + Width) THEN NULL
                ELSE took(out_err(<<u32(1), text(1 + 2 * Width, u32(1 + Width))>>),
                          1 + 2 * Width + u32(1 + Width))
          [] tag = Tag("TAG_STR") ->
                IF size < 1 + Width \/ size < 1 + Width + u32(1) THEN NULL
                ELSE took(out_str(text(1 + Width, u32(1))), 1 + Width + u32(1))
          [] tag = Tag("TAG_INT") ->
                IF size < 1 + 2 * Width THEN NULL ELSE took(out_int(text(1, 2 * Width)), 1 + 2 * Width)
          [] tag = Tag("TAG_DBL") ->
                IF size < 1 + 2 * Width THEN NULL ELSE took(out_dbl(text(1, 2 * Width)), 1 + 2 * Width)
          [] tag = Tag("TAG_ARR") ->
                IF size < 1 + Width THEN NULL ELSE PrintArr(at, inner, u32(1))
          [] OTHER -> NULL

(* Every level of nesting takes a byte at least.                             *)
print_response(data) ==
    LET print[depth \in 0..(Len(data) + 1)] ==
            [at \in Nat |-> IF depth = 0 THEN NULL ELSE PrintOne(data, at, print[depth - 1])]
    IN  print[Len(data) + 1][0]
-----------------------------------------------------------------------------
(* The client.                                                               *)
RequestBody(cmd) == U32(Len(cmd)) \o FlattenSeq([i \in DOMAIN cmd |-> Str(cmd[i])])
Frame(cmd)  == U32(Len(RequestBody(cmd))) \o RequestBody(cmd)
Fits(cmd)   == Len(RequestBody(cmd)) <= MaxMsg

Smaller(i, j) == IF i < j THEN i ELSE j
Drop(s, n) == SubSeq(s, n + 1, Len(s))

(* client.cpp, L_DONE: close(fd).                                            *)
End(how) == cpc' = "done" /\ outcome' = how /\ c_closed' = TRUE

(* send_req, up to write_all.  client.cpp calls it once; a peer that         *)
(* pipelines does so several times before the first read_res.                *)
send_req ==
    /\ cpc = "send"
    /\ LET cmd == script[asked + 1] IN
       \/ /\ ~Fits(cmd)
          /\ End("refused")
          /\ UNCHANGED <<asked, wbuf>>
       \/ /\ Fits(cmd)
          /\ asked' = asked + 1 /\ wbuf' = Frame(cmd) /\ cpc' = "write"
          /\ UNCHANGED <<outcome, c_closed>>
    /\ UNCHANGED <<script, stream, rbuf, shown, c2s, s2c, broken, server>>

AfterWrite == IF asked < Len(script) THEN "send" ELSE "header"

(* One write() of write_all; it blocks while there is no room.               *)
WriteAll(n) ==
    /\ cpc \in {"write", "stream"} /\ ~broken
    /\ n \in 1..Smaller(Len(wbuf), RcvCap - Len(c2s))
    /\ c2s' = c2s \o SubSeq(wbuf, 1, n)
    /\ wbuf' = Drop(wbuf, n)
    /\ cpc' = IF wbuf' = << >> /\ cpc = "write" THEN AfterWrite ELSE cpc
    /\ UNCHANGED <<script, stream, asked, rbuf, shown, outcome, c_closed, s2c, broken, server>>

WriteFails ==
    /\ cpc = "write" /\ (broken \/ s_closed)
    /\ End("error")
    /\ UNCHANGED <<script, stream, asked, wbuf, rbuf, shown, c2s, s2c, broken, server>>

(* read_res: what read_full is to read, the header or the body.              *)
Awaited == IF cpc = "header" THEN Width ELSE Num(SubSeq(rbuf, 1, Width)) + Width

(* One read() of read_full, and what follows the last one.                   *)
HeaderRead(b) ==
    IF Num(b) > MaxMsg
    THEN End("too_long") /\ UNCHANGED <<rbuf, shown>>
    ELSE rbuf' = b /\ cpc' = "body" /\ UNCHANGED <<shown, outcome, c_closed>>

BodyRead(b) ==
    LET printed == print_response(Drop(b, Width)) IN
    /\ rbuf' = << >>
    /\ shown' = IF printed = NULL THEN shown ELSE Append(shown, printed.val)
    /\ IF printed = NULL \/ printed.size # Len(b) - Width THEN End("bad_response")
       ELSE IF Len(shown') = Len(script) THEN End("answered")
       ELSE cpc' = "header" /\ UNCHANGED <<outcome, c_closed>>

ReadFull(n) ==
    /\ cpc \in {"header", "body"}
    /\ n \in 1..Smaller(Len(s2c), Awaited - Len(rbuf))
    /\ s2c' = Drop(s2c, n)
    /\ LET b == rbuf \o SubSeq(s2c, 1, n) IN
       \/ /\ Len(b) < Awaited
          /\ rbuf' = b
          /\ UNCHANGED <<cpc, shown, outcome, c_closed>>
       \/ Len(b) = Awaited /\ cpc = "header" /\ HeaderRead(b)
       \/ Len(b) = Awaited /\ cpc = "body" /\ BodyRead(b)
    /\ UNCHANGED <<script, stream, asked, wbuf, c2s, broken, server>>

(* read() returns 0 or fails.  errno stays 0 at an end of stream, which      *)
(* read_res tells from an error before the header only.                      *)
ReadFails ==
    /\ cpc \in {"header", "body"} /\ s2c = << >> /\ (s_closed \/ broken)
    /\ End(IF cpc = "header" /\ ~broken THEN "eof" ELSE "error")
    /\ UNCHANGED <<script, stream, asked, wbuf, rbuf, shown, c2s, s2c, broken, server>>

(* Any other peer writes its bytes (WriteAll), reads or closes when it likes.*)
PeerReads(n) ==
    /\ cpc = "stream"
    /\ n \in 1..Len(s2c)
    /\ s2c' = Drop(s2c, n)
    /\ rbuf' = rbuf \o SubSeq(s2c, 1, n)
    /\ UNCHANGED <<script, stream, asked, cpc, wbuf, shown, outcome, c_closed, c2s, broken, server>>

PeerCloses ==
    /\ cpc = "stream"
    /\ End("closed")
    /\ UNCHANGED <<script, stream, asked, wbuf, rbuf, shown, c2s, s2c, broken, server>>

(* A reset: what was not delivered is lost.                                  *)
Fail ==
    /\ ~broken
    /\ broken' = TRUE
    /\ c2s' = << >>
    /\ \E n \in 0..Len(s2c) : s2c' = SubSeq(s2c, 1, n)
    /\ UNCHANGED <<client, server>>

-----------------------------------------------------------------------------
(* The server.  One handler runs at a time (spc); poll() chooses the next.   *)
NewConn == [incoming |-> << >>, outgoing |-> << >>,
            want_read |-> TRUE, want_write |-> FALSE, want_close |-> FALSE]

conn_destroy == conn' = NULL /\ spc' = "closed" /\ s_closed' = TRUE

(* handle_read, up to the loop of try_one_request.                           *)
handle_read ==
    /\ spc = "poll" /\ conn.want_read
    /\ \/ \E n \in 1..Len(c2s) :
             /\ conn' = [conn EXCEPT !.incoming = @ \o SubSeq(c2s, 1, n)]
             /\ c2s' = Drop(c2s, n)
             /\ spc' = "requests"
             /\ UNCHANGED s_closed
       \/ /\ c2s = << >> /\ (c_closed \/ broken)
          /\ conn_destroy
          /\ UNCHANGED c2s
    /\ UNCHANGED <<client, s2c, broken, served>>

(* Mutant: a message that ends with the buffer is taken for incomplete.      *)
Mut_HasMessage_OneMore(b) ==
    Len(b) >= Width /\ Width + Num(SubSeq(b, 1, Width)) < Len(b)

HasMessage(b) ==
    Len(b) >= Width /\ Width + Num(SubSeq(b, 1, Width)) <= Len(b)

TooLong(b) == Len(b) >= Width /\ Num(SubSeq(b, 1, Width)) > MaxMsg
Message(b) == SubSeq(b, Width + 1, Width + Num(SubSeq(b, 1, Width)))

try_one_request ==
    LET b == conn.incoming IN
    /\ spc = "requests"
    /\ \/ /\ TooLong(b) \/ (HasMessage(b) /\ parse_req(Message(b)) = NULL)
          /\ conn' = [conn EXCEPT !.want_close = TRUE]
          /\ spc' = "respond"
          /\ UNCHANGED served
       \/ /\ ~TooLong(b) /\ ~HasMessage(b)
          /\ spc' = "respond"
          /\ UNCHANGED <<conn, served>>
       \/ /\ ~TooLong(b) /\ HasMessage(b) /\ parse_req(Message(b)) # NULL
          /\ \E v \in Responses : \E out \in do_request(response_begin(conn.outgoing), v) :
                /\ conn' = [conn EXCEPT !.outgoing = response_end(out, Len(conn.outgoing)),
                                        !.incoming = Drop(b, Width + Len(Message(b)))]
                /\ served' = Append(served, [cmd |-> parse_req(Message(b)), response |-> v])
          /\ UNCHANGED spc
    /\ UNCHANGED <<client, s_closed, c2s, s2c, broken>>

(* Back in the event loop.                                                   *)
Handled(c) == IF c.want_close THEN conn_destroy ELSE conn' = c /\ spc' = "poll" /\ UNCHANGED s_closed

handle_write(c) ==
    \/ /\ broken
       /\ Handled([c EXCEPT !.want_close = TRUE])
       /\ UNCHANGED s2c
    \/ /\ ~broken /\ Len(s2c) = SndCap      \* EAGAIN
       /\ Handled(c)
       /\ UNCHANGED s2c
    \/ /\ ~broken
       /\ \E n \in 1..Smaller(Len(c.outgoing), SndCap - Len(s2c)) :
             LET rest == Drop(c.outgoing, n) IN
             /\ s2c' = s2c \o SubSeq(c.outgoing, 1, n)
             /\ Handled([c EXCEPT !.outgoing = rest,
                                  !.want_read = IF rest = << >> THEN TRUE ELSE @,
                                  !.want_write = IF rest = << >> THEN FALSE ELSE @])

(* The end of handle_read.                                                   *)
Respond ==
    /\ spc = "respond"
    /\ \/ /\ conn.outgoing # << >>
          /\ handle_write([conn EXCEPT !.want_read = FALSE, !.want_write = TRUE])
       \/ /\ conn.outgoing = << >>
          /\ Handled(conn)
          /\ UNCHANGED s2c
    /\ UNCHANGED <<client, served, c2s, broken>>

(* poll() reports room in the socket.                                        *)
Writable ==
    /\ spc = "poll" /\ conn.want_write
    /\ broken \/ Len(s2c) < SndCap
    /\ handle_write(conn)
    /\ UNCHANGED <<client, served, c2s, broken>>

(* process_timers: the connection has been idle too long.                    *)
IdleTimeout ==
    /\ spc = "poll"
    /\ conn_destroy
    /\ UNCHANGED <<client, served, c2s, s2c, broken>>

-----------------------------------------------------------------------------
Init ==
    /\ \/ /\ script \in Scripts /\ stream = << >>
          /\ cpc = "send" /\ wbuf = << >>
       \/ /\ script = << >> /\ stream \in Streams
          /\ cpc = "stream" /\ wbuf = stream
    /\ asked = 0 /\ rbuf = << >> /\ shown = << >> /\ outcome = "running"
    /\ c2s = << >> /\ s2c = << >> /\ c_closed = FALSE /\ s_closed = FALSE /\ broken = FALSE
    /\ conn = NewConn /\ spc = "poll" /\ served = << >>

Client == send_req \/ (\E n \in 1..RcvCap : WriteAll(n)) \/ WriteFails
            \/ (\E n \in 1..SndCap : ReadFull(n)) \/ ReadFails
Peer   == (\E n \in 1..SndCap : PeerReads(n)) \/ PeerCloses
Server == handle_read \/ try_one_request \/ Respond \/ Writable

Next == Client \/ Peer \/ Server \/ IdleTimeout \/ Fail

Spec == Init /\ [][Next]_vars

(* The client's process and the server's loop run.                           *)
FairSpec == Spec /\ WF_vars(Client) /\ WF_vars(Server)

-----------------------------------------------------------------------------
(* What of a response reaches the client's screen: all of it, or the error   *)
(* that stands for a response that is too big.                               *)
Visible(v) ==
    IF \E data \in do_request(<< >>, v) : Len(data) <= MaxMsg THEN v ELSE too_big

S == INSTANCE Session

(* The client is shown the responses to its own requests, whole, in order,   *)
(* however the bytes are cut, whatever is too big; or it learns that the     *)
(* connection is gone.  It never meets a response that it cannot read.       *)
ImplementsSession == S!SessionSpec

Frames(cmds) == FlattenSeq([i \in DOMAIN cmds |-> Frame(cmds[i])])
RequestFrames == {Frame(cmd) : cmd \in {c \in Requests : Fits(c)}}
Executed == [i \in DOMAIN served |-> served[i].cmd]

ReplyFrame(v) ==
    LET data == CHOOSE data \in do_request(<< >>, Visible(v)) : TRUE
    IN  U32(Len(data)) \o data
ReplyFrames == FlattenSeq([i \in DOMAIN served |-> ReplyFrame(served[i].response)])

(* try_one_request and parse_req against what send_req writes: the server    *)
(* has executed exactly the requests that the bytes it took begin with, each *)
(* followed by its response on the way back; it sleeps on none that is       *)
(* complete, and rejects only what no further bytes could make a request.    *)
FramesExact ==
    conn # NULL /\ ~broken =>
        /\ stream \o Frames(SubSeq(script, 1, asked))
              = Frames(Executed) \o conn.incoming \o c2s \o wbuf
        /\ cpc = "stream" => ReplyFrames = rbuf \o s2c \o conn.outgoing
        /\ spc = "poll" => \A f \in RequestFrames : ~IsPrefix(f, conn.incoming)
        /\ conn.want_close => \A f \in RequestFrames :
              ~IsPrefix(f, conn.incoming) /\ ~IsPrefix(conn.incoming, f)

(* client.cpp sends one request: whatever its size and the sockets', client  *)
(* and server never wait for each other, and the client's run ends.          *)
ClientEnds == (Len(script) = 1) ~> (cpc = "done")
=============================================================================
