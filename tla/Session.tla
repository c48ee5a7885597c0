------------------------------ MODULE Session ------------------------------
(***************************************************************************)
(* What a client may count on when it sends some requests over one         *)
(* connection: they are executed in order, each at most once, and it is    *)
(* shown exactly their responses, in the same order.  The connection may   *)
(* break at any time; then the client learns so, and has been shown whole  *)
(* responses only.  No bytes, no buffers, no messages.                     *)
(***************************************************************************)
EXTENDS Naturals, Sequences

CONSTANTS Responses,
          Fits(_),      (* a request is not too long                       *)
          Visible(_)    (* what the client is shown of a response          *)

VARIABLES script,   (* the requests, in order                              *)
          served,   (* those executed, each with its response              *)
          shown,    (* what the client has been shown                      *)
          outcome   (* how it ended for the client                         *)

sessionVars == <<script, served, shown, outcome>>

SessionInit == served = << >> /\ shown = << >> /\ outcome = "running"

Execute ==
    /\ Len(served) < Len(script)
    /\ Fits(script[Len(served) + 1])
    /\ \E r \in Responses :
          served' = Append(served, [cmd |-> script[Len(served) + 1], response |-> r])
    /\ UNCHANGED <<script, shown, outcome>>

(* The next response; with the last one the client is done.                 *)
Show ==
    /\ outcome = "running"
    /\ Len(shown) < Len(served)
    /\ shown' = Append(shown, Visible(served[Len(shown) + 1].response))
    /\ outcome' = IF Len(shown') = Len(script) THEN "answered" ELSE "running"
    /\ UNCHANGED <<script, served>>

Break ==
    /\ outcome = "running"
    /\ \/ outcome' \in {"eof", "error"}
       \/ outcome' = "refused" /\ \E i \in DOMAIN script : ~Fits(script[i])
    /\ UNCHANGED <<script, served, shown>>

SessionSpec == SessionInit /\ [][Execute \/ Show \/ Break]_sessionVars
=============================================================================
