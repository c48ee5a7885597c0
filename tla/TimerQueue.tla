---------------------------- MODULE TimerQueue ----------------------------
(***************************************************************************)
(* What the rest of the server relies on when it uses the TTL heap: every  *)
(* entry has at most one deadline, setting or clearing one leaves every    *)
(* other deadline alone, and the timer loop always takes an entry whose    *)
(* deadline is the earliest of all.  No array, no positions.               *)
(***************************************************************************)
EXTENDS Integers

CONSTANTS Entries,  (* the key-value entries that can carry a TTL       *)
          Times,    (* the instants (ms of the monotonic clock) in use  *)
          NULL      (* no entry                                         *)

NoTTL == -1

VARIABLES deadline,  (* entry -> its expiry instant, or NoTTL            *)
          fired      (* history: the entry the timer loop took last      *)

tqVars == <<deadline, fired>>

TQInit ==
    /\ deadline = [e \in Entries |-> NoTTL]
    /\ fired = NULL

Arm(e, v) == deadline' = [deadline EXCEPT ![e] = v]

Disarm(e) ==
    /\ deadline[e] # NoTTL
    /\ deadline' = [deadline EXCEPT ![e] = NoTTL]

(* The timer loop takes an entry that is due and than which none is earlier. *)
Fire(e, now) ==
    /\ deadline[e] < now
    /\ \A f \in Entries : deadline[f] # NoTTL => deadline[e] <= deadline[f]
    /\ Disarm(e)

TQNext ==
    \E e \in Entries :
        \/ \E v \in Times : Arm(e, v) /\ UNCHANGED fired
        \/ Disarm(e) /\ UNCHANGED fired
        \/ \E now \in Times : Fire(e, now) /\ fired' = e

TQSpec == TQInit /\ [][TQNext]_tqVars
=============================================================================
