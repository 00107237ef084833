-------------------------- MODULE SessionContract --------------------------
(***************************************************************************)
(* What the driver promises of its one streaming session, to the           *)
(* applications that share it and to the device that carries it, without a *)
(* mutex or a substream state in sight.  StreamSession implements it.      *)
(*                                                                         *)
(* A direction is somebody's, and becomes a client of the session.  The    *)
(* clock and the URBs belong to the clients: they change only while        *)
(* nothing streams, and only at the wish of one to whom every client       *)
(* belongs.  The device is started with URBs of whole packets, for a       *)
(* client, and not sooner than a gap after the last stop; audio moves only *)
(* in a live session, and a session that has ended is drained before       *)
(* anything of it changes.  Of the URBs all that UrbContract says holds.   *)
(***************************************************************************)
EXTENDS Integers, UrbContract

CONSTANTS
    Sides,      \* the directions
    Owners,     \* who may own one, nobody included
    Clocks,     \* the sample rates
    Packet(_)   \* the frames of one packet of the device at a rate

VARIABLES
    owner,    \* who owns each direction
    clients,  \* the directions set up
    clock,    \* the sample rate
    urb,      \* the frames of one URB
    rested    \* has the gap since the last stop passed

shape == <<owner, clients, clock, urb>>
vars == <<shape, rested, urbVars>>

Whole == urb % Packet(clock) = 0
BelongsTo(o) == \A d \in clients : owner[d] = o

Init ==
    /\ owner \in [Sides -> Owners] /\ clients = {}
    /\ clock \in Clocks /\ urb \in Nat /\ Whole
    /\ rested = TRUE
    /\ UrbInit

\* A direction changes hands, which no client does.
Take(d, o) ==
    /\ d \notin clients
    /\ owner' = [owner EXCEPT ![d] = o]
    /\ UNCHANGED <<clients, clock, urb, rested, urbVars>>

\* A client joins the session as it is ...
Join(d) ==
    /\ Whole
    /\ clients' = clients \cup {d}
    /\ UNCHANGED <<owner, clock, urb, rested, urbVars>>

\* ... or with URBs of its choice.
JoinResized(d) ==
    /\ Drained /\ BelongsTo(owner[d])
    /\ clients' = clients \cup {d}
    /\ urb' \in Nat /\ Whole'
    /\ UNCHANGED <<owner, clock, rested, urbVars>>

Quit(d) ==
    /\ d \in clients
    /\ clients' = clients \ {d}
    /\ UNCHANGED <<owner, clock, urb, rested, urbVars>>

\* The URBs of the new rate are still to be chosen.
Retune(d) ==
    /\ Drained /\ BelongsTo(owner[d])
    /\ clock' \in Clocks
    /\ UNCHANGED <<owner, clients, urb, rested, urbVars>>

Begin ==
    /\ rested /\ clients # {} /\ Whole
    /\ GoLive
    /\ UNCHANGED <<shape, rested>>

\* The gap is that since the end of a session, and since the drain after it.
Stop == (End \/ Drain) /\ rested' = FALSE /\ UNCHANGED shape

Rest == rested' = TRUE /\ UNCHANGED <<shape, urbVars>>

\* Nothing but the URBs and their work.
Carry ==
    /\ Send \/ Fail \/ WorkBegins \/ WorkIdles \/ WorkEnds \/ Cancel \/ Leave
    /\ UNCHANGED <<shape, rested>>

Next ==
    \/ \E d \in Sides : \/ \E o \in Owners : Take(d, o)
                        \/ Join(d) \/ JoinResized(d) \/ Quit(d) \/ Retune(d)
    \/ Begin \/ Stop \/ Rest \/ Carry

Spec == Init /\ [][Next]_vars
=============================================================================
