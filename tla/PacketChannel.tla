--------------------------- MODULE PacketChannel ---------------------------
(***************************************************************************)
(* Framing as a system of its own: two ends of a connection, whose threads *)
(* send packets without waiting for one another, while one of them reads.  *)
(* Each send is one Channel.send under the send lock, and each recv one    *)
(* Channel.recv under the receive lock; any number of packets may be on    *)
(* their way.  Either end may be closed at any time, also in the middle of *)
(* a frame, and the network may fail.                                      *)
(***************************************************************************)
EXTENDS Framing

CONSTANTS Packets,      \* side -> the packets it may send
          Amounts       \* what one call of the operating system may move

ASSUME PacketsAssumption ==
    /\ \A s \in Sides : Packets[s] \subseteq Seq(Nat)
    /\ Amounts \subseteq Nat \ {0}

Closes(s) == up[s] /\ CloseStream(s)

NetworkBreaks ==
    /\ ~broken /\ broken' = TRUE
    /\ UNCHANGED <<out, pipe, rd, up, coming>>

ChannelNext ==
    \/ \E s \in Sides :
         \/ \E p \in Packets[s] : Send(s, p) \/ Answer(s, p)
         \/ SockSend(s, Amounts) \/ SockRecv(s, Amounts) \/ Take(s) \/ Closes(s)
    \/ NetworkBreaks

ChannelSpec == FramingInit /\ [][ChannelNext]_framingVars

(* The types: no write is of no bytes, and no pipe holds more than it can.  *)
ChannelTypeOK ==
    /\ up \in [Sides -> BOOLEAN] /\ broken \in BOOLEAN
    /\ out \in [Sides -> Seq(Seq(Nat) \ {<<>>})]
    /\ pipe \in [Sides -> Seq(Nat)]
    /\ rd \in [Sides -> [header : Seq(Nat), buf : Seq(Nat), need : Nat]]
    /\ coming \in [Sides -> Seq(Seq(Nat))]
    /\ \A s \in Sides : Len(out[s]) <= 3 /\ Len(pipe[s]) <= Room

\* The channel keeps its promise: the types, packets taken whole and in order,
\* and nothing left over in between (Channel.send, Channel.recv).
PacketsWhole == ChannelTypeOK /\ FramesWhole /\ NothingLeftOver
=============================================================================
