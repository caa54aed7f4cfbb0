--------------------------- MODULE MCConnections ---------------------------
(***************************************************************************)
(* The TCP connections on lwIP and on BSD sockets, side by side for TLC.   *)
(* A behaviour is about one subject, and the other one stays where it      *)
(* begins:                                                                 *)
(*   "lwip", "bsd"  connections that end in every way;                     *)
(*   "lwipLasts"    connections on lwIP that the peer ends, with the       *)
(*                  assertions of a debug build;                           *)
(*   "bsdLasts"     connections on sockets that do not block and that the  *)
(*                  peer ends.                                             *)
(***************************************************************************)
EXTENDS ConnectionLwIp

CONSTANTS
    BsdEndings, Blocking, Roles, Gives, RecvSize, SendSize, MaxBytes      \* of ConnectionBsd

VARIABLES
    subject,
    life, conn, events, socket, blocking, stuck, kernelIn, ended, peerSent, written, sent, read,
    owes, connector, link, told, fault

LastingLwIp == INSTANCE ConnectionLwIp
    WITH QueueLen <- 2, Wnd <- 1, Endings <- {"rst", "fin"}, KeepsFunction <- FALSE, Debug <- TRUE

Bsd == INSTANCE ConnectionBsd WITH Endings <- BsdEndings

LastingBsd == INSTANCE ConnectionBsd
    WITH Roles <- {"server"}, Gives <- {"atOnce"}, Endings <- {"fin"}, Blocking <- {FALSE},
         RecvSize <- 1, SendSize <- 2, MaxBytes <- 3

ASSUME BsdAssumption == Bsd!ConnectionBsdAssumption

bsdVars == <<life, conn, events, socket, blocking, stuck, kernelIn, ended, peerSent, written,
             sent, read, owes, connector, link, told, fault>>

\* The window of a connection that is not there is of no interest.
ConnectionsInit ==
    /\ \/ subject \in {"lwip", "bsd", "bsdLasts"} /\ Init
       \/ subject = "lwipLasts" /\ LastingLwIp!Init
    /\ Bsd!Init

ConnectionsNext ==
    \/ subject = "lwip" /\ Next /\ UNCHANGED <<subject, bsdVars>>
    \/ subject = "lwipLasts" /\ LastingLwIp!Next /\ UNCHANGED <<subject, bsdVars>>
    \/ subject = "bsd" /\ Bsd!Next /\ UNCHANGED <<subject, vars>>
    \/ subject = "bsdLasts" /\ LastingBsd!Next /\ UNCHANGED <<subject, vars>>

\* The fairness that each component states, where connections last
ConnectionsSpec ==
    /\ ConnectionsInit /\ [][ConnectionsNext]_<<subject, vars, bsdVars>>
    /\ WF_vars(subject = "lwipLasts" /\ LastingLwIp!SendStreamAvailable)
    /\ WF_vars(/\ subject = "lwipLasts"
               /\ \E size \in 0 .. MaxSegment, taken \in BOOLEAN : LastingLwIp!CloseWriter(size, taken))
    /\ SF_vars(subject = "lwipLasts" /\ LastingLwIp!RetrySend(TRUE))
    /\ WF_vars(subject = "lwipLasts" /\ \E len \in 1 .. 2 * MaxSegment : LastingLwIp!Sent(len))
    /\ WF_bsdVars(/\ subject = "bsdLasts"
                  /\ \/ LastingBsd!Completes(LastingBsd!ReceiveEvent)
                     \/ LastingBsd!Does(LastingBsd!DataReceived \/ LastingBsd!SendStreamAvailable))
    /\ SF_bsdVars(subject = "bsdLasts" /\ LastingBsd!Completes(LastingBsd!IdleSends))
    /\ WF_bsdVars(subject = "bsdLasts" /\ LastingBsd!Does(LastingBsd!SomeWriterClosed))
    /\ WF_bsdVars(subject = "bsdLasts" /\ LastingBsd!Does(LastingBsd!AckReceived))

-----------------------------------------------------------------------------
\* ConnectionLwIp: the memory that lwIP refers to is neither reused nor given
\* back before the peer has acknowledged it, no buffer overtakes one that
\* lwIP refused, the peer sees as much window as there is room, what comes is
\* announced, and a reset by the peer meets no assertion.
LwIpSafe ==
    /\ TypeOK
    /\ MemoryPaired
    /\ BuffersAreUnacked
    /\ NothingOvertaken
    /\ subject = "lwip" => WindowIsRoom
    /\ subject = "lwipLasts" => LastingLwIp!WindowIsRoom /\ LastingLwIp!AbortDestroys
    /\ DataAnnounced

\* ConnectionBsd: the buffer has room for the stream that was promised,
\* whatever is sent in between, one event opens it, and the client factory
\* is told once how a connector ended.
BsdSafe == IF subject = "bsdLasts" THEN LastingBsd!BsdSafe ELSE Bsd!BsdSafe

\* Every request for a send stream is granted, and on sockets everything that
\* was written is sent and everything that the peer sends is read, unless
\* the connection ends.
DataMoves ==
    /\ subject = "lwipLasts" => LastingLwIp!EveryRequestGranted
    /\ subject = "bsdLasts" => LastingBsd!EverythingSettles
=============================================================================
