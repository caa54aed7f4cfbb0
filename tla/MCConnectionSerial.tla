------------------------- MODULE MCConnectionSerial -------------------------
(***************************************************************************)
(* Instances of ConnectionSerial for TLC.  A behaviour is about one of     *)
(* three exercises, which differ in what the clients send, in the size of  *)
(* the receive buffers and in what may go wrong: "content", with the       *)
(* constants of the configuration, "restart" and "connect".                *)
(***************************************************************************)
EXTENDS ConnectionSerial

CONSTANTS PeerA, PeerB

VARIABLE exercise

TwoPeers == {PeerA, PeerB}
Sends(a, b) == [p \in TwoPeers |-> IF p = PeerA THEN a ELSE b]

\* Both send, and the first chunk of PeerA does not fit the window.
BothSend == Sends(<< <<1, 2, 3, 4, 5>>, <<6>> >>, << <<7>> >>)

\* There is a byte to escape, and a peer starts again while both send.
OneEscapes == Sends(<< <<1, 249>> >>, << <<5>> >>)
Restarting ==
    INSTANCE ConnectionSerial WITH BufferSize <- 12, Chunks <- OneEscapes, MaxRestarts <- 1

\* A peer starts again and requests are lost.
NobodySends == Sends(<< >>, << >>)
Connecting ==
    INSTANCE ConnectionSerial WITH
        Chunks <- NobodySends, Lost <- {"request", "responseRequest"},
        MaxFaults <- 2, MaxRestarts <- 1

SerialInit ==
    \/ exercise = "content" /\ Init
    \/ exercise = "restart" /\ Restarting!Init
    \/ exercise = "connect" /\ Connecting!Init

SerialNext ==
    \/ exercise = "content" /\ Next /\ UNCHANGED exercise
    \/ exercise = "restart" /\ Restarting!Next /\ UNCHANGED exercise
    \/ exercise = "connect" /\ Connecting!Next /\ UNCHANGED exercise

\* The fairness of ConnectionSerial, in the exercises that ask for progress
Fairly(p) ==
    /\ SF_vars(exercise = "content" /\ Alive /\ Start(p))
    /\ WF_vars(exercise = "content" /\ Alive /\ (Transmit(p) \/ Dispatch(p)))
    /\ WF_vars(exercise = "content" /\ Alive /\ RequestAgain(p))
    /\ SF_vars(exercise = "content" /\ Alive /\ RequestSendStream(p))
    /\ SF_vars(exercise = "connect" /\ Connecting!Alive /\ Connecting!Start(p))
    /\ WF_vars(exercise = "connect" /\ Connecting!Alive
                /\ (Connecting!Transmit(p) \/ Connecting!Dispatch(p)))
    /\ WF_vars(exercise = "connect" /\ Connecting!Alive /\ Connecting!RequestAgain(p))

SerialSpec ==
    /\ SerialInit /\ [][SerialNext]_<<exercise, vars>>
    /\ \A p \in TwoPeers : Fairly(p)

-----------------------------------------------------------------------------
\* Flow control: the receive queue does not overflow, no room is given away
\* twice (unless a peer starts again), and a state is not replaced while its
\* SendData is in progress.
FlowControlled ==
    /\ TypeOK
    /\ NoOverflow
    /\ NoOrphan
    /\ exercise = "content" => WindowCovered
    /\ exercise = "restart" /\ restarts = 0 => Restarting!WindowCovered

\* The client reads what was written: all that the header announced is sent,
\* whatever of it has to be escaped, split or held back, and arrives in order;
\* a connection that is made again may lose bytes, but repeats none.
ReadAsWritten ==
    /\ exercise = "content" => SendsContent /\ InOrder
    /\ exercise = "restart" =>
        /\ Restarting!NothingTwice
        /\ restarts = 0 => Restarting!SendsContent /\ Restarting!InOrder

\* Everything written arrives: nobody waits for room, for a stream or for an
\* update that the other does not send.  And two peers that are on make a
\* connection, whichever was started last, also when requests are lost.
PeersConnectAndContentArrives ==
    /\ exercise = "content" => Arrives
    /\ exercise = "connect" => Connecting!Connects
=============================================================================
