------------------------ MODULE DatagramExchangeLwIP ------------------------
(***************************************************************************)
(* lwip/lwip_cpp/DatagramLwIp: a UDP endpoint that asks lwIP for a buffer  *)
(* and then gives its observer a stream to write one datagram with.  Its   *)
(* PolymorphicVariant state is the field state; "none" is an exchange that *)
(* does not exist.  The observer destroys an exchange by releasing it.     *)
(***************************************************************************)
CONSTANT Nowhere        \* no remote socket

Exchange(Remotes) ==
    [state : {"none", "idle", "waitingForBuffer", "bufferAllocated"},
     remote : Remotes \cup {Nowhere}]

NoExchange == [state |-> "none", remote |-> Nowhere]

Listen == [state |-> "idle", remote |-> Nowhere]

\* StateWaitingForBuffer, whose allocateTimer tries again every 50 ms
TryAllocateBuffer(exchange, free) ==
    [exchange EXCEPT !.state = IF free THEN "bufferAllocated" ELSE @]

\* StateBase::RequestSendStream calls std::abort.
RequestAborts(exchange) == exchange.state /= "idle"

\* StateIdle::RequestSendStream
RequestSendStream(exchange, to, free) ==
    TryAllocateBuffer([state |-> "waitingForBuffer", remote |-> to], free)

\* The writer is destructed once the datagram is written, and sends it.
SendStreamAvailable(exchange) == Listen

\* ~DatagramExchangeLwIP removes the control block before the writer of
\* StateBufferAllocated, which is destructed with the state, sends with it.
SendsOnRemovedControl(exchange) == exchange.state = "bufferAllocated"
=============================================================================
