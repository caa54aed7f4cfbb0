----------------------- MODULE ConnectionFactoryLwIp -----------------------
(***************************************************************************)
(* ConnectionFactoryLwIp and its ConnectorLwIp objects, as operators on a  *)
(* record with the fields waitingConnectors and connectors, which hold the *)
(* ClientConnectionObserverFactory objects that want a connection, and     *)
(* fault.  A connector whose control is null has ended its attempt.        *)
(***************************************************************************)
EXTENDS Naturals, Sequences, SequencesExt

CONSTANT NumConnectors      \* the room in connectors

TryConnect(f) ==
    IF Len(f.connectors) < NumConnectors /\ f.waitingConnectors /= << >>
    THEN [f EXCEPT !.connectors = Append(@, Head(f.waitingConnectors)),
                   !.waitingConnectors = Tail(@)]
    ELSE f

Connect(f, client) ==
    TryConnect([f EXCEPT !.waitingConnectors = Append(@, client)])

Without(list, client) == RemoveAt(list, CHOOSE i \in DOMAIN list : list[i] = client)

\* Removing a connector whose attempt goes on aborts the attempt.
CancelConnect(f, client) ==
    CASE Contains(f.waitingConnectors, client) ->
            [f EXCEPT !.waitingConnectors = Without(@, client)]
      [] Contains(f.connectors, client) ->
            TryConnect([f EXCEPT !.connectors = Without(@, client)])
      [] OTHER -> [f EXCEPT !.fault = @ \cup {"not found"}]

\* ~ConnectorLwIp writes to control->errf before it looks whether control is
\* null, as it is once the attempt has ended.
Destructed(f) == [f EXCEPT !.fault = @ \cup {"null control"}]

\* Remove, at the end of Connected and Error
RemoveConnector(f, client) ==
    TryConnect(Destructed([f EXCEPT !.connectors = Without(@, client)]))
=============================================================================
