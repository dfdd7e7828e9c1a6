----------------------------- MODULE MCDelivery -----------------------------
(* Small instances of Delivery for TLC. *)
EXTENDS Delivery

CONSTANTS alice, bob, e1, e2, e3

MCDeviceId == {1, 2}
MCDevices == alice :> {1} @@ bob :> {1, 2}

\* alice sends over one connection; bob's first device connects twice.
MCOwner ==
  [e \in Endpoint |-> [id |-> IF e = e1 THEN alice ELSE bob, deviceId |-> 1]]

\* A request to both devices of bob, or to one that alice does not have.
MCMessageLists == {<<1, 2>>}

\* Single messages, for instances with two connections.
MCSingles == {<<1>>}

\* bob's connections are interchangeable.
MCSymmetry == Permutations({e2, e3})
=============================================================================
