------------------------ MODULE MCCoordinatorHistory ------------------------
(***************************************************************************)
(* CoordinatorHistory on small sets.  u1 and u2 are two numbers of the VPN *)
(* named nA, u3 is the VPN named nB.                                       *)
(***************************************************************************)
EXTENDS CoordinatorHistory

CONSTANTS u1, u2, u3, nA, nB

\* Nothing, each number of nA alone, the first under a blank name, and nA with nB
\* before and after.
RenumberingAnswers ==
  {NoConnections,
   [NoConnections EXCEPT ![u1] = nA],
   [NoConnections EXCEPT ![u2] = nA],
   [NoConnections EXCEPT ![u1] = BlankName],
   [NoConnections EXCEPT ![u1] = nA, ![u3] = nB],
   [NoConnections EXCEPT ![u2] = nA, ![u3] = nB]}
=============================================================================
