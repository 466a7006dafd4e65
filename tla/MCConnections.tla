--------------------------- MODULE MCConnections ---------------------------
(* Small instances of Connections for TLC.                                 *)
EXTENDS Connections, TLC

CONSTANTS k1, k2, k3, p1, p2, e1, e2

Conn(e, j) == [endpoint |-> e, jump |-> j]
Row(s)     == [ssh |-> s]
NoConns    == [k \in Conns |-> None]
NoInline   == [p \in Profiles |-> None]

\* Three servers and a profile behind one of them; a route with a jump host;
\* a database of the previous version without and with a jump host.
MCStarts ==
    {[conns    |-> k1 :> Conn(e1, None) @@ k2 :> Conn(e2, None) @@ k3 :> None,
      profiles |-> p1 :> Row(k1) @@ p2 :> None,
      legacy   |-> NoInline],
     [conns    |-> k1 :> Conn(e2, k2) @@ k2 :> Conn(e1, None) @@ k3 :> Conn(e2, None),
      profiles |-> p1 :> None @@ p2 :> Row(k1),
      legacy   |-> NoInline],
     [conns    |-> NoConns,
      profiles |-> p1 :> Row(None) @@ p2 :> Row(None),
      legacy   |-> p1 :> Conn(e1, None) @@ p2 :> Conn(e1, None)],
     [conns    |-> NoConns,
      profiles |-> p1 :> Row(None) @@ p2 :> None,
      legacy   |-> p1 :> Conn(e2, e1) @@ p2 :> None]}

\* A tunnelled profile with its connection and jump host; one whose
\* connection the bundle does not carry; one of the previous version.
MCBundles ==
    {[ssh |-> k1 :> Conn(e1, k2) @@ k2 :> Conn(e2, None), profiles |-> p1 :> k1,
      inline |-> <<>>],
     [ssh |-> k2 :> Conn(e2, k3), profiles |-> p1 :> k1, inline |-> <<>>],
     [ssh |-> <<>>, profiles |-> <<>>, inline |-> p2 :> Conn(e1, e2)]}

\* Requests are interchangeable.
ClientSymmetry == Permutations(Clients)

=============================================================================
