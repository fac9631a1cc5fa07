-------------------------- MODULE MCSessionClient --------------------------
(***************************************************************************)
(* Small instances of RefreshTokens and of SessionClient, which extends    *)
(* it.  A behaviour is one of the token table with requests from anywhere, *)
(* or one of a browser and the table: part says which.                     *)
(***************************************************************************)
EXTENDS SessionClient, TLC

VARIABLE part

MCInit == ClientInit /\ part \in {"server", "client"}

MCNext ==
    \/ part = "server" /\ Next /\ UNCHANGED <<part, client>>
    \/ part = "client" /\ ClientNext /\ UNCHANGED part

MCSpec == MCInit /\ [][MCNext]_<<part, allVars>>

Prefix(S) == \A i \in S : 1 .. i \subseteq S

\* Requests and tokens, which are numbers, are alike: they are used in their order.
InOrder == Prefix(issued') /\ Prefix({r \in Requests : pc'[r] # "idle"})

\* A browser makes do with three requests.  Both properties of the client hold
\* of every state in which an answer was given up or a token presented twice,
\* and of every state after it.
Relevant ==
    part = "client" => /\ ~lost /\ ~PresentedTwice
                       /\ Cardinality({r \in Requests : pc[r] # "idle"}) <= 3

Symmetry == Permutations(Tabs) \cup Permutations(Acts)
=============================================================================
