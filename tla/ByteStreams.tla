------------------------------ MODULE ByteStreams ------------------------------
(***************************************************************************)
(* What a relay owes the two sides of a connection: two streams, each in   *)
(* order and without gaps, that end where their writer ended them, unless  *)
(* the stream is lost.  It is abstract: SocksRelay implements it.          *)
(***************************************************************************)
EXTENDS Integers, Sequences

CONSTANTS A, B      \* the two sides

VARIABLES
    written,    \* by each side: how many chunks, and whether it has closed
    received,   \* by each side: the chunks, and whether it has seen an end
    lost        \* the sides whose stream is

vars == <<written, received, lost>>

Sides == {A, B}
Other(s) == IF s = A THEN B ELSE A

Init ==
    /\ written = [s \in Sides |-> [n |-> 0, closed |-> FALSE]]
    /\ received = [s \in Sides |-> [chunks |-> <<>>, end |-> FALSE]]
    /\ lost = {}

Writes(s) ==
    /\ ~written[s].closed
    /\ written' = [written EXCEPT ![s].n = @ + 1]
    /\ UNCHANGED <<received, lost>>

Closes(s) ==
    /\ ~written[s].closed
    /\ written' = [written EXCEPT ![s].closed = TRUE]
    /\ UNCHANGED <<received, lost>>

Receives(s) ==
    LET next == Len(received[s].chunks) + 1
    IN  /\ ~received[s].end
        /\ next <= written[Other(s)].n
        /\ received' = [received EXCEPT ![s].chunks = Append(@, next)]
        /\ UNCHANGED <<written, lost>>

Loses ==
    /\ lost' \in SUBSET Sides
    /\ lost \subseteq lost'
    /\ UNCHANGED <<written, received>>

\* An end that is not the writer's comes with a loss, or after it.
Ends(s) ==
    LET o == Other(s)
    IN  /\ received' = [received EXCEPT ![s].end = TRUE]
        /\ \/ lost' \in SUBSET Sides /\ lost \cup {o} \subseteq lost'
           \/ /\ written[o] = [n |-> Len(received[s].chunks), closed |-> TRUE]
              /\ UNCHANGED lost
        /\ UNCHANGED written

Next == Loses \/ \E s \in Sides : Writes(s) \/ Closes(s) \/ Receives(s) \/ Ends(s)

Spec == Init /\ [][Next]_vars
=============================================================================
