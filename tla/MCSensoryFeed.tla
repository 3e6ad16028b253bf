---------------------------- MODULE MCSensoryFeed ----------------------------
(* SensoryFeed with small constants: see the cfg files.                     *)
EXTENDS SensoryFeed

\* Households are interchangeable: it does no harm to name the one that the box
\* is enrolled with at first, if it is with one.  A share that is off has no list
\* at first; with a list it comes by an edit.
FirstBox == CHOOSE b \in Boxes : TRUE
MCInit ==
    /\ Init
    /\ enroll \in {NoBox, FirstBox}
    /\ share.on \/ share.sensors = {}

MCFairSpec == MCInit /\ [][Next]_vars /\ WF_vars(AgentNext)
=============================================================================
