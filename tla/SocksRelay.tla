------------------------------ MODULE SocksRelay ------------------------------
(***************************************************************************)
(* tuya/transparent-socks.py: one relayed connection, two threads that     *)
(* each pipe one direction, and a handler that waits for both.             *)
(*                                                                         *)
(* A chunk is what one recv returns.  A socket delivers what was sent      *)
(* before its end; a broken connection delivers nothing more.              *)
(***************************************************************************)
EXTENDS Integers, Sequences, FiniteSets

CONSTANTS
    MaxChunks       \* bound: chunks sent by each side

VARIABLES
    dest,       \* the connection through the SOCKS proxy
    sent,       \* by each side: chunks, and whether it has closed
    buffer,     \* received from each side and not yet read
    held,       \* read and not yet sent on
    got,        \* chunks that each side has got, and whether it saw an end
    broken,     \* sides whose connection is reset
    pipe,       \* the thread that reads from each side
    late,       \* the sides whose thread a time-out has ended
    handler

vars == <<dest, sent, buffer, held, got, broken, pipe, late, handler>>

Client == "client"
Dest == "dest"
Sides == {Client, Dest}
Other(s) == IF s = Client THEN Dest ELSE Client
Nothing == 0

Init ==
    /\ dest = "none"
    /\ sent = [s \in Sides |-> [n |-> 0, closed |-> FALSE]]
    /\ buffer = [s \in Sides |-> <<>>]
    /\ held = [s \in Sides |-> Nothing]
    /\ got = [s \in Sides |-> [chunks |-> <<>>, end |-> FALSE]]
    /\ broken = {}
    /\ pipe = [s \in Sides |-> "new"]
    /\ late = {}
    /\ handler = "connect"

-----------------------------------------------------------------------------
(* handle                                                                  *)

\* original_dest and socks_connect, which may raise: then both are closed.
Connects ==
    /\ handler = "connect"
    /\ \/ /\ dest' = "open"
          /\ pipe' = [s \in Sides |-> "recv"]
          /\ handler' = "join"
          /\ UNCHANGED got
       \/ /\ dest' = "refused"
          /\ handler' = "closed"
          /\ got' = [got EXCEPT ![Client].end = TRUE]
          /\ UNCHANGED pipe
    /\ UNCHANGED <<sent, buffer, held, broken, late>>

\* Mutant: the first pipe that ends closes both connections.
JoinedOne == \E s \in Sides : pipe[s] = "done"

\* t1.join(), t2.join()
Joined == \A s \in Sides : pipe[s] = "done"

Closes ==
    /\ handler = "join"
    /\ Joined
    /\ handler' = "closed"
    /\ got' = [s \in Sides |-> [got[s] EXCEPT !.end = TRUE]]
    /\ UNCHANGED <<dest, sent, buffer, held, broken, pipe, late>>

-----------------------------------------------------------------------------
(* pipe, reading from side s.                                              *)

\* recv returns a chunk, nothing at the end, or raises: the thread then shuts
\* the other side down for writing.
Receives(s) ==
    /\ pipe[s] = "recv"
    /\ \/ /\ s \notin broken
          /\ buffer[s] # <<>>
          /\ held' = [held EXCEPT ![s] = Head(buffer[s])]
          /\ buffer' = [buffer EXCEPT ![s] = Tail(@)]
          /\ pipe' = [pipe EXCEPT ![s] = "send"]
       \/ /\ s \in broken \/ (buffer[s] = <<>> /\ sent[s].closed) \/ handler = "closed"
          /\ pipe' = [pipe EXCEPT ![s] = "shutdown"]
          /\ UNCHANGED <<held, buffer>>
    /\ UNCHANGED <<dest, sent, got, broken, late, handler>>

\* sendall, which fails when the other side is gone.
Sends(s) ==
    LET o == Other(s)
    IN  /\ pipe[s] = "send"
        /\ IF o \in broken \/ handler = "closed"
           THEN pipe' = [pipe EXCEPT ![s] = "shutdown"] /\ UNCHANGED got
           ELSE /\ got' = [got EXCEPT ![o].chunks = Append(@, held[s])]
                /\ pipe' = [pipe EXCEPT ![s] = "recv"]
        /\ held' = [held EXCEPT ![s] = Nothing]
        /\ UNCHANGED <<dest, sent, buffer, broken, late, handler>>

\* socks_connect leaves the 8 s of create_connection on its socket: a recv from
\* a destination that is silent raises, and so does a sendall to one that does not
\* read, in the middle of a chunk; a part of a chunk counts as none of it.
TimesOut(s) ==
    /\ \/ s = Dest /\ pipe[s] = "recv" /\ buffer[s] = <<>>
       \/ Other(s) = Dest /\ pipe[s] = "send"
    /\ pipe' = [pipe EXCEPT ![s] = "shutdown"]
    /\ held' = [held EXCEPT ![s] = Nothing]
    /\ late' = late \cup {s}
    /\ UNCHANGED <<dest, sent, buffer, got, broken, handler>>

\* Mutant: the other side is not told.
ShutsDownSilently(s) ==
    /\ pipe[s] = "shutdown"
    /\ pipe' = [pipe EXCEPT ![s] = "done"]
    /\ UNCHANGED <<dest, sent, buffer, held, got, broken, late, handler>>

ShutsDown(s) ==
    /\ pipe[s] = "shutdown"
    /\ got' = [got EXCEPT ![Other(s)].end = TRUE]
    /\ pipe' = [pipe EXCEPT ![s] = "done"]
    /\ UNCHANGED <<dest, sent, buffer, held, broken, late, handler>>

-----------------------------------------------------------------------------
(* The two sides.                                                          *)

Open(s) == s \notin broken /\ ~sent[s].closed /\ (s = Client \/ dest = "open")

SideSends(s) ==
    /\ Open(s)
    /\ sent[s].n < MaxChunks
    /\ sent' = [sent EXCEPT ![s].n = @ + 1]
    /\ buffer' = [buffer EXCEPT ![s] = Append(@, sent[s].n + 1)]
    /\ UNCHANGED <<dest, held, got, broken, pipe, late, handler>>

SideCloses(s) ==
    /\ Open(s)
    /\ sent' = [sent EXCEPT ![s].closed = TRUE]
    /\ UNCHANGED <<dest, buffer, held, got, broken, pipe, late, handler>>

\* A reset: what was not read is lost.
SideBreaks(s) ==
    /\ s \notin broken
    /\ s = Client \/ dest = "open"
    /\ broken' = broken \cup {s}
    /\ buffer' = [buffer EXCEPT ![s] = <<>>]
    /\ UNCHANGED <<dest, sent, held, got, pipe, late, handler>>

-----------------------------------------------------------------------------
Threads ==
    \/ Connects \/ Closes
    \/ \E s \in Sides : Receives(s) \/ Sends(s) \/ TimesOut(s) \/ ShutsDown(s)

Next == Threads \/ \E s \in Sides : SideSends(s) \/ SideCloses(s) \/ SideBreaks(s)

Spec == Init /\ [][Next]_vars

-----------------------------------------------------------------------------
(* Properties.                                                             *)

Streams == INSTANCE ByteStreams WITH
    A <- Client, B <- Dest, written <- sent, received <- got,
    lost <- IF broken # {} \/ dest = "refused" THEN Sides ELSE late

\* Whatever the interleaving of the two threads, each side gets what the other
\* one sent, in order; and as long as neither is cut off it sees an end only
\* after the other one's, when it has got everything (ByteStreams), but where
\* the 8 s ran out: that ends the one direction, in which either side may have more
\* to say, and leaves the other one as it is.
Delivers == Streams!Spec

\* One side that closes, or is cut off, is enough for the handler to come to
\* its end, if the other one answers an end with its own.
HandlerEnds ==
    []((\E s \in Sides : sent[s].closed \/ s \in broken) => <>(handler = "closed"))
=============================================================================
