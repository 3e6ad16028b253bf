-------------------------- MODULE BoxServicesProofs --------------------------
(***************************************************************************)
(* The small services: the relay implements ByteStreams, for any number of *)
(* chunks; what overlapping requests to apply keys leave behind, for any   *)
(* number of them; the egress filter; and the files of a start, for any    *)
(* sets of files, however often the containers are stopped.                *)
(***************************************************************************)
EXTENDS BoxServices, TLAPS

-----------------------------------------------------------------------------
(* The relay.                                                              *)

Got(s) == got[Other(s)].chunks

TypeInv ==
    /\ dest \in {"none", "open", "refused"}
    /\ sent \in [Sides -> [n : Nat, closed : BOOLEAN]]
    /\ buffer \in [Sides -> Seq(Nat)]
    /\ held \in [Sides -> Nat]
    /\ got \in [Sides -> [chunks : Seq(Nat), end : BOOLEAN]]
    /\ broken \subseteq Sides
    /\ pipe \in [Sides -> {"new", "recv", "send", "shutdown", "done"}]
    /\ late \subseteq Sides
    /\ handler \in {"connect", "join", "closed"}

\* The handler and its threads: nothing is piped before there is a destination,
\* nor after one was refused; it closes when both threads are over.
Phases ==
    /\ handler = "connect" => \A s \in Sides : pipe[s] = "new"
    /\ handler = "join" => dest = "open"
    /\ handler = "closed" => dest = "refused" \/ \A s \in Sides : pipe[s] = "done"
    /\ dest = "refused" => handler = "closed" /\ \A s \in Sides : pipe[s] = "new"

\* What a thread holds, then what is in its buffer, follows what it has passed
\* on; and as long as its side is not cut off that is all which was sent.
InOrder(s) ==
    LET k == Len(Got(s)) + (IF pipe[s] = "send" THEN 1 ELSE 0)
    IN  /\ pipe[s] = "send" => held[s] = k /\ k <= sent[s].n
        /\ pipe[s] \in {"new", "recv", "send"} =>
               /\ \A i \in 1..Len(buffer[s]) : buffer[s][i] = k + i
               /\ k + Len(buffer[s]) <= sent[s].n
               /\ s \notin broken => k + Len(buffer[s]) = sent[s].n

\* The end that a thread passes on is its side's, or somebody was cut off, or the
\* thread's time was out.
TrueEnd(s) ==
    /\ pipe[s] \in {"recv", "send"} \/ handler = "connect" => ~got[Other(s)].end
    /\ pipe[s] = "shutdown" =>
           \/ broken # {} \/ s \in late
           \/ sent[s] = [n |-> Len(Got(s)), closed |-> TRUE]
    /\ pipe[s] = "done" => got[Other(s)].end

IInv == TypeInv /\ Phases /\ \A s \in Sides : InOrder(s) /\ TrueEnd(s)

LEMMA TheOther ==
    ASSUME NEW s \in Sides
    PROVE  Other(s) \in Sides /\ Other(s) # s /\ Other(Other(s)) = s
BY DEF Sides, Other, Client, Dest

LEMMA Initial == Init => IInv
<1> SUFFICES ASSUME Init PROVE IInv
  OBVIOUS
<1>1. TypeInv
  BY DEF Init, TypeInv, Nothing
<1>2. Phases
  BY DEF Init, Phases
<1>3. ASSUME NEW s \in Sides PROVE InOrder(s) /\ TrueEnd(s)
  BY <1>3, TheOther DEF Init, InOrder, TrueEnd, Got
<1> QED BY <1>1, <1>2, <1>3 DEF IInv

\* A step that leaves direction s alone leaves its invariant alone.
LEMMA Untouched ==
    ASSUME NEW s \in Sides, InOrder(s), TrueEnd(s), broken \subseteq broken',
           late \subseteq late',
           handler' = "connect" => handler = "connect",
           sent'[s] = sent[s], buffer'[s] = buffer[s], held'[s] = held[s],
           got'[Other(s)] = got[Other(s)], pipe'[s] = pipe[s]
    PROVE  InOrder(s)' /\ TrueEnd(s)'
BY DEF InOrder, TrueEnd, Got

\* An end takes nothing away.
LEMMA OnlyEnds ==
    ASSUME TypeInv, NEW r \in Sides, NEW s \in Sides
    PROVE  [got EXCEPT ![r].end = TRUE][Other(s)].chunks = got[Other(s)].chunks
<1>1. Other(s) \in Sides
  BY TheOther
<1>2. got[Other(s)] \in [chunks : Seq(Nat), end : BOOLEAN]
  BY <1>1 DEF TypeInv
<1> QED BY <1>1, <1>2 DEF TypeInv

LEMMA ConnectsKeeps == IInv /\ Connects => IInv'
<1> SUFFICES ASSUME IInv, Connects PROVE IInv'
  OBVIOUS
<1>1. TypeInv'
  <2>1. UNCHANGED <<sent, buffer, held, broken, late>>
    BY DEF Connects
  <2>2. /\ dest' \in {"open", "refused"} /\ handler' \in {"join", "closed"}
        /\ pipe' = [s \in Sides |-> "recv"] \/ pipe' = pipe
        /\ got' = got \/ got' = [got EXCEPT ![Client].end = TRUE]
    BY DEF Connects
  <2>3. pipe' \in [Sides -> {"new", "recv", "send", "shutdown", "done"}]
    BY <2>2 DEF IInv, TypeInv
  <2>4. got' \in [Sides -> [chunks : Seq(Nat), end : BOOLEAN]]
    <3>1. got \in [Sides -> [chunks : Seq(Nat), end : BOOLEAN]] /\ Client \in Sides
      BY DEF IInv, TypeInv, Sides
    <3>2. got[Client] \in [chunks : Seq(Nat), end : BOOLEAN]
      BY <3>1
    <3>3. [got[Client] EXCEPT !.end = TRUE] \in [chunks : Seq(Nat), end : BOOLEAN]
      BY <3>2
    <3>4. [got EXCEPT ![Client] = [got[Client] EXCEPT !.end = TRUE]]
            \in [Sides -> [chunks : Seq(Nat), end : BOOLEAN]]
      BY <3>1, <3>3
    <3> QED BY <2>2, <3>1, <3>4
  <2> QED BY <2>1, <2>2, <2>3, <2>4 DEF IInv, TypeInv
<1>2. Phases'
  BY DEF IInv, TypeInv, Phases, Connects
<1>3. ASSUME NEW s \in Sides PROVE InOrder(s)' /\ TrueEnd(s)'
  <2>1. pipe[s] = "new" /\ pipe'[s] \in {"new", "recv"} /\ (pipe'[s] = "recv" => UNCHANGED got)
    BY DEF IInv, Phases, Connects
  <2>2. got'[Other(s)].chunks = got[Other(s)].chunks
    BY OnlyEnds DEF Connects, IInv, Sides
  <2>3. ~got[Other(s)].end
    BY DEF IInv, TrueEnd, Connects
  <2> QED BY <2>1, <2>2, <2>3 DEF IInv, InOrder, TrueEnd, Got, Connects
<1> QED BY <1>1, <1>2, <1>3 DEF IInv

LEMMA ClosesKeeps == IInv /\ Closes => IInv' /\ UNCHANGED got
<1> SUFFICES ASSUME IInv, Closes PROVE IInv' /\ UNCHANGED got
  OBVIOUS
<1>1. got' = got
  <2>1. \A s \in Sides : got[s] \in [chunks : Seq(Nat), end : BOOLEAN] /\ got[s].end
    <3>1. \A s \in Sides : got[Other(s)].end
      BY DEF IInv, TrueEnd, Closes, Joined
    <3> QED BY <3>1, TheOther DEF IInv, TypeInv
  <2>2. \A s \in Sides : [got[s] EXCEPT !.end = TRUE] = got[s]
    BY <2>1
  <2> QED BY <2>2 DEF Closes, IInv, TypeInv
<1>2. TypeInv' /\ Phases'
  BY <1>1 DEF IInv, TypeInv, Phases, Closes, Joined
<1>3. ASSUME NEW s \in Sides PROVE InOrder(s)' /\ TrueEnd(s)'
  BY <1>1, <1>3, Untouched DEF IInv, Closes
<1> QED BY <1>1, <1>2, <1>3 DEF IInv

\* What the invariant says of one direction.
LEMMA Direction ==
    ASSUME IInv, NEW s \in Sides
    PROVE  /\ InOrder(s) /\ TrueEnd(s)
           /\ Other(s) \in Sides
           /\ sent[s] \in [n : Nat, closed : BOOLEAN] /\ sent[s].n \in Nat
           /\ buffer[s] \in Seq(Nat) /\ Len(buffer[s]) \in Nat
           /\ held[s] \in Nat
           /\ got[Other(s)] \in [chunks : Seq(Nat), end : BOOLEAN]
           /\ Got(s) \in Seq(Nat) /\ Len(Got(s)) \in Nat
           /\ pipe[s] \in {"new", "recv", "send", "shutdown", "done"}
<1>1. Other(s) \in Sides
  BY TheOther
<1>2. sent[s] \in [n : Nat, closed : BOOLEAN] /\ buffer[s] \in Seq(Nat) /\ held[s] \in Nat
      /\ pipe[s] \in {"new", "recv", "send", "shutdown", "done"}
  BY DEF IInv, TypeInv
<1>3. got[Other(s)] \in [chunks : Seq(Nat), end : BOOLEAN]
  BY <1>1 DEF IInv, TypeInv
<1>4. Got(s) \in Seq(Nat)
  BY <1>3 DEF Got
<1>5. InOrder(s) /\ TrueEnd(s)
  BY DEF IInv
<1> QED BY <1>1, <1>2, <1>3, <1>4, <1>5

LEMMA ReceivesKeeps == ASSUME IInv, NEW s \in Sides, Receives(s) PROVE IInv'
<1>1. Phases'
  BY DEF IInv, Phases, Receives, TypeInv
<1>2. handler = "join" /\ pipe[s] = "recv"
  BY DEF IInv, Phases, Receives, TypeInv
<1>3. /\ got' = got /\ sent' = sent /\ broken' = broken /\ late' = late /\ handler' = handler
      /\ Got(s)' = Got(s)
  BY DEF Receives, Got
<1>4. /\ \A i \in 1..Len(buffer[s]) : buffer[s][i] = Len(Got(s)) + i
      /\ Len(Got(s)) + Len(buffer[s]) <= sent[s].n
      /\ s \notin broken => Len(Got(s)) + Len(buffer[s]) = sent[s].n
  <2>1. InOrder(s) /\ Len(Got(s)) \in Nat /\ Len(buffer[s]) \in Nat /\ sent[s].n \in Nat
    BY Direction
  <2> QED BY <1>2, <2>1 DEF InOrder
<1>5. CASE /\ s \notin broken /\ buffer[s] # <<>>
           /\ held' = [held EXCEPT ![s] = Head(buffer[s])]
           /\ buffer' = [buffer EXCEPT ![s] = Tail(@)]
           /\ pipe' = [pipe EXCEPT ![s] = "send"]
  <2>1. buffer[s] \in Seq(Nat)
    BY Direction
  <2>2. Len(buffer[s]) \in Nat \ {0} /\ Head(buffer[s]) = buffer[s][1] /\ Head(buffer[s]) \in Nat
        /\ Tail(buffer[s]) \in Seq(Nat)
        /\ Len(Tail(buffer[s])) \in Nat /\ Len(Tail(buffer[s])) + 1 = Len(buffer[s])
        /\ \A i \in 1..Len(Tail(buffer[s])) : Tail(buffer[s])[i] = buffer[s][i + 1]
    BY <1>5, <2>1
  <2>3. held'[s] = buffer[s][1] /\ buffer'[s] = Tail(buffer[s]) /\ pipe'[s] = "send"
    BY <1>5, <2>2 DEF IInv, TypeInv
  <2>4. TypeInv'
    BY <1>3, <1>5, <2>2 DEF IInv, TypeInv, Receives
  <2>5. InOrder(s)'
    <3>1. PICK g \in Nat : g = Len(Got(s))
      BY Direction
    <3>2. PICK n \in Nat : n = sent[s].n
      BY Direction
    <3>3. PICK l \in Nat : l + 1 = Len(buffer[s]) /\ l = Len(buffer'[s])
      <4>1. Len(Tail(buffer[s])) = Len(buffer'[s])
        BY <2>3
      <4> QED BY <2>2, <4>1, Zenon
    <3>4. g + (l + 1) = n
      BY <1>4, <1>5, <3>1, <3>2, <3>3
    <3>5. held'[s] = g + 1
      BY <1>4, <2>2, <2>3, <3>1
    <3>6. ASSUME NEW i \in 1..l PROVE buffer'[s][i] = g + 1 + i
      <4>1. i + 1 \in 1..(l + 1) /\ g + (i + 1) = g + 1 + i
        OBVIOUS
      <4> QED BY <1>4, <2>2, <2>3, <3>1, <3>3, <4>1
    <3>7. g + 1 <= n /\ g + 1 + l <= n /\ g + 1 + l = n
      BY <3>4
    <3>8. Len(Got(s)') = g /\ sent'[s].n = n /\ pipe'[s] = "send" /\ broken' = broken
      BY <1>3, <2>3, <3>1, <3>2
    <3> QED BY <3>3, <3>5, <3>6, <3>7, <3>8 DEF InOrder
  <2>6. TrueEnd(s)'
    <3>1. TrueEnd(s)
      BY Direction
    <3> QED BY <1>2, <1>3, <2>3, <3>1 DEF TrueEnd
  <2>7. ASSUME NEW r \in Sides \ {s} PROVE InOrder(r)' /\ TrueEnd(r)'
    <3>1. buffer'[r] = buffer[r] /\ held'[r] = held[r] /\ pipe'[r] = pipe[r]
      BY <1>5 DEF IInv, TypeInv
    <3>2. InOrder(r) /\ TrueEnd(r)
      BY Direction
    <3> QED BY <1>3, <3>1, <3>2, Untouched
  <2> QED BY <1>1, <2>4, <2>5, <2>6, <2>7 DEF IInv
<1>6. CASE /\ s \in broken \/ (buffer[s] = <<>> /\ sent[s].closed)
           /\ pipe' = [pipe EXCEPT ![s] = "shutdown"]
           /\ UNCHANGED <<held, buffer>>
  <2>1. pipe'[s] = "shutdown"
    BY <1>6 DEF IInv, TypeInv
  <2>2. TypeInv'
    BY <1>3, <1>6 DEF IInv, TypeInv, Receives
  <2>3. InOrder(s)'
    BY <2>1 DEF InOrder
  <2>4. TrueEnd(s)'
    <3>1. ASSUME broken = {} PROVE sent[s] = [n |-> Len(Got(s)), closed |-> TRUE]
      <4>1. sent[s] \in [n : Nat, closed : BOOLEAN] /\ Len(Got(s)) \in Nat
        BY Direction
      <4>2. buffer[s] = <<>> /\ sent[s].closed
        BY <1>6, <3>1
      <4>3. sent[s].n = Len(Got(s))
        BY <1>4, <3>1, <4>1, <4>2
      <4> QED BY <4>1, <4>2, <4>3
    <3> QED BY <1>2, <1>3, <2>1, <3>1 DEF TrueEnd
  <2>5. ASSUME NEW r \in Sides \ {s} PROVE InOrder(r)' /\ TrueEnd(r)'
    <3>1. buffer'[r] = buffer[r] /\ held'[r] = held[r] /\ pipe'[r] = pipe[r]
      BY <1>6 DEF IInv, TypeInv
    <3>2. InOrder(r) /\ TrueEnd(r)
      BY Direction
    <3> QED BY <1>3, <3>1, <3>2, Untouched
  <2> QED BY <1>1, <2>2, <2>3, <2>4, <2>5 DEF IInv
<1> QED BY <1>2, <1>5, <1>6 DEF Receives

LEMMA SendsKeeps == ASSUME IInv, NEW s \in Sides, Sends(s) PROVE IInv'
<1>1. Phases'
  BY DEF IInv, Phases, Sends, TypeInv
<1>2. handler = "join" /\ pipe[s] = "send"
  BY DEF IInv, Phases, Sends, TypeInv
<1>3. /\ sent' = sent /\ broken' = broken /\ late' = late /\ handler' = handler /\ buffer' = buffer
      /\ held' = [held EXCEPT ![s] = Nothing]
  BY DEF Sends
<1>4. PICK g \in Nat : g = Len(Got(s))
  BY Direction
<1>5. /\ held[s] = g + 1
      /\ \A i \in 1..Len(buffer[s]) : buffer[s][i] = g + 1 + i
      /\ g + 1 + Len(buffer[s]) <= sent[s].n
      /\ s \notin broken => g + 1 + Len(buffer[s]) = sent[s].n
  <2>1. InOrder(s)
    BY Direction
  <2> QED BY <1>2, <1>4, <2>1 DEF InOrder
<1>6. CASE /\ Other(s) \in broken \/ handler = "closed"
           /\ pipe' = [pipe EXCEPT ![s] = "shutdown"] /\ UNCHANGED got
  <2>1. pipe'[s] = "shutdown"
    BY <1>6 DEF IInv, TypeInv
  <2>2. TypeInv'
    BY <1>3, <1>6 DEF IInv, TypeInv, Sends, Nothing
  <2>3. InOrder(s)' /\ TrueEnd(s)'
    BY <1>2, <1>3, <1>6, <2>1 DEF InOrder, TrueEnd
  <2>4. ASSUME NEW r \in Sides \ {s} PROVE InOrder(r)' /\ TrueEnd(r)'
    <3>1. buffer'[r] = buffer[r] /\ held'[r] = held[r] /\ pipe'[r] = pipe[r]
      BY <1>3, <1>6 DEF IInv, TypeInv
    <3>2. InOrder(r) /\ TrueEnd(r)
      BY Direction
    <3> QED BY <1>3, <1>6, <3>1, <3>2, Untouched
  <2> QED BY <1>1, <2>2, <2>3, <2>4 DEF IInv
<1>7. CASE /\ got' = [got EXCEPT ![Other(s)].chunks = Append(@, held[s])]
           /\ pipe' = [pipe EXCEPT ![s] = "recv"]
  <2>1. pipe'[s] = "recv"
    BY <1>7 DEF IInv, TypeInv
  <2>2. /\ got[Other(s)] \in [chunks : Seq(Nat), end : BOOLEAN] /\ Other(s) \in Sides
        /\ held[s] \in Nat
    BY Direction
  <2>3. got'[Other(s)].chunks = Append(Got(s), held[s]) /\ got'[Other(s)].end = got[Other(s)].end
    BY <1>7, <2>2 DEF IInv, TypeInv, Got
  <2>4. TypeInv'
    <3>1. Append(got[Other(s)].chunks, held[s]) \in Seq(Nat)
      BY <2>2
    <3>2. got' \in [Sides -> [chunks : Seq(Nat), end : BOOLEAN]]
      BY <1>7, <2>2, <3>1 DEF IInv, TypeInv
    <3> QED BY <1>3, <1>7, <3>2 DEF IInv, TypeInv, Sends, Nothing
  <2>5. Len(Got(s)') = g + 1
    <3>1. Got(s) \in Seq(Nat)
      BY Direction
    <3> QED BY <1>4, <2>2, <2>3, <3>1 DEF Got
  <2>6. InOrder(s)'
    <3>1. PICK h \in Nat : h = g + 1
      OBVIOUS
    <3>2. Len(Got(s)') + (IF pipe'[s] = "send" THEN 1 ELSE 0) = h
      BY <2>1, <2>5, <3>1
    <3>3. /\ \A i \in 1..Len(buffer'[s]) : buffer'[s][i] = h + i
          /\ h + Len(buffer'[s]) <= sent'[s].n
          /\ s \notin broken' => h + Len(buffer'[s]) = sent'[s].n
      BY <1>3, <1>5, <3>1
    <3> QED BY <2>1, <3>2, <3>3 DEF InOrder
  <2>7. TrueEnd(s)'
    <3>1. TrueEnd(s)
      BY Direction
    <3> QED BY <1>2, <1>3, <2>1, <2>3, <3>1 DEF TrueEnd
  <2>8. ASSUME NEW r \in Sides \ {s} PROVE InOrder(r)' /\ TrueEnd(r)'
    <3>1. held'[r] = held[r] /\ pipe'[r] = pipe[r]
      BY <1>3, <1>7 DEF IInv, TypeInv
    <3>2. got'[Other(r)] = got[Other(r)]
      BY <1>7, <2>2, TheOther DEF IInv, TypeInv, Other, Sides
    <3>3. InOrder(r) /\ TrueEnd(r)
      BY Direction
    <3> QED BY <1>3, <3>1, <3>2, <3>3, Untouched
  <2> QED BY <1>1, <2>4, <2>6, <2>7, <2>8 DEF IInv
<1> QED BY <1>2, <1>6, <1>7 DEF Sends

\* A thread whose time is out sends nothing more.
LEMMA TimesOutKeeps == ASSUME IInv, NEW s \in Sides, TimesOut(s) PROVE IInv'
<1>1. /\ sent' = sent /\ broken' = broken /\ handler' = handler /\ buffer' = buffer
      /\ got' = got /\ dest' = dest
      /\ pipe[s] \in {"recv", "send"} /\ late' = late \cup {s}
  BY DEF TimesOut
<1>2. handler = "join"
  BY <1>1 DEF IInv, Phases, TypeInv
<1>3. /\ pipe'[s] = "shutdown"
      /\ \A r \in Sides \ {s} : pipe'[r] = pipe[r] /\ held'[r] = held[r]
  BY DEF TimesOut, IInv, TypeInv
<1>4. TypeInv'
  BY <1>1 DEF TimesOut, IInv, TypeInv, Nothing
<1>5. Phases'
  BY <1>1, <1>2 DEF IInv, Phases
<1>6. InOrder(s)' /\ TrueEnd(s)'
  BY <1>1, <1>2, <1>3 DEF InOrder, TrueEnd
<1>7. ASSUME NEW r \in Sides \ {s} PROVE InOrder(r)' /\ TrueEnd(r)'
  <2>1. InOrder(r) /\ TrueEnd(r)
    BY Direction
  <2> QED BY <1>1, <1>3, <2>1, Untouched
<1> QED BY <1>4, <1>5, <1>6, <1>7 DEF IInv

LEMMA ShutsDownKeeps == ASSUME IInv, NEW s \in Sides, ShutsDown(s) PROVE IInv'
<1>1. Phases'
  BY DEF IInv, Phases, ShutsDown, TypeInv
<1>2. handler = "join"
  BY DEF IInv, Phases, ShutsDown, TypeInv
<1>3. /\ pipe'[s] = "done" /\ \A r \in Sides \ {s} : pipe'[r] = pipe[r]
      /\ Other(s) \in Sides
      /\ got[Other(s)] \in [chunks : Seq(Nat), end : BOOLEAN]
  BY Direction DEF IInv, TypeInv, ShutsDown
<1>4. got'[Other(s)].end
  BY <1>3 DEF ShutsDown, IInv, TypeInv
<1>5. TypeInv'
  <2>1. got' \in [Sides -> [chunks : Seq(Nat), end : BOOLEAN]]
    BY <1>3 DEF IInv, TypeInv, ShutsDown
  <2> QED BY <2>1 DEF IInv, TypeInv, ShutsDown
<1>6. InOrder(s)' /\ TrueEnd(s)'
  BY <1>2, <1>3, <1>4 DEF InOrder, TrueEnd, ShutsDown
<1>7. ASSUME NEW r \in Sides \ {s} PROVE InOrder(r)' /\ TrueEnd(r)'
  <2>1. got'[Other(r)] = got[Other(r)]
    BY <1>3, TheOther DEF IInv, TypeInv, Other, Sides, ShutsDown
  <2>2. InOrder(r) /\ TrueEnd(r)
    BY Direction
  <2> QED BY <1>3, <2>1, <2>2, Untouched DEF ShutsDown
<1> QED BY <1>1, <1>5, <1>6, <1>7 DEF IInv

LEMMA SideSendsKeeps == ASSUME IInv, NEW s \in Sides, SideSends(s) PROVE IInv'
<1>1. Phases'
  BY DEF IInv, Phases, SideSends
<1>2. PICK n \in Nat : n = sent[s].n
  BY Direction
<1>3. PICK l \in Nat : l = Len(buffer[s])
  BY Direction
<1>4. PICK g \in Nat : g = Len(Got(s))
  BY Direction
<1>5. /\ s \notin broken /\ ~sent[s].closed
      /\ dest' = dest /\ held' = held /\ got' = got /\ broken' = broken /\ pipe' = pipe
      /\ late' = late /\ handler' = handler
      /\ sent[s] \in [n : Nat, closed : BOOLEAN] /\ buffer[s] \in Seq(Nat)
  BY Direction DEF SideSends, Open
<1>6. /\ sent'[s] = [sent[s] EXCEPT !.n = n + 1] /\ sent'[s].n = n + 1 /\ ~sent'[s].closed
      /\ \A r \in Sides \ {s} : sent'[r] = sent[r] /\ buffer'[r] = buffer[r]
      /\ buffer'[s] = Append(buffer[s], n + 1)
  BY <1>2, <1>5 DEF SideSends, IInv, TypeInv
<1>7. TypeInv'
  <2>1. Append(buffer[s], n + 1) \in Seq(Nat) /\ [sent[s] EXCEPT !.n = n + 1] \in [n : Nat, closed : BOOLEAN]
    BY <1>5
  <2>2. sent' \in [Sides -> [n : Nat, closed : BOOLEAN]] /\ buffer' \in [Sides -> Seq(Nat)]
    BY <1>2, <2>1 DEF SideSends, IInv, TypeInv
  <2> QED BY <1>5, <2>2 DEF IInv, TypeInv
<1>8. /\ Len(buffer'[s]) = l + 1 /\ buffer'[s][l + 1] = n + 1
      /\ \A i \in 1..l : buffer'[s][i] = buffer[s][i]
  BY <1>3, <1>5, <1>6
<1>9. InOrder(s)'
  <2> DEFINE k == g + (IF pipe[s] = "send" THEN 1 ELSE 0)
  <2>1. k \in Nat
    OBVIOUS
  <2>2. InOrder(s)
    BY Direction
  <2>3. pipe[s] = "send" => held[s] = k /\ k <= n
    BY <1>2, <1>4, <2>2 DEF InOrder
  <2>4. ASSUME pipe[s] \in {"new", "recv", "send"}
        PROVE  (\A i \in 1..l : buffer[s][i] = k + i) /\ k + l = n
    BY <1>2, <1>3, <1>4, <1>5, <2>2, <2>4 DEF InOrder
  <2>5. Len(Got(s)') + (IF pipe'[s] = "send" THEN 1 ELSE 0) = k
    BY <1>4, <1>5 DEF Got
  <2> HIDE DEF k
  <2>6. k <= n => k <= n + 1
    BY <2>1
  <2>7. ASSUME pipe[s] \in {"new", "recv", "send"}
        PROVE  (\A i \in 1..(l + 1) : buffer'[s][i] = k + i) /\ k + (l + 1) = n + 1
    <3>1. ASSUME NEW i \in 1..(l + 1), i # l + 1 PROVE i \in 1..l
      BY <3>1
    <3>2. n + 1 = k + (l + 1)
      BY <2>1, <2>4, <2>7
    <3> QED BY <1>8, <2>4, <2>7, <3>1, <3>2
  <2>8. n + 1 <= n + 1
    OBVIOUS
  <2> QED BY <1>5, <1>6, <1>8, <2>3, <2>5, <2>6, <2>7, <2>8 DEF InOrder
<1>10. TrueEnd(s)'
  <2>1. TrueEnd(s)
    BY Direction
  <2>2. pipe[s] = "shutdown" => broken # {} \/ s \in late
    BY <1>5, <2>1 DEF TrueEnd
  <2> QED BY <1>5, <2>1, <2>2 DEF TrueEnd
<1>11. ASSUME NEW r \in Sides \ {s} PROVE InOrder(r)' /\ TrueEnd(r)'
  <2>1. InOrder(r) /\ TrueEnd(r)
    BY Direction
  <2> QED BY <1>5, <1>6, <2>1, Untouched
<1> QED BY <1>1, <1>7, <1>9, <1>10, <1>11 DEF IInv

LEMMA SideClosesKeeps == ASSUME IInv, NEW s \in Sides, SideCloses(s) PROVE IInv'
<1>1. /\ dest' = dest /\ held' = held /\ got' = got /\ broken' = broken /\ pipe' = pipe /\ late' = late
      /\ handler' = handler /\ buffer' = buffer
      /\ s \notin broken /\ ~sent[s].closed /\ sent[s] \in [n : Nat, closed : BOOLEAN]
  BY Direction DEF SideCloses, Open
<1>2. Phases'
  BY <1>1 DEF IInv, Phases
<1>3. /\ sent'[s] = [sent[s] EXCEPT !.closed = TRUE] /\ sent'[s].n = sent[s].n
      /\ \A r \in Sides \ {s} : sent'[r] = sent[r]
      /\ sent' \in [Sides -> [n : Nat, closed : BOOLEAN]]
  BY <1>1 DEF SideCloses, IInv, TypeInv
<1>4. TypeInv'
  BY <1>1, <1>3 DEF IInv, TypeInv
<1>5. InOrder(s)'
  <2>1. InOrder(s)
    BY Direction
  <2> QED BY <1>1, <1>3, <2>1 DEF InOrder, Got
<1>6. TrueEnd(s)'
  <2>1. TrueEnd(s)
    BY Direction
  <2>2. pipe[s] = "shutdown" => broken # {} \/ s \in late
    BY <1>1, <2>1 DEF TrueEnd
  <2> QED BY <1>1, <2>1, <2>2 DEF TrueEnd
<1>7. ASSUME NEW r \in Sides \ {s} PROVE InOrder(r)' /\ TrueEnd(r)'
  <2>1. InOrder(r) /\ TrueEnd(r)
    BY Direction
  <2> QED BY <1>1, <1>3, <2>1, Untouched
<1> QED BY <1>2, <1>4, <1>5, <1>6, <1>7 DEF IInv

LEMMA SideBreaksKeeps == ASSUME IInv, NEW s \in Sides, SideBreaks(s) PROVE IInv'
<1>1. /\ dest' = dest /\ held' = held /\ got' = got /\ pipe' = pipe /\ late' = late
      /\ handler' = handler /\ sent' = sent /\ broken' = broken \cup {s}
  BY DEF SideBreaks
<1>2. Phases'
  BY <1>1 DEF IInv, Phases
<1>3. buffer'[s] = <<>> /\ \A r \in Sides \ {s} : buffer'[r] = buffer[r]
  BY DEF SideBreaks, IInv, TypeInv
<1>4. TypeInv'
  BY <1>1 DEF SideBreaks, IInv, TypeInv
<1>5. InOrder(s)'
  <2> DEFINE k == Len(Got(s)) + (IF pipe[s] = "send" THEN 1 ELSE 0)
  <2>1. InOrder(s) /\ Len(Got(s)) \in Nat /\ Len(buffer[s]) \in Nat /\ sent[s].n \in Nat
    BY Direction
  <2>2. k \in Nat
    BY <2>1
  <2>3. /\ pipe[s] = "send" => held[s] = k /\ k <= sent[s].n
        /\ pipe[s] \in {"new", "recv", "send"} => k + Len(buffer[s]) <= sent[s].n
    BY <2>1 DEF InOrder
  <2>4. Len(Got(s)') + (IF pipe'[s] = "send" THEN 1 ELSE 0) = k
    BY <1>1 DEF Got
  <2> HIDE DEF k
  <2>5. pipe[s] \in {"new", "recv", "send"} => k + 0 <= sent[s].n
    BY <2>1, <2>2, <2>3
  <2>6. Len(buffer'[s]) = 0 /\ s \in broken'
    BY <1>1, <1>3
  <2> QED BY <1>1, <2>3, <2>4, <2>5, <2>6 DEF InOrder
<1>6. TrueEnd(s)'
  <2>1. TrueEnd(s)
    BY Direction
  <2> QED BY <1>1, <2>1 DEF TrueEnd
<1>7. ASSUME NEW r \in Sides \ {s} PROVE InOrder(r)' /\ TrueEnd(r)'
  <2>1. InOrder(r) /\ TrueEnd(r)
    BY Direction
  <2>2. broken \subseteq broken'
    BY <1>1
  <2> QED BY <1>1, <1>3, <2>1, <2>2, Untouched
<1> QED BY <1>2, <1>4, <1>5, <1>6, <1>7 DEF IInv

\* IInv is inductive.
THEOREM Inductive == IInv /\ [Next]_vars => IInv'
<1> SUFFICES ASSUME IInv, [Next]_vars PROVE IInv'
  OBVIOUS
<1>1. CASE UNCHANGED vars
  BY <1>1 DEF IInv, TypeInv, Phases, InOrder, TrueEnd, Got, vars
<1>2. CASE Connects
  BY <1>2, ConnectsKeeps
<1>3. CASE Closes
  BY <1>3, ClosesKeeps
<1>4. CASE \E s \in Sides : Receives(s) \/ Sends(s) \/ TimesOut(s) \/ ShutsDown(s)
  BY <1>4, ReceivesKeeps, SendsKeeps, TimesOutKeeps, ShutsDownKeeps
<1>5. CASE \E s \in Sides : SideSends(s) \/ SideCloses(s) \/ SideBreaks(s)
  BY <1>5, SideSendsKeeps, SideClosesKeeps, SideBreaksKeeps
<1> QED BY <1>1, <1>2, <1>3, <1>4, <1>5 DEF Next, Threads

-----------------------------------------------------------------------------
(* Every step is one of the streams, or changes nothing of them.           *)

Lost == IF broken # {} \/ dest = "refused" THEN Sides ELSE late

LEMMA InitStreams == Init => Streams!Init
BY DEF Init, Streams!Init, Sides, Streams!Sides

\* What is read and not yet passed on is nobody's.
LEMMA ConnectsStreams ==
    ASSUME IInv, Connects PROVE Streams!Ends(Client) \/ UNCHANGED <<sent, got, Lost>>
<1>1. dest # "refused"
  BY DEF IInv, Phases, Connects
<1>2. CASE dest' = "open" /\ UNCHANGED got
  BY <1>1, <1>2 DEF Connects, Lost
<1>3. CASE dest' = "refused" /\ got' = [got EXCEPT ![Client].end = TRUE]
  <2>1. Streams!Other(Client) = Dest /\ Lost' = Sides /\ late \subseteq Sides /\ Dest \in Sides
    BY <1>3 DEF Streams!Other, Lost, IInv, TypeInv, Sides
  <2>2. Streams!Sides = Sides
    BY DEF Sides, Streams!Sides
  <2> QED BY <1>3, <2>1, <2>2 DEF Connects, Streams!Ends, Lost
<1> QED BY <1>2, <1>3 DEF Connects

LEMMA SendsStreams ==
    ASSUME IInv, NEW s \in Sides, Sends(s)
    PROVE  Streams!Receives(Other(s)) \/ UNCHANGED <<sent, got, Lost>>
<1>1. CASE UNCHANGED got
  BY <1>1 DEF Sends, Lost
<1>2. CASE got' = [got EXCEPT ![Other(s)].chunks = Append(@, held[s])]
  <2>1. InOrder(s) /\ TrueEnd(s)
    BY Direction
  <2>2. ~got[Other(s)].end
    BY <2>1 DEF TrueEnd, Sends
  <2>3. held[s] = Len(got[Other(s)].chunks) + 1 /\ held[s] <= sent[s].n
    BY <2>1 DEF InOrder, Sends, Got
  <2>4. Streams!Other(Other(s)) = s
    BY DEF Streams!Other, Other, Sides, Client, Dest
  <2> QED BY <1>2, <2>2, <2>3, <2>4 DEF Sends, Streams!Receives
<1> QED BY <1>1, <1>2 DEF Sends

LEMMA ShutsDownStreams == ASSUME IInv, NEW s \in Sides, ShutsDown(s) PROVE Streams!Ends(Other(s))
<1>1. \/ broken # {} \/ s \in late
      \/ sent[s] = [n |-> Len(got[Other(s)].chunks), closed |-> TRUE]
  <2>1. TrueEnd(s)
    BY Direction
  <2> QED BY <2>1 DEF TrueEnd, ShutsDown, Got
<1>2. Streams!Other(Other(s)) = s
  BY DEF Streams!Other, Other, Sides, Client, Dest
<1>3. Lost' = Lost /\ Lost \in SUBSET Streams!Sides /\ (broken # {} \/ s \in late => s \in Lost)
  BY DEF ShutsDown, Lost, IInv, TypeInv, Sides, Streams!Sides
<1> QED BY <1>1, <1>2, <1>3 DEF ShutsDown, Streams!Ends, Lost

LEMMA TimesOutStreams == ASSUME IInv, NEW s \in Sides, TimesOut(s) PROVE Streams!Loses
<1>1. late' = late \cup {s} /\ late \subseteq Sides
      /\ broken' = broken /\ dest' = dest /\ UNCHANGED <<sent, got>>
  BY DEF TimesOut, IInv, TypeInv
<1>2. Streams!Sides = Sides
  BY DEF Sides, Streams!Sides
<1> QED BY <1>1, <1>2 DEF Streams!Loses

LEMMA SidesStreams ==
    ASSUME IInv, NEW s \in Sides, SideSends(s) \/ SideCloses(s) \/ SideBreaks(s)
    PROVE  Streams!Writes(s) \/ Streams!Closes(s) \/ Streams!Loses
<1>1. CASE SideSends(s)
  BY <1>1 DEF SideSends, Open, Streams!Writes
<1>2. CASE SideCloses(s)
  BY <1>2 DEF SideCloses, Open, Streams!Closes
<1>3. CASE SideBreaks(s)
  <2>1. Lost' = Sides /\ Lost \subseteq Sides /\ Streams!Sides = Sides
    BY <1>3 DEF SideBreaks, Lost, IInv, TypeInv, Sides, Streams!Sides
  <2> QED BY <1>3, <2>1 DEF SideBreaks, Streams!Loses, Lost
<1> QED BY <1>1, <1>2, <1>3

LEMMA StepStreams == IInv /\ [Next]_vars => [Streams!Next]_(Streams!vars)
<1> SUFFICES ASSUME IInv, [Next]_vars PROVE Streams!Next \/ UNCHANGED <<sent, got, Lost>>
  BY DEF Streams!vars, Lost
<1>1. Streams!Sides = Sides /\ \A s \in Sides : Other(s) \in Sides
  BY TheOther DEF Sides, Streams!Sides
<1>2. CASE UNCHANGED vars
  BY <1>2 DEF vars, Lost
<1>3. CASE Connects
  BY <1>1, <1>3, ConnectsStreams DEF Streams!Next, Sides
<1>4. CASE Closes
  BY <1>4, ClosesKeeps DEF Closes, Lost
<1>5. ASSUME NEW s \in Sides, Receives(s) PROVE UNCHANGED <<sent, got, Lost>>
  BY <1>5 DEF Receives, Lost
<1>6. ASSUME NEW s \in Sides, Sends(s) PROVE Streams!Next \/ UNCHANGED <<sent, got, Lost>>
  BY <1>1, <1>6, SendsStreams DEF Streams!Next
<1>7. ASSUME NEW s \in Sides, ShutsDown(s) PROVE Streams!Next
  BY <1>1, <1>7, ShutsDownStreams DEF Streams!Next
<1>8. ASSUME NEW s \in Sides, SideSends(s) \/ SideCloses(s) \/ SideBreaks(s) PROVE Streams!Next
  BY <1>1, <1>8, SidesStreams DEF Streams!Next
<1>9. ASSUME NEW s \in Sides, TimesOut(s) PROVE Streams!Next
  BY <1>9, TimesOutStreams DEF Streams!Next
<1> QED BY <1>2, <1>3, <1>4, <1>5, <1>6, <1>7, <1>8, <1>9 DEF Next, Threads

\* A relayed connection is two byte streams: what each side gets is what the
\* other one sent, in order, and it ends where the other one ended it, unless
\* a side is cut off (tuya/transparent-socks.py), for any number of chunks and
\* any interleaving of the two threads.
THEOREM Implements == Spec => Delivers
<1>1. Init => IInv
  BY Initial
<1>2. IInv /\ [Next]_vars => IInv'
  BY Inductive
<1>3. Init => Streams!Init
  BY InitStreams
<1>4. IInv /\ [Next]_vars => [Streams!Next]_(Streams!vars)
  BY StepStreams
<1> QED BY <1>1, <1>2, <1>3, <1>4, PTL DEF Spec, Delivers, Streams!Spec

-----------------------------------------------------------------------------
(* Requests to apply WireGuard keys.                                       *)

\* Somebody has asked for keys, and every docker command since has succeeded.
Asked == wghist.asked # 0 /\ ~wghist.failed

\* A request under way will still start a run, with the keys that are there.
\* (One that is about to create the container does so only if nobody has.)
WillRun ==
    \E r \in Requests :
        \/ apply[r] \in {"inspect", "start", "restart"}
        \/ apply[r] = "create" /\ wg.state = "absent"

\* A request under way will still put the proxy into the network of the run.
WillPublish ==
    \/ WillRun
    \/ \E r \in Requests :
          \/ apply[r] = "rm"
          \/ apply[r] = "proxy" /\ proxy = Wg!Absent

WgTypeInv ==
    /\ apply \in [Requests -> {"new", "inspect", "start", "restart", "create", "rm",
                               "proxy", "done"}]
    /\ conf \in Nat
    /\ wghist \in [saves : Nat, failed : BOOLEAN, asked : Nat]

WgInv ==
    /\ WgTypeInv
    /\ conf <= wghist.saves /\ wghist.asked <= wghist.saves
    /\ Asked /\ wghist.asked = conf => WillRun \/ (wg.state = "running" /\ wg.keys = conf)
    /\ Asked => WillPublish \/ proxy = wg.run

LEMMA WgInitial == Wg!Init => WgInv
BY DEF Wg!Init, WgInv, WgTypeInv, Asked

LEMMA WgSaves ==
    ASSUME WgInv, Wg!SavesKeys \/ Wg!ClearsKeys
    PROVE  WgInv'
<1>1. CASE Wg!SavesKeys
  <2> DEFINE h == [wghist EXCEPT !.saves = @ + 1]
  <2>1. /\ h \in [saves : Nat, failed : BOOLEAN, asked : Nat]
        /\ h.saves = wghist.saves + 1 /\ h.failed = wghist.failed /\ h.asked = wghist.asked
    BY DEF WgInv, WgTypeInv
  <2>2. /\ wghist' = h /\ conf' = wghist.saves + 1
        /\ UNCHANGED <<wg, proxy, apply>>
    BY <1>1 DEF Wg!SavesKeys
  <2> HIDE DEF h
  <2> QED BY <2>1, <2>2 DEF WgInv, WgTypeInv, Asked, WillPublish, WillRun
<1>2. CASE Wg!ClearsKeys
  BY <1>2 DEF Wg!ClearsKeys, WgInv, WgTypeInv, Asked, WillPublish, WillRun
<1> QED BY <1>1, <1>2

LEMMA WgPosts ==
    ASSUME WgInv, NEW r \in Requests, Wg!Posts(r)
    PROVE  WgInv'
<1>1. CASE conf = 0
  BY <1>1 DEF Wg!Posts, Wg!Goes, WgInv, WgTypeInv, Asked, WillPublish, WillRun
<1>2. CASE conf # 0
  <2> DEFINE h == [wghist EXCEPT !.asked = conf]
  <2>1. /\ h \in [saves : Nat, failed : BOOLEAN, asked : Nat]
        /\ h.saves = wghist.saves /\ h.failed = wghist.failed /\ h.asked = conf
    BY DEF WgInv, WgTypeInv
  <2>2. /\ wghist' = h /\ apply' = [apply EXCEPT ![r] = "inspect"]
        /\ UNCHANGED <<conf, wg, proxy>>
    BY <1>2 DEF Wg!Posts, Wg!Goes
  <2> HIDE DEF h
  <2> QED BY <2>1, <2>2 DEF WgInv, WgTypeInv, Asked, WillPublish, WillRun
<1> QED BY <1>1, <1>2

LEMMA WgCommands ==
    ASSUME WgInv, NEW r \in Requests,
           \/ Wg!Inspects(r) \/ Wg!Starts(r) \/ Wg!Restarts(r) \/ Wg!Creates(r)
           \/ Wg!RemovesProxy(r) \/ Wg!RunsProxy(r)
    PROVE  WgInv'
<1> USE DEF Wg!Goes, Wg!StartsRun, WgInv, WgTypeInv, Asked, WillPublish, WillRun
<1>1. CASE Wg!Inspects(r)
  BY <1>1 DEF Wg!Inspects
<1>2. CASE Wg!Starts(r)
  BY <1>2 DEF Wg!Starts
<1>3. CASE Wg!Restarts(r)
  BY <1>3 DEF Wg!Restarts
<1>4. CASE Wg!Creates(r)
  BY <1>4 DEF Wg!Creates
<1>5. CASE Wg!RemovesProxy(r)
  BY <1>5 DEF Wg!RemovesProxy
<1>6. CASE Wg!RunsProxy(r)
  BY <1>6 DEF Wg!RunsProxy
<1> QED BY <1>1, <1>2, <1>3, <1>4, <1>5, <1>6

LEMMA WgFails ==
    ASSUME WgInv, NEW r \in Requests, Wg!Fails(r)
    PROVE  WgInv'
<1> DEFINE h == [wghist EXCEPT !.failed = TRUE]
<1>1. /\ h \in [saves : Nat, failed : BOOLEAN, asked : Nat]
      /\ h.saves = wghist.saves /\ h.failed /\ h.asked = wghist.asked
  BY DEF WgInv, WgTypeInv
<1>2. wghist' = h /\ conf' = conf /\ apply' = [apply EXCEPT ![r] = "done"]
  BY DEF Wg!Fails, Wg!Goes
<1> HIDE DEF h
<1> QED BY <1>1, <1>2 DEF WgInv, WgTypeInv, Asked

LEMMA WgInductive == WgInv /\ [Wg!Next]_wgvars => WgInv'
<1> SUFFICES ASSUME WgInv, [Wg!Next]_wgvars PROVE WgInv'
  OBVIOUS
<1>1. CASE UNCHANGED wgvars
  BY <1>1 DEF wgvars, WgInv, WgTypeInv, Asked, WillPublish, WillRun
<1>2. CASE Wg!SavesKeys \/ Wg!ClearsKeys
  BY <1>2, WgSaves
<1>3. ASSUME NEW r \in Requests, Wg!Posts(r) PROVE WgInv'
  BY <1>3, WgPosts
<1>4. ASSUME NEW r \in Requests,
             \/ Wg!Inspects(r) \/ Wg!Starts(r) \/ Wg!Restarts(r) \/ Wg!Creates(r)
             \/ Wg!RemovesProxy(r) \/ Wg!RunsProxy(r)
      PROVE  WgInv'
  BY <1>4, WgCommands
<1>5. ASSUME NEW r \in Requests, Wg!Fails(r) PROVE WgInv'
  BY <1>5, WgFails
<1> QED BY <1>1, <1>2, <1>3, <1>4, <1>5 DEF Wg!Next

\* What a step of any part leaves to the parts at rest.
LEMMA PartsStep ==
    [ServicesNext]_<<part, wgvars, egressvars, vars, startvars>> =>
        /\ [Wg!Next]_wgvars
        /\ [Filter!Next]_egressvars
        /\ [Start!Next]_startvars
BY DEF ServicesNext

\* Overlapping requests to apply keys (platform/wg_store.py) leave the box on the
\* overlay with the keys last asked for and the proxy in the network of the very
\* run of its container, for any number of requests and of saved keys.
THEOREM Publishes == ServicesSpec => []AppliesPublish
<1>1. ServicesInit => WgInv
  BY WgInitial DEF ServicesInit
<1>2. WgInv /\ [ServicesNext]_<<part, wgvars, egressvars, vars, startvars>> => WgInv'
  BY WgInductive, PartsStep
<1>3. WgInv => AppliesPublish
  BY DEF WgInv, WgTypeInv, Asked, WillPublish, WillRun, AppliesPublish, Wg!AppliesPublish
<1> QED BY <1>1, <1>2, <1>3, PTL DEF ServicesSpec

-----------------------------------------------------------------------------
(* The egress filter.                                                      *)

FilterRules == <<"lo", "established", "private", "reject">>
Chains == Seq({"lo", "established", "private", "reject"})

\* The chain c consists of the first n rules.
Upto(c, n) ==
    /\ c \in Chains
    /\ Len(c) = n
    /\ \A i \in 1..n : c[i] = FilterRules[i]

Whole(f) == jump[f] /\ Upto(chain[f], 4)

FilterTypeInv ==
    /\ pc \in ({"v4", "v6"} \X (1..6)) \cup {<<"end", 0>>}
    /\ DOMAIN chain = {"v4", "v6"}
    /\ jump \in [{"v4", "v6"} -> BOOLEAN]

\* A family's chain is some of the rules, in their order; those up to the line
\* that the script is at, or all, if it is past them; and only a chain that is
\* there is jumped to.
FilterInv(f) ==
    /\ chain[f] = Filter!NoChain \/ \E n \in 0..4 : Upto(chain[f], n)
    /\ jump[f] => chain[f] # Filter!NoChain
    /\ pc[1] = f /\ pc[2] > 1 => Upto(chain[f], pc[2] - 2)
    /\ f = "v4" /\ pc[1] = "v6" => Whole(f)
    /\ pc[1] = "end" /\ (f = "v4" \/ HasIp6) => Whole(f)

EgressInv == FilterTypeInv /\ \A f \in {"v4", "v6"} : FilterInv(f)

LEMMA NoChainIsNone == \A n \in Nat : ~Upto(Filter!NoChain, n)
BY DEF Upto, Filter!NoChain, FilterRules, Chains

\* The next rule makes a longer chain.
LEMMA OneMore ==
    ASSUME NEW c, NEW n \in 0..3, Upto(c, n)
    PROVE  Upto(Append(c, FilterRules[n + 1]), n + 1)
<1>1. FilterRules[n + 1] \in {"lo", "established", "private", "reject"}
  BY DEF FilterRules
<1> DEFINE d == Append(c, FilterRules[n + 1])
<1>2. /\ d \in Chains /\ Len(d) = n + 1
      /\ \A i \in 1..n : d[i] = c[i]
      /\ d[n + 1] = FilterRules[n + 1]
  BY <1>1 DEF Upto, Chains
<1> HIDE DEF d
<1>3. \A i \in 1..n + 1 : d[i] = FilterRules[i]
  BY <1>2 DEF Upto
<1> QED BY <1>2, <1>3 DEF Upto, d

\* One command of the script, in family f.
LEMMA FilterRuns ==
    ASSUME EgressInv, Filter!Runs
    PROVE  EgressInv'
<1>1. PICK f \in {"v4", "v6"}, k \in 1..6 : pc = <<f, k>>
  BY DEF Filter!Runs, Filter!Ended, EgressInv, FilterTypeInv
<1> DEFINE step == Filter!Script[k]
           next == IF k < 6 THEN <<f, k + 1>> ELSE IF f = "v4" THEN Filter!AfterV4 ELSE <<"end", 0>>
<1>2. /\ chain' = CASE step = "flush" -> [chain EXCEPT ![f] = <<>>]
                    [] step = "jump" -> chain
                    [] OTHER -> [chain EXCEPT ![f] = Append(@, step)]
      /\ jump' = [jump EXCEPT ![f] = @ \/ step = "jump"]
      /\ pc' = next
  BY <1>1 DEF Filter!Runs, Filter!Script
<1>3. /\ k = 1 => step = "flush"
      /\ k \in 2..5 => step = FilterRules[k - 1] /\ step \notin {"flush", "jump"}
      /\ k = 6 => step = "jump"
  BY DEF Filter!Script, FilterRules
<1> HIDE DEF step
<1>4. /\ next[1] = "v6" => f = "v6" \/ f = "v4"
      /\ next \in ({"v4", "v6"} \X (1..6)) \cup {<<"end", 0>>}
  BY DEF Filter!AfterV4
<1>5. DOMAIN chain' = {"v4", "v6"}
  BY <1>2 DEF EgressInv, FilterTypeInv
<1>6. jump' \in [{"v4", "v6"} -> BOOLEAN]
  <2>1. (jump[f] \/ step = "jump") \in BOOLEAN
    BY DEF EgressInv, FilterTypeInv
  <2> QED BY <1>2, <2>1 DEF EgressInv, FilterTypeInv
<1>7. ASSUME NEW g \in {"v4", "v6"}, g # f PROVE FilterInv(g)'
  <2>1. chain'[g] = chain[g] /\ jump'[g] = jump[g]
    BY <1>2, <1>7 DEF EgressInv, FilterTypeInv
  <2>2. FilterInv(g)
    BY DEF EgressInv
  <2>3. next[1] = g => g = "v6" /\ f = "v4" /\ k = 6 /\ next[2] = 1
    BY <1>7 DEF Filter!AfterV4
  <2>4. g = "v4" => Whole(g)
    BY <1>1, <1>7, <2>2 DEF FilterInv
  <2>5. next[1] = "end" /\ g = "v6" => ~HasIp6
    BY <1>7 DEF Filter!AfterV4
  <2>6. pc' = next
    BY <1>2
  <2> HIDE DEF next
  <2>7. pc'[1] = g => pc'[2] = 1
    BY <2>3, <2>6
  <2>8. g = "v4" => Whole(g)'
    BY <2>1, <2>4 DEF Whole
  <2>9. pc'[1] = "end" /\ (g = "v4" \/ HasIp6) => Whole(g)'
    BY <2>5, <2>6, <2>8
  <2> QED BY <2>1, <2>2, <2>7, <2>8, <2>9 DEF FilterInv
<1>8. FilterInv(f)'
  <2>1. FilterInv(f)
    BY DEF EgressInv
  <2>2. CASE k = 1
    <3>1. chain'[f] = <<>> /\ next = <<f, 2>>
      BY <1>2, <1>3, <2>2 DEF EgressInv, FilterTypeInv
    <3>2. Upto(<<>>, 0)
      BY DEF Upto, Chains
    <3>3. <<>> # Filter!NoChain
      BY DEF Filter!NoChain
    <3>4. pc' = <<f, 2>>
      BY <1>2, <3>1
    <3>5. pc'[1] = f /\ pc'[2] = 2
      BY <3>4
    <3> QED BY <3>1, <3>2, <3>3, <3>5 DEF FilterInv
  <2>3. CASE k \in 2..5
    <3>1. chain'[f] = Append(chain[f], FilterRules[k - 1]) /\ next = <<f, k + 1>>
      BY <1>2, <1>3, <2>3 DEF EgressInv, FilterTypeInv
    <3>2. Upto(chain[f], k - 2)
      BY <1>1, <2>1, <2>3 DEF FilterInv
    <3>3. k - 2 \in 0..3 /\ (k - 2) + 1 = k - 1
      BY <2>3
    <3>4. Upto(chain'[f], k - 1)
      BY <3>1, <3>2, <3>3, OneMore
    <3>5. chain'[f] # Filter!NoChain
      BY <3>3, <3>4, NoChainIsNone
    <3>6. pc' = <<f, k + 1>>
      BY <1>2, <3>1
    <3>7. pc'[1] = f /\ pc'[2] - 2 = k - 1
      BY <3>6
    <3> QED BY <2>3, <3>4, <3>5, <3>7 DEF FilterInv
  <2>4. CASE k = 6
    <3>1. chain'[f] = chain[f] /\ jump'[f]
      BY <1>2, <1>3, <2>4 DEF EgressInv, FilterTypeInv
    <3>2. Upto(chain[f], 4)
      BY <1>1, <2>1, <2>4 DEF FilterInv
    <3>3. chain[f] # Filter!NoChain
      BY <3>2, NoChainIsNone
    <3>4. next[1] # f
      BY <2>4 DEF Filter!AfterV4
    <3>5. pc'[1] # f
      BY <1>2, <3>4
    <3>6. Whole(f)'
      BY <3>1, <3>2 DEF Whole
    <3> QED BY <3>1, <3>2, <3>3, <3>5, <3>6 DEF FilterInv
  <2> QED BY <2>2, <2>3, <2>4
<1> HIDE DEF next
<1> QED BY <1>2, <1>4, <1>5, <1>6, <1>7, <1>8 DEF EgressInv, FilterTypeInv

LEMMA FilterInitial ==
    ASSUME chain = [f \in Filter!Families |-> Filter!NoChain],
           jump = [f \in Filter!Families |-> FALSE], pc = <<"v4", 1>>
    PROVE  EgressInv
BY DEF EgressInv, FilterTypeInv, FilterInv, Filter!Families

LEMMA EgressInductive == EgressInv /\ [Filter!Next]_egressvars => EgressInv'
<1> SUFFICES ASSUME EgressInv, [Filter!Next]_egressvars PROVE EgressInv'
  OBVIOUS
<1>1. CASE UNCHANGED egressvars
  BY <1>1 DEF egressvars, EgressInv, FilterTypeInv, FilterInv, Whole
<1>2. CASE Filter!Runs
  BY <1>2, FilterRuns
<1>3. CASE Filter!Restarts
  <2>1. pc' = <<"v4", 1>> /\ chain' = chain /\ jump' = jump
    BY <1>3 DEF Filter!Restarts, Filter!Begins
  <2> QED BY <2>1 DEF EgressInv, FilterTypeInv, FilterInv, Whole
<1>4. CASE Filter!NewNetwork
  BY <1>4 DEF Filter!NewNetwork, EgressInv, FilterTypeInv, FilterInv, Whole, Filter!Families
<1> QED BY <1>1, <1>2, <1>3, <1>4 DEF Filter!Next

LEMMA PassesPrivate ==
    ASSUME NEW f \in {"v4", "v6"}, EgressInv,
           NEW to \in {"private", "lo", "established"}
    PROVE  Filter!Passes(f, to)
<1>1. FilterInv(f)
  BY DEF EgressInv
<1>2. CASE chain[f] = Filter!NoChain
  BY <1>1, <1>2 DEF FilterInv, Filter!Passes
<1>3. ASSUME NEW n \in 0..4, Upto(chain[f], n) PROVE Filter!Passes(f, to)
  <2>1. CASE n < 4
    <3>1. \A i \in 1..Len(chain[f]) : chain[f][i] # "reject"
      BY <1>3, <2>1 DEF Upto, FilterRules
    <3> QED BY <3>1 DEF Filter!Passes
  <2>2. CASE n = 4
    <3>1. PICK i \in 1..3 : FilterRules[i] = to
      BY DEF FilterRules
    <3>2. i \in 1..Len(chain[f]) /\ chain[f][i] = to
      BY <1>3, <2>2, <3>1 DEF Upto
    <3>3. \A j \in 1..i - 1 : chain[f][j] # "reject"
      BY <1>3, <2>2, <3>1 DEF Upto, FilterRules
    <3> QED BY <3>2, <3>3 DEF Filter!Passes
  <2> QED BY <2>1, <2>2
<1> QED BY <1>1, <1>2, <1>3 DEF FilterInv

LEMMA RejectsPublic ==
    ASSUME NEW f \in {"v4", "v6"}, Whole(f)
    PROVE  ~Filter!Passes(f, "public")
<1>1. Len(chain[f]) = 4 /\ \A i \in 1..4 : chain[f][i] = FilterRules[i]
  BY DEF Whole, Upto
<1>2. chain[f][4] = "reject" /\ \A i \in 1..4 : chain[f][i] # "public"
  BY <1>1 DEF FilterRules
<1> QED BY <1>1, <1>2 DEF Whole, Filter!Passes

\* Once network/protect-egress.sh has ended Home Assistant reaches no public
\* network, and no run of the script, whole or not, shuts it off from private
\* ones, however often the two containers are stopped.
THEOREM FilterInstalled == ServicesSpec => []Installed
<1>1. ServicesInit => EgressInv
  BY FilterInitial DEF ServicesInit, Filter!Init
<1>2. EgressInv /\ [ServicesNext]_<<part, wgvars, egressvars, vars, startvars>> => EgressInv'
  BY EgressInductive, PartsStep
<1>3. EgressInv => Installed
  <2> SUFFICES ASSUME EgressInv, NEW f \in {"v4", "v6"}
               PROVE  /\ Filter!Ended /\ (f = "v4" \/ HasIp6) => ~Filter!Passes(f, "public")
                      /\ \A to \in {"private", "lo", "established"} : Filter!Passes(f, to)
    BY DEF Installed, Filter!Installed, Filter!Families
  <2>1. FilterInv(f)
    BY DEF EgressInv
  <2> QED BY <2>1, PassesPrivate, RejectsPublic DEF FilterInv, Filter!Ended
<1> QED BY <1>1, <1>2, <1>3, PTL DEF ServicesSpec

-----------------------------------------------------------------------------
(* The start of a container.                                               *)

Files == Seeds \cup Assets \cup Texts \cup Components

\* The scripts have looked at i, which is of stage n.
Past(i, n) == init.n > n \/ (init.n = n /\ i \notin init.todo)

StartTypeInv ==
    /\ init \in [n : 1..5, todo : SUBSET Files]
    /\ init.todo \subseteq Start!Stages[init.n]
    /\ busy = "idle" \/ busy \in init.todo
    /\ DOMAIN config = Seeds \cup Components
    /\ asset \in [Assets \cup Texts -> {"stock", "torn", "branded"}]
    /\ packed \subseteq Assets
    /\ starthist \in [hit : SUBSET Files]

\* A seed that no stop has hit is there once it has been looked at, and partial
\* only while it is written.
SeedInv(i) ==
    /\ config[i] = "absent" => ~Past(i, 1)
    /\ config[i] = "partial" => busy = i

\* An asset, or text, of stage n: the same, and its siblings are gone.
AssetInv(a, n) ==
    /\ asset[a] = "stock" => ~Past(a, n)
    /\ asset[a] = "torn" => busy = a
    /\ asset[a] = "branded" /\ a \in packed => busy = a

StartInv ==
    /\ StartTypeInv
    /\ \A i \in Seeds \ starthist.hit : SeedInv(i)
    /\ \A i \in Components : Past(i, 4) => config[i] = "image"
    /\ \A a \in Assets \ starthist.hit : AssetInv(a, 2)
    /\ \A a \in Texts \ starthist.hit : AssetInv(a, 3)

\* Each file is of one stage.
LEMMA TheStages ==
    /\ Start!Stages[1] = Seeds /\ Start!Stages[2] = Assets /\ Start!Stages[3] = Texts
    /\ Start!Stages[4] = Components /\ Start!Stages[5] = {}
    /\ \A n \in 1..5 : Start!Stages[n] \subseteq Files /\ "idle" \notin Start!Stages[n]
    /\ \A n \in 1..5 : \A i \in Start!Stages[n] :
          /\ i \in Seeds => n = 1
          /\ i \in Assets => n = 2
          /\ i \in Texts => n = 3
          /\ i \in Components => n = 4
BY ServicesAssumption DEF Start!Stages, Files

\* A script that has looked at i, in the stage that i is of.
LEMMA LookedAt ==
    ASSUME StartTypeInv, NEW i \in init.todo, Start!Looked(i)
    PROVE  /\ init' \in [n : 1..5, todo : SUBSET Files]
           /\ init'.n = init.n
           /\ init'.todo = init.todo \ {i}
BY DEF StartTypeInv, Start!Looked

LEMMA StartInitial == Start!Init => StartInv
<1> SUFFICES ASSUME Start!Init PROVE StartInv
  OBVIOUS
<1>1. init.n = 1 /\ init.todo = Seeds /\ init \in [n : 1..5, todo : SUBSET Files]
  BY TheStages DEF Start!Init, Start!Script, Files
<1> QED BY <1>1, TheStages DEF Start!Init, StartInv, StartTypeInv, SeedInv, AssetInv, Past,
                               Start!Idle

LEMMA StartContinues ==
    ASSUME StartInv, Start!Continues
    PROVE  StartInv'
<1>1. init.n \in 1..4 /\ init.todo = {}
  BY DEF Start!Continues, Start!Running, StartInv, StartTypeInv
<1>2. init'.n = init.n + 1 /\ init'.todo = Start!Stages[init.n + 1]
  BY DEF Start!Continues, Start!Script
<1>3. init' \in [n : 1..5, todo : SUBSET Files]
  BY <1>1, TheStages DEF Start!Continues, Start!Script
<1>4. \A i : \A n \in 1..5 : Past(i, n)' => Past(i, n) \/ (n = init.n + 1 /\ i \notin Start!Stages[n])
  BY <1>1, <1>2 DEF Past
<1> QED BY <1>1, <1>2, <1>3, <1>4, TheStages
        DEF Start!Continues, StartInv, StartTypeInv, SeedInv, AssetInv, Past

\* Seeding, installing and branding begin with a file, or pass it over.
LEMMA StartTakes ==
    ASSUME StartInv, NEW i,
           \/ i \in Seeds \cup Components /\ (Start!Seeding(i) \/ Start!Installing(i))
           \/ i \in Assets \cup Texts /\ Start!Branding(i)
    PROVE  StartInv'
<1>1. i \in init.todo /\ init.n \in 1..5 /\ i \in Start!Stages[init.n] /\ busy = "idle"
  BY DEF Start!Seeding, Start!Installing, Start!Branding, Start!Takes, Start!Idle,
         StartInv, StartTypeInv
<1>2. CASE Start!Seeding(i) /\ config[i] = "absent"
  <2>1. i \in Seeds
    BY <1>2 DEF Start!Seeding
  <2>2. /\ config' = [config EXCEPT ![i] = "partial"] /\ busy' = i
        /\ UNCHANGED <<init, asset, packed, starthist>>
    BY <1>2 DEF Start!Seeding
  <2>3. \A j \in Components : config'[j] = config[j]
    BY <2>1, <2>2, ServicesAssumption DEF StartInv, StartTypeInv
  <2> QED BY <1>1, <2>1, <2>2, <2>3, ServicesAssumption
          DEF StartInv, StartTypeInv, SeedInv, AssetInv, Past
<1>3. CASE Start!Installing(i)
  <2>1. i \in Components
    BY <1>3 DEF Start!Installing
  <2>2. /\ \/ config' = [config EXCEPT ![i] = "partial"] /\ busy' = i
           \/ config' = [config EXCEPT ![i] = "absent"] /\ busy' = busy
        /\ UNCHANGED <<init, asset, packed, starthist>>
    BY <1>3 DEF Start!Installing
  <2>3. ~Past(i, 4)
    BY <1>1, <2>1, TheStages DEF Past
  <2>4. /\ DOMAIN config' = Seeds \cup Components
        /\ \A j \in Seeds \cup Components : j # i => config'[j] = config[j]
    <3>1. PICK v : config' = [config EXCEPT ![i] = v]
      BY <2>2
    <3> QED BY <3>1 DEF StartInv, StartTypeInv
  <2>5. i \notin Seeds \cup Assets \cup Texts /\ i # "idle"
    BY <2>1, ServicesAssumption
  <2>6. busy' \in {"idle", i}
    BY <1>1, <2>2
  <2>7. StartTypeInv'
    BY <1>1, <2>2, <2>4, <2>6 DEF StartInv, StartTypeInv
  <2>8. \A j \in Seeds \ starthist'.hit : SeedInv(j)'
    BY <1>1, <2>2, <2>4, <2>5, ServicesAssumption DEF StartInv, SeedInv, Past
  <2>9. /\ \A a \in Assets \ starthist'.hit : AssetInv(a, 2)'
        /\ \A a \in Texts \ starthist'.hit : AssetInv(a, 3)'
    BY <1>1, <2>2, ServicesAssumption DEF StartInv, AssetInv, Past
  <2>10. \A j \in Components : Past(j, 4)' => config'[j] = "image"
    BY <2>2, <2>3, <2>4 DEF StartInv, Past
  <2> QED BY <2>7, <2>8, <2>9, <2>10 DEF StartInv
<1>4. CASE Start!Branding(i) /\ asset[i] = "stock"
  <2>1. /\ asset' = [asset EXCEPT ![i] = "torn"] /\ busy' = i
        /\ UNCHANGED <<init, config, packed, starthist>>
    BY <1>4 DEF Start!Branding
  <2>2. i \in Assets \cup Texts
    BY <1>4 DEF Start!Branding
  <2>3. i \notin Seeds /\ i # "idle"
    BY <2>2, ServicesAssumption
  <2>4. StartTypeInv'
    BY <1>1, <2>1, <2>2 DEF StartInv, StartTypeInv
  <2>5. \A j \in Seeds \ starthist'.hit : SeedInv(j)'
    BY <1>1, <2>1, <2>3, ServicesAssumption DEF StartInv, SeedInv, Past
  <2>6. \A j \in Components : Past(j, 4)' => config'[j] = "image"
    BY <2>1 DEF StartInv, Past
  <2>7. ASSUME NEW a \in Assets \cup Texts, NEW n, AssetInv(a, n) PROVE AssetInv(a, n)'
    <3>1. CASE a = i
      BY <2>1, <2>2, <3>1 DEF StartInv, StartTypeInv, AssetInv
    <3>2. CASE a # i
      <4>1. asset'[a] = asset[a] /\ busy # a
        BY <1>1, <2>1, <3>2, ServicesAssumption DEF StartInv, StartTypeInv
      <4> QED BY <2>1, <2>7, <4>1 DEF AssetInv, Past
    <3> QED BY <3>1, <3>2
  <2>8. /\ \A a \in Assets \ starthist'.hit : AssetInv(a, 2)'
        /\ \A a \in Texts \ starthist'.hit : AssetInv(a, 3)'
    BY <2>1, <2>7 DEF StartInv
  <2> QED BY <2>4, <2>5, <2>6, <2>8 DEF StartInv
<1>5. CASE \/ Start!Seeding(i) /\ config[i] # "absent"
           \/ Start!Branding(i) /\ asset[i] # "stock"
  <2>1. Start!Looked(i) /\ UNCHANGED <<busy, config, asset, packed, starthist>>
    BY <1>5 DEF Start!Seeding, Start!Branding
  <2>2. /\ init' \in [n : 1..5, todo : SUBSET Files]
        /\ init'.n = init.n /\ init'.todo = init.todo \ {i}
    BY <1>1, <2>1, LookedAt DEF StartInv
  <2>3. \A j : \A n \in 1..5 : Past(j, n)' => Past(j, n) \/ j = i
    BY <2>2 DEF Past
  <2>4. i \notin Components /\ (i \in Seeds => config[i] # "absent")
        /\ (i \in Assets \cup Texts => asset[i] # "stock")
    BY <1>5, ServicesAssumption DEF Start!Seeding, Start!Branding
  <2> QED BY <1>1, <2>1, <2>2, <2>3, <2>4 DEF StartInv, StartTypeInv, SeedInv, AssetInv
<1> QED BY <1>2, <1>3, <1>4, <1>5

\* They end with it.
LEMMA StartEnds ==
    ASSUME StartInv, NEW i,
           \/ i \in Seeds \cup Components /\ Start!Copied(i)
           \/ i \in Assets \cup Texts /\ (Start!Unpacks(i) \/ Start!Rewritten(i))
    PROVE  StartInv'
<1>1. busy = i /\ i # "idle"
  BY ServicesAssumption DEF Start!Copied, Start!Unpacks, Start!Rewritten
<1>2. i \in init.todo /\ init.n \in 1..5 /\ i \in Start!Stages[init.n]
  BY <1>1 DEF StartInv, StartTypeInv
<1>3. Start!Looked(i) /\ busy' = "idle" /\ starthist' = starthist
  BY DEF Start!Copied, Start!Unpacks, Start!Rewritten, Start!Idle
<1>4. /\ init' \in [n : 1..5, todo : SUBSET Files]
      /\ init'.n = init.n /\ init'.todo = init.todo \ {i}
  BY <1>2, <1>3, LookedAt DEF StartInv
<1>5. \A j : \A n \in 1..5 : Past(j, n)' => Past(j, n) \/ j = i
  BY <1>4 DEF Past
<1>6. CASE Start!Copied(i)
  <2>1. config' = [config EXCEPT ![i] = "image"] /\ UNCHANGED <<asset, packed>>
        /\ i \in Seeds \cup Components
    BY <1>6 DEF Start!Copied
  <2>2. DOMAIN config' = Seeds \cup Components /\ config'[i] = "image"
        /\ \A j \in Seeds \cup Components : j # i => config'[j] = config[j]
    BY <2>1 DEF StartInv, StartTypeInv
  <2>3. i \notin Assets \cup Texts
    BY <2>1, ServicesAssumption
  <2> QED BY <1>1, <1>3, <1>4, <1>5, <2>1, <2>2, <2>3
          DEF StartInv, StartTypeInv, SeedInv, AssetInv
<1>7. CASE Start!Unpacks(i)
  <2>1. packed' = packed \ {i} /\ UNCHANGED <<asset, config>> /\ i \in Assets
        /\ asset[i] = "branded"
    BY <1>7 DEF Start!Unpacks
  <2>2. i \notin Seeds \cup Components
    BY <2>1, ServicesAssumption
  <2> QED BY <1>1, <1>3, <1>4, <1>5, <2>1, <2>2
          DEF StartInv, StartTypeInv, SeedInv, AssetInv
<1>8. CASE Start!Rewritten(i)
  <2>1. asset' = [asset EXCEPT ![i] = "branded"] /\ UNCHANGED <<packed, config>>
        /\ i \in Texts
    BY <1>8 DEF Start!Rewritten
  <2>2. i \notin Seeds \cup Components \cup Assets
    BY <2>1, ServicesAssumption
  <2> QED BY <1>1, <1>3, <1>4, <1>5, <2>1, <2>2
          DEF StartInv, StartTypeInv, SeedInv, AssetInv
<1> QED BY <1>6, <1>7, <1>8

LEMMA StartBranded ==
    ASSUME StartInv, NEW a \in Assets, Start!Branded(a)
    PROVE  StartInv'
<1>1. asset' = [asset EXCEPT ![a] = "branded"] /\ busy = a
      /\ UNCHANGED <<config, packed, init, busy, starthist>>
  BY DEF Start!Branded
<1> QED BY <1>1 DEF StartInv, StartTypeInv, SeedInv, AssetInv, Past

\* A stop hits what is being written; the assets stay, or are the image's again.
LEMMA StartStops ==
    ASSUME StartInv, Start!Stops
    PROVE  StartInv'
<1>1. /\ init'.n = 1 /\ init'.todo = Seeds /\ init' \in [n : 1..5, todo : SUBSET Files]
      /\ init'.todo = Start!Stages[init'.n]
  BY TheStages DEF Start!Stops, Start!Script, Files
<1>2. /\ busy' = "idle" /\ config' = config
      /\ \/ UNCHANGED <<asset, packed>>
         \/ asset' = [a \in Assets \cup Texts |-> "stock"] /\ packed' = Assets
  BY DEF Start!Stops, Start!Idle
<1>3. starthist' = [starthist EXCEPT !.hit = @ \cup ({busy} \ {"idle"})]
  BY DEF Start!Stops, Start!Idle
<1>4. /\ starthist' \in [hit : SUBSET Files]
      /\ starthist.hit \subseteq starthist'.hit
      /\ busy # "idle" => busy \in starthist'.hit
  BY <1>3 DEF StartInv, StartTypeInv
<1>5. \A i \in Seeds : ~Past(i, 1)'
  BY <1>1 DEF Past
<1>6. \A i : \A n \in 2..5 : ~Past(i, n)'
  BY <1>1 DEF Past
<1>7. \A i \in Seeds \ starthist'.hit : SeedInv(i)'
  BY <1>2, <1>4, <1>5, ServicesAssumption DEF StartInv, SeedInv
<1>8. \A a \in Assets \ starthist'.hit : AssetInv(a, 2)'
  BY <1>2, <1>4, <1>6, ServicesAssumption DEF StartInv, AssetInv
<1>9. \A a \in Texts \ starthist'.hit : AssetInv(a, 3)'
  BY <1>2, <1>4, <1>6, ServicesAssumption DEF StartInv, AssetInv
<1> QED BY <1>1, <1>2, <1>4, <1>6, <1>7, <1>8, <1>9 DEF StartInv, StartTypeInv

LEMMA StartEdits ==
    ASSUME StartInv, NEW i \in Seeds, Start!Edits(i)
    PROVE  StartInv'
<1>1. config' = [config EXCEPT ![i] = "user"] /\ i \notin Components
      /\ UNCHANGED <<asset, packed, init, busy, starthist>>
  BY ServicesAssumption DEF Start!Edits
<1> QED BY <1>1 DEF StartInv, StartTypeInv, SeedInv, AssetInv, Past

LEMMA StartInductive == StartInv /\ [Start!Next]_startvars => StartInv'
<1> SUFFICES ASSUME StartInv, [Start!Next]_startvars PROVE StartInv'
  OBVIOUS
<1>1. CASE UNCHANGED startvars
  BY <1>1 DEF startvars, StartInv, StartTypeInv, SeedInv, AssetInv, Past
<1>2. CASE Start!Continues
  BY <1>2, StartContinues
<1>3. ASSUME NEW i \in Seeds \cup Components,
             Start!Seeding(i) \/ Start!Installing(i) \/ Start!Copied(i)
      PROVE  StartInv'
  BY <1>3, StartTakes, StartEnds
<1>4. ASSUME NEW a \in Assets \cup Texts,
             \/ Start!Branding(a) \/ Start!Branded(a) \/ Start!Unpacks(a)
             \/ Start!Rewritten(a)
      PROVE  StartInv'
  BY <1>4, StartTakes, StartEnds, StartBranded DEF Start!Branded
<1>5. CASE Start!Stops
  BY <1>5, StartStops
<1>6. ASSUME NEW i \in Seeds, Start!Edits(i) PROVE StartInv'
  BY <1>6, StartEdits
<1> QED BY <1>1, <1>2, <1>3, <1>4, <1>5, <1>6 DEF Start!Next, Start!Starts

\* When Home Assistant starts its custom components are whole and the image's,
\* and every seed and asset is whole and branded but those that were being
\* written when the container was stopped (image/rootfs/etc/cont-init.d,
\* brand_frontend_assets.py), for any files and any number of stops.
THEOREM FilesAreWhole == ServicesSpec => []StartsWhole
<1>1. ServicesInit => StartInv
  BY StartInitial DEF ServicesInit
<1>2. StartInv /\ [ServicesNext]_<<part, wgvars, egressvars, vars, startvars>> => StartInv'
  BY StartInductive, PartsStep
<1>3. StartInv => StartsWhole
  <2> SUFFICES ASSUME StartInv, Start!Running PROVE Start!StartsWhole
    BY DEF StartsWhole, Start!StartsWhole
  <2>1. init.n = 5 /\ init.todo = {} /\ busy = "idle"
    BY TheStages DEF Start!Running, StartInv, StartTypeInv
  <2>2. \A i : \A n \in 1..4 : Past(i, n)
    BY <2>1 DEF Past
  <2>3. \A i \in Components : config[i] = "image"
    BY <2>2 DEF StartInv
  <2>4. \A i \in Seeds : config[i] \in {"absent", "partial"} => i \in starthist.hit
    BY <2>1, <2>2, ServicesAssumption DEF StartInv, SeedInv
  <2>5. \A a \in Assets \cup Texts : Start!Served(a) # "branded" => a \in starthist.hit
    BY <2>1, <2>2, ServicesAssumption
    DEF StartInv, StartTypeInv, AssetInv, Start!Served
  <2> QED BY <2>3, <2>4, <2>5 DEF Start!StartsWhole
<1> QED BY <1>1, <1>2, <1>3, PTL DEF ServicesSpec
=============================================================================
