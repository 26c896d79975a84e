------------------------ MODULE AddressUpload_proofs ------------------------
(***************************************************************************)
(* Address events on their way to the Center, for any paths, addresses,    *)
(* limits and numbers of events and revisions: every event of the current   *)
(* generation is queued, counted in a gap or known to the Center; a refused *)
(* poll has one of two reasons; the events of entering and leaving match    *)
(* the addresses held.                                                      *)
(***************************************************************************)
EXTENDS AddressUpload, FiniteNaturals, SequenceTheorems, TLAPS

DiskType == [configuration : Configuration, queue : SUBSET AddressEvent,
             states : [Paths -> PathState], gaps : [Paths -> AddressGap]]

-----------------------------------------------------------------------------
(* The store, and what a step may do to its queue and gaps                 *)

\* The queue of the store d among the events E recorded, when path p has numbered n[p].
QueueSound(d, E, n) ==
    /\ d.queue \subseteq E /\ IsFiniteSet(d.queue)
    /\ \A e \in d.queue : e.sequence <= n[e.path]
    /\ \A e, f \in d.queue : e.path = f.path /\ e.sequence = f.sequence => e = f
    /\ \A p \in Paths : Cardinality({e \in d.queue : e.path = p}) <= MaxPathEvents

\* A gap is of what was lost before the events still queued, and counts no more than its
\* bounds enclose.
GapsSound(d, n) ==
    \A p \in Paths : d.gaps[p] # NoAddressGap =>
        /\ 1 <= d.gaps[p].id
        /\ 1 <= d.gaps[p].first /\ d.gaps[p].first <= d.gaps[p].last /\ d.gaps[p].last <= n[p]
        /\ d.gaps[p].count <= d.gaps[p].last - d.gaps[p].first + 1
        /\ \A e \in d.queue : e.path = p => d.gaps[p].last < e.sequence

\* What left the queue, after the gap or after an event still queued, is in K.
InQueue(d, p, s) == \E e \in d.queue : e.path = p /\ e.sequence = s
After(d, p, s) ==
    \/ d.gaps[p] # NoAddressGap /\ d.gaps[p].last < s
    \/ \E e \in d.queue : e.path = p /\ e.sequence < s
TailKnown(d, n, K) ==
    \A p \in Paths : \A s \in 1 .. n[p] : After(d, p, s) => InQueue(d, p, s) \/ <<p, s>> \in K
HolesKnown(gaps, K) ==
    \A p \in Paths : Holes(gaps[p]) => \E s \in gaps[p].first .. gaps[p].last : <<p, s>> \in K

Covered(d, e) == e \in d.queue \/ e.sequence \in d.gaps[e.path].first .. d.gaps[e.path].last

-----------------------------------------------------------------------------
(* Queue                                                                   *)

\* The first of the events of a path: what EnqueueAddress evicts.
LEMMA OldestExists ==
  ASSUME NEW mine \in SUBSET AddressEvent, mine # {}
  PROVE  \E o \in mine : \A g \in mine : o.sequence <= g.sequence
<1> DEFINE S == {e.sequence : e \in mine}
<1>1. S \in SUBSET Nat /\ S # {}
  BY DEF AddressEvent, EventId
<1>2. PICK s \in S : \A m \in S : s <= m
  BY <1>1, NatMinimum
<1> QED BY <1>2

\* What EnqueueAddress does: it adds the event, and at the limit the oldest of the path
\* moves into the gap.
LEMMA EnqueueCases ==
  ASSUME NEW d \in DiskType, NEW e \in AddressEvent
  PROVE  LET d2 == EnqueueAddress(d, e)
             q == d.queue \cup {e}
             mine == {f \in q : f.path = e.path}
         IN \/ d2 = [d EXCEPT !.queue = q] /\ Cardinality(mine) <= MaxPathEvents
            \/ /\ ~(Cardinality(mine) <= MaxPathEvents)
               /\ \E o \in mine :
                   /\ \A g \in mine : o.sequence <= g.sequence
                   /\ d2 = [d EXCEPT !.queue = q \ {o}, !.gaps[e.path] = Extended(@, o)]
<1> DEFINE q == d.queue \cup {e}
           mine == {f \in q : f.path = e.path}
           oldest == CHOOSE f \in mine : \A g \in mine : f.sequence <= g.sequence
<1>1. mine \in SUBSET AddressEvent /\ mine # {}
  BY DEF DiskType
<1>2. oldest \in mine /\ \A g \in mine : oldest.sequence <= g.sequence
  <2> HIDE DEF mine
  <2>1. \E o \in mine : \A g \in mine : o.sequence <= g.sequence
    BY <1>1, OldestExists
  <2> QED BY <2>1
<1>3. EnqueueAddress(d, e) = IF Cardinality(mine) <= MaxPathEvents THEN [d EXCEPT !.queue = q]
                             ELSE [d EXCEPT !.queue = q \ {oldest}, !.gaps[e.path] = Extended(@, oldest)]
  BY DEF EnqueueAddress
<1> QED BY <1>2, <1>3

\* The next event of a path: the queue stays sound, whatever the limit.
LEMMA EnqueueQueue ==
  ASSUME NEW d \in DiskType, NEW e \in AddressEvent, NEW E, NEW n \in [Paths -> Count],
         e.sequence = n[e.path] + 1, QueueSound(d, E, n)
  PROVE  QueueSound(EnqueueAddress(d, e), E \cup {e}, [n EXCEPT ![e.path] = @ + 1])
<1> DEFINE d2 == EnqueueAddress(d, e)
           q == d.queue \cup {e}
           mine == {f \in q : f.path = e.path}
           n2 == [n EXCEPT ![e.path] = @ + 1]
<1>1. IsFiniteSet(q) /\ q \subseteq E \cup {e}
  BY FS_AddElement DEF QueueSound
<1>2. \A f \in q : f.sequence <= n2[f.path]
  BY DEF QueueSound, DiskType, AddressEvent, EventId, Count
<1>3. \A f, g \in q : f.path = g.path /\ f.sequence = g.sequence => f = g
  BY DEF QueueSound, DiskType, AddressEvent, EventId, Count
<1>4. \A p \in Paths : p # e.path => {f \in q : f.path = p} = {f \in d.queue : f.path = p}
  OBVIOUS
<1>5. IsFiniteSet({f \in d.queue : f.path = e.path})
  BY FS_Subset DEF QueueSound
<1>6. mine = {f \in d.queue : f.path = e.path} \cup {e}
  OBVIOUS
<1>7. e.path \in Paths BY DEF AddressEvent
<1>8. IsFiniteSet(mine) /\ Cardinality(mine) \in Nat /\ Cardinality(mine) <= MaxPathEvents + 1
  <2> DEFINE old == {f \in d.queue : f.path = e.path}
  <2>1. Cardinality(old) <= MaxPathEvents
    BY <1>7 DEF QueueSound
  <2> HIDE DEF mine, old
  <2>2. mine = old \cup {e} /\ IsFiniteSet(old)
    BY <1>5, <1>6 DEF old
  <2>3. IsFiniteSet(mine) /\ Cardinality(mine) = IF e \in old THEN Cardinality(old) ELSE Cardinality(old) + 1
    BY <2>2, FS_AddElement
  <2>4. Cardinality(old) \in Nat
    BY <2>2, FS_CardinalityType
  <2> QED BY <2>1, <2>3, <2>4, AddressAssumption
<1>9. CASE d2 = [d EXCEPT !.queue = q] /\ Cardinality(mine) <= MaxPathEvents
  <2>1. d2.queue = q BY <1>9 DEF DiskType
  <2>2. \A p \in Paths : Cardinality({f \in q : f.path = p}) <= MaxPathEvents
    BY <1>4, <1>9 DEF QueueSound
  <2> HIDE DEF d2, q, n2, mine
  <2> QED BY <1>1, <1>2, <1>3, <2>1, <2>2 DEF QueueSound, d2, n2
<1>10. ASSUME NEW o \in mine,
              d2 = [d EXCEPT !.queue = q \ {o}, !.gaps[e.path] = Extended(@, o)]
       PROVE  QueueSound(d2, E \cup {e}, n2)
  <2>1. d2.queue = q \ {o} BY <1>10 DEF DiskType
  <2>2. IsFiniteSet(q \ {o}) BY <1>1, FS_RemoveElement
  <2>3. \A p \in Paths : Cardinality({f \in q \ {o} : f.path = p}) <= MaxPathEvents
    <3> SUFFICES ASSUME NEW p \in Paths
                 PROVE Cardinality({f \in q \ {o} : f.path = p}) <= MaxPathEvents
      OBVIOUS
    <3>1. CASE p = e.path
      <4>1. {f \in q \ {o} : f.path = p} = mine \ {o} BY <3>1
      <4> HIDE DEF mine
      <4>2. Cardinality(mine \ {o}) = Cardinality(mine) - 1
        BY <1>8, FS_RemoveElement
      <4>3. Cardinality(mine) - 1 <= MaxPathEvents
        BY <1>8, AddressAssumption
      <4> QED BY <4>1, <4>2, <4>3
    <3>2. CASE p # e.path
      <4>1. {f \in q \ {o} : f.path = p} = {f \in d.queue : f.path = p} BY <3>2
      <4> QED BY <4>1 DEF QueueSound
    <3> QED BY <3>1, <3>2
  <2> HIDE DEF d2, q, n2, mine
  <2> QED BY <1>1, <1>2, <1>3, <2>1, <2>2, <2>3 DEF QueueSound
<1> QED BY <1>9, <1>10, EnqueueCases

LEMMA DiskUpdate ==
  ASSUME NEW d \in DiskType, NEW q \in SUBSET AddressEvent, NEW g \in [Paths -> AddressGap]
  PROVE  [d EXCEPT !.queue = q, !.gaps = g] \in DiskType
BY DEF DiskType

\* The gap takes what is evicted: types, and a gap under way stays the same gap.
LEMMA EnqueueGaps ==
  ASSUME NEW d \in DiskType, NEW e \in AddressEvent, NEW E, NEW n \in [Paths -> Count],
         e.sequence = n[e.path] + 1, QueueSound(d, E, n), GapsSound(d, n)
  PROVE  LET d2 == EnqueueAddress(d, e) IN
         /\ d2 \in DiskType /\ d2.configuration = d.configuration /\ d2.states = d.states
         /\ GapsSound(d2, [n EXCEPT ![e.path] = @ + 1])
         /\ \A p \in Paths : d.gaps[p] # NoAddressGap =>
                /\ d2.gaps[p].id = d.gaps[p].id /\ d2.gaps[p].first = d.gaps[p].first
                /\ d.gaps[p].last <= d2.gaps[p].last
<1> DEFINE d2 == EnqueueAddress(d, e)
           q == d.queue \cup {e}
           mine == {f \in q : f.path = e.path}
           n2 == [n EXCEPT ![e.path] = @ + 1]
           P == /\ d2 \in DiskType /\ d2.configuration = d.configuration /\ d2.states = d.states
                /\ GapsSound(d2, n2)
                /\ \A p \in Paths : d.gaps[p] # NoAddressGap =>
                      /\ d2.gaps[p].id = d.gaps[p].id /\ d2.gaps[p].first = d.gaps[p].first
                      /\ d.gaps[p].last <= d2.gaps[p].last
<1> SUFFICES P OBVIOUS
<1>0. /\ e.path \in Paths /\ e.id \in EventId /\ e.sequence \in EventId /\ d.gaps \in [Paths -> AddressGap]
      /\ d.queue \subseteq AddressEvent
  BY DEF AddressEvent, DiskType
<1>1. \A p \in Paths : n2[p] \in Nat /\ n[p] <= n2[p] /\ n[p] \in Nat
  BY <1>0 DEF Count
<1>2. \A p \in Paths : /\ d.gaps[p].id \in Nat /\ d.gaps[p].first \in Nat
                        /\ d.gaps[p].last \in Nat /\ d.gaps[p].count \in Nat
  BY <1>0 DEF AddressGap, Count
<1>3. \A f \in q : f.path \in Paths /\ f.sequence \in Nat /\ f.sequence >= 1 /\ f.id \in Nat /\ f.id >= 1
  BY <1>0 DEF AddressEvent, EventId
<1>4. \A p \in Paths : d.gaps[p] # NoAddressGap => \A f \in q : f.path = p => d.gaps[p].last < f.sequence
  BY <1>0, <1>1, <1>2, <1>3 DEF GapsSound
<1>5. CASE d2 = [d EXCEPT !.queue = q]
  <2>1. d2.queue = q /\ d2.gaps = d.gaps /\ d2.configuration = d.configuration /\ d2.states = d.states
        /\ d2 \in DiskType
    BY <1>5 DEF DiskType
  <2>2. \A p \in Paths : d2.gaps[p] # NoAddressGap => d2.gaps[p].last <= n2[p]
    BY <2>1, <1>1, <1>2 DEF GapsSound
  <2>3. GapsSound(d2, n2)
    <3> HIDE DEF d2, n2, q
    <3> QED BY <2>1, <2>2, <1>4 DEF GapsSound
  <2> HIDE DEF d2, n2, q
  <2> QED BY <2>1, <2>3, <1>2
<1>6. ASSUME NEW o \in mine, \A g \in mine : o.sequence <= g.sequence,
             d2 = [d EXCEPT !.queue = q \ {o}, !.gaps[e.path] = Extended(@, o)]
      PROVE  P
  <2> DEFINE gap == d.gaps[e.path]
             gap2 == Extended(gap, o)
  <2>1. /\ d2.queue = q \ {o} /\ d2.gaps = [d.gaps EXCEPT ![e.path] = gap2]
        /\ d2.configuration = d.configuration /\ d2.states = d.states
    BY <1>6 DEF DiskType
  <2>2. o \in q /\ o.path = e.path /\ o \in AddressEvent
    BY <1>0
  <2>3. o.sequence <= n2[e.path]
    <3>1. \A f \in d.queue : f.sequence <= n[f.path] BY DEF QueueSound
    <3> QED BY <2>2, <3>1, <1>0, <1>1, <1>3
  <2>4. gap # NoAddressGap => gap.last < o.sequence
    BY <2>2, <1>0, <1>4
  <2>5. \A f \in q \ {o} : f.path = e.path => o.sequence < f.sequence
    <3> SUFFICES ASSUME NEW f \in q \ {o}, f.path = e.path PROVE o.sequence < f.sequence
      OBVIOUS
    <3>1. o.sequence <= f.sequence BY <1>6
    <3>2. o.sequence # f.sequence
      <4>1. CASE f \in d.queue /\ o \in d.queue BY <4>1, <2>2 DEF QueueSound
      <4>2. CASE f = e /\ o \in d.queue
        BY <4>2, <2>2, <1>0, <1>1, <1>3 DEF QueueSound
      <4>3. CASE o = e /\ f \in d.queue
        BY <4>3, <2>2, <1>0, <1>1, <1>3 DEF QueueSound
      <4> QED BY <4>1, <4>2, <4>3, <2>2
    <3> QED BY <3>1, <3>2, <2>2, <1>3
  <2>6. CASE gap = NoAddressGap
    <3>1. gap2 = [id |-> o.id, count |-> 1, first |-> o.sequence, last |-> o.sequence]
      BY <2>6 DEF Extended
    <3>2. gap2 \in AddressGap
      BY <3>1, <2>2, AddressAssumption DEF AddressGap, AddressEvent, EventId, Count
    <3>3. d2 \in DiskType
      <4>1. [d.gaps EXCEPT ![e.path] = gap2] \in [Paths -> AddressGap]
        <5> HIDE DEF gap2
        <5> QED BY <3>2, <1>0
      <4>2. q \ {o} \in SUBSET AddressEvent BY <1>0
      <4>3. d2 = [d EXCEPT !.queue = q \ {o}, !.gaps = [d.gaps EXCEPT ![e.path] = gap2]]
        BY <1>6
      <4> HIDE DEF d2, q, gap2
      <4> QED BY <4>1, <4>2, <4>3, DiskUpdate
    <3>4. GapsSound(d2, n2)
      <4> SUFFICES ASSUME NEW p \in Paths, d2.gaps[p] # NoAddressGap
                   PROVE /\ 1 <= d2.gaps[p].id
                         /\ 1 <= d2.gaps[p].first /\ d2.gaps[p].first <= d2.gaps[p].last
                         /\ d2.gaps[p].last <= n2[p]
                         /\ d2.gaps[p].count <= d2.gaps[p].last - d2.gaps[p].first + 1
                         /\ \A f \in d2.queue : f.path = p => d2.gaps[p].last < f.sequence
        BY DEF GapsSound
      <4>1. CASE p = e.path
        <5>1. d2.gaps[p] = gap2 BY <2>1, <4>1, <1>0
        <5> HIDE DEF d2, n2, gap2, q, mine
        <5> QED BY <5>1, <3>1, <4>1, <2>1, <2>2, <2>3, <2>5, <1>3
      <4>2. CASE p # e.path
        <5>1. d2.gaps[p] = d.gaps[p] BY <2>1, <4>2, <1>0
        <5> HIDE DEF d2, n2, q, mine
        <5> QED BY <5>1, <4>2, <2>1, <1>1, <1>2, <1>4 DEF GapsSound
      <4> QED BY <4>1, <4>2
    <3> HIDE DEF d2, n2, q, mine, gap2
    <3> QED BY <2>1, <3>3, <3>4, <2>6, <1>0, <1>2
  <2>7. CASE gap # NoAddressGap
    <3>1. gap2 = [gap EXCEPT !.count = @ + 1, !.last = o.sequence]
      BY <2>7 DEF Extended
    <3>2. /\ gap2.id = gap.id /\ gap2.first = gap.first /\ gap2.last = o.sequence
          /\ gap2.count = gap.count + 1
      BY <3>1, <1>0 DEF AddressGap
    <3>3. /\ 1 <= gap.id /\ 1 <= gap.first /\ gap.first <= gap.last
          /\ gap.count <= gap.last - gap.first + 1
      BY <2>7, <1>0 DEF GapsSound
    <3>4. gap2.count <= gap2.last - gap2.first + 1 /\ gap2.count <= MaxAddressEvents
      <4> HIDE DEF gap2, gap
      <4>1. gap.count + 1 <= o.sequence - gap.first + 1 /\ o.sequence <= MaxAddressEvents
        BY <3>3, <2>4, <2>7, <1>0, <1>2, <2>2, AddressAssumption DEF AddressEvent, EventId, gap
      <4> QED BY <4>1, <3>2, <3>3, <1>0, <1>2, <2>2, AddressAssumption DEF AddressEvent, EventId, gap
    <3>5. gap2 \in AddressGap
      <4>1. gap \in AddressGap BY <1>0
      <4>2. gap.count + 1 \in Count /\ o.sequence \in Count
        BY <3>2, <3>4, <4>1, <2>2 DEF AddressGap, Count, AddressEvent, EventId
      <4> QED BY <3>1, <4>1, <4>2 DEF AddressGap
    <3>6. d2 \in DiskType
      <4>1. [d.gaps EXCEPT ![e.path] = gap2] \in [Paths -> AddressGap]
        <5> HIDE DEF gap2
        <5> QED BY <3>5, <1>0
      <4>2. q \ {o} \in SUBSET AddressEvent BY <1>0
      <4>3. d2 = [d EXCEPT !.queue = q \ {o}, !.gaps = [d.gaps EXCEPT ![e.path] = gap2]]
        BY <1>6
      <4> HIDE DEF d2, q, gap2
      <4> QED BY <4>1, <4>2, <4>3, DiskUpdate
    <3>7. GapsSound(d2, n2)
      <4> SUFFICES ASSUME NEW p \in Paths, d2.gaps[p] # NoAddressGap
                   PROVE /\ 1 <= d2.gaps[p].id
                         /\ 1 <= d2.gaps[p].first /\ d2.gaps[p].first <= d2.gaps[p].last
                         /\ d2.gaps[p].last <= n2[p]
                         /\ d2.gaps[p].count <= d2.gaps[p].last - d2.gaps[p].first + 1
                         /\ \A f \in d2.queue : f.path = p => d2.gaps[p].last < f.sequence
        BY DEF GapsSound
      <4>1. CASE p = e.path
        <5>1. d2.gaps[p] = gap2 BY <2>1, <4>1, <1>0
        <5>2. gap2.first <= gap2.last
          BY <3>2, <3>3, <2>4, <2>7, <1>0, <1>2, <1>3, <2>2
        <5> HIDE DEF d2, n2, gap2, q, mine
        <5> QED BY <5>1, <5>2, <3>2, <3>3, <3>4, <4>1, <2>1, <2>2, <2>3, <2>5
      <4>2. CASE p # e.path
        <5>1. d2.gaps[p] = d.gaps[p] BY <2>1, <4>2, <1>0
        <5> HIDE DEF d2, n2, q, mine
        <5> QED BY <5>1, <4>2, <2>1, <1>1, <1>2, <1>4 DEF GapsSound
      <4> QED BY <4>1, <4>2
    <3>8. \A p \in Paths : p # e.path => d2.gaps[p] = d.gaps[p]
      BY <2>1, <1>0
    <3>9. d2.gaps[e.path] = gap2
      BY <2>1, <1>0
    <3>10. gap.last <= gap2.last
      BY <3>2, <2>4, <2>7, <1>0, <1>2, <1>3, <2>2
    <3> HIDE DEF d2, n2, q, mine, gap2
    <3> QED BY <2>1, <3>2, <3>6, <3>7, <3>8, <3>9, <3>10, <1>0, <1>2
  <2> QED BY <2>6, <2>7
<1> QED BY <1>5, <1>6, EnqueueCases

LEMMA ExtendedLast ==
  ASSUME NEW gap \in AddressGap, NEW o \in AddressEvent
  PROVE  Extended(gap, o).last = o.sequence /\ Extended(gap, o) # NoAddressGap
<1>1. o.sequence # 0
  BY DEF AddressEvent, EventId
<1>2. Extended(gap, o).last = o.sequence
  BY DEF Extended, AddressGap
<1> QED BY <1>1, <1>2 DEF NoAddressGap

\* What is queued or in the gap of its path stays one of the two.
LEMMA EnqueueCovers ==
  ASSUME NEW d \in DiskType, NEW e \in AddressEvent, NEW E, NEW n \in [Paths -> Count],
         e.sequence = n[e.path] + 1, QueueSound(d, E, n), GapsSound(d, n)
  PROVE  /\ Covered(EnqueueAddress(d, e), e)
         /\ \A f \in AddressEvent : Covered(d, f) => Covered(EnqueueAddress(d, e), f)
<1> DEFINE d2 == EnqueueAddress(d, e)
           q == d.queue \cup {e}
           mine == {f \in q : f.path = e.path}
           n2 == [n EXCEPT ![e.path] = @ + 1]
<1>1. /\ d2 \in DiskType /\ GapsSound(d2, n2)
      /\ \A p \in Paths : d.gaps[p] # NoAddressGap =>
            /\ d2.gaps[p].first = d.gaps[p].first /\ d.gaps[p].last <= d2.gaps[p].last
  BY EnqueueGaps
<1>2. \A f \in AddressEvent : f.path \in Paths /\ f.sequence \in Nat /\ 1 <= f.sequence
  BY DEF AddressEvent, EventId
<1>3. \A p \in Paths : /\ d.gaps[p].first \in Nat /\ d.gaps[p].last \in Nat
                        /\ d2.gaps[p].first \in Nat /\ d2.gaps[p].last \in Nat
  BY <1>1 DEF DiskType, AddressGap, Count
<1>4. ASSUME NEW f \in AddressEvent, f.sequence \in d.gaps[f.path].first .. d.gaps[f.path].last
      PROVE  Covered(d2, f)
  <2>1. d.gaps[f.path] # NoAddressGap
    BY <1>2, <1>4 DEF NoAddressGap
  <2> HIDE DEF d2
  <2> QED BY <1>1, <1>2, <1>3, <1>4, <2>1 DEF Covered
<1>5. ASSUME NEW f \in q PROVE Covered(d2, f)
  <2>1. CASE d2 = [d EXCEPT !.queue = q]
    <3>1. d2.queue = q BY <2>1 DEF DiskType
    <3> QED BY <3>1, <1>5 DEF Covered
  <2>2. ASSUME NEW o \in mine, d2 = [d EXCEPT !.queue = q \ {o}, !.gaps[e.path] = Extended(@, o)]
        PROVE  Covered(d2, f)
    <3>1. d2.queue = q \ {o} /\ d2.gaps[e.path] = Extended(d.gaps[e.path], o)
      BY <2>2, <1>2 DEF DiskType
    <3>2. o \in AddressEvent /\ o.path = e.path
      BY DEF DiskType
    <3>3. CASE f # o
      BY <3>1, <3>3, <1>5 DEF Covered
    <3>4. CASE f = o
      <4>1. d2.gaps[e.path].last = o.sequence /\ d2.gaps[e.path] # NoAddressGap
        <5>1. d.gaps[e.path] \in AddressGap BY <1>2 DEF DiskType
        <5> QED BY <5>1, <3>1, <3>2, ExtendedLast
      <4>2. d2.gaps[e.path].first <= o.sequence
        BY <4>1, <1>1, <1>2 DEF GapsSound
      <4> HIDE DEF d2
      <4> QED BY <3>2, <3>4, <4>1, <4>2, <1>2, <1>3 DEF Covered
    <3> QED BY <3>3, <3>4
  <2> QED BY <2>1, <2>2, EnqueueCases
<1> HIDE DEF d2
<1>6. Covered(d2, e) /\ \A f \in AddressEvent : Covered(d, f) => Covered(d2, f)
  BY <1>4, <1>5 DEF Covered
<1> QED BY <1>6 DEF d2

\* An eviction moves the gap to the oldest event queued; what lies between the two was
\* known before.
LEMMA EnqueueKnown ==
  ASSUME NEW d \in DiskType, NEW e \in AddressEvent, NEW E, NEW n \in [Paths -> Count], NEW K,
         e.sequence = n[e.path] + 1, QueueSound(d, E, n), GapsSound(d, n),
         TailKnown(d, n, K), HolesKnown(d.gaps, K)
  PROVE  /\ TailKnown(EnqueueAddress(d, e), [n EXCEPT ![e.path] = @ + 1], K)
         /\ HolesKnown(EnqueueAddress(d, e).gaps, K)
<1> DEFINE d2 == EnqueueAddress(d, e)
           q == d.queue \cup {e}
           mine == {f \in q : f.path = e.path}
           n2 == [n EXCEPT ![e.path] = @ + 1]
           P == TailKnown(d2, n2, K) /\ HolesKnown(d2.gaps, K)
<1> SUFFICES P OBVIOUS
<1>1. \A f \in AddressEvent : f.path \in Paths /\ f.sequence \in Nat /\ 1 <= f.sequence
  BY DEF AddressEvent, EventId
<1>2. d.queue \subseteq AddressEvent /\ d.gaps \in [Paths -> AddressGap]
  BY DEF DiskType
<1>3. \A p \in Paths : n[p] \in Nat /\ n2[p] = IF p = e.path THEN n[p] + 1 ELSE n[p]
  BY <1>1 DEF Count
<1>4. \A p \in Paths : /\ d.gaps[p].first \in Nat /\ d.gaps[p].last \in Nat /\ d.gaps[p].count \in Nat
  BY <1>2 DEF AddressGap, Count
<1>5. ASSUME NEW p \in Paths, p # e.path, d2.gaps[p] = d.gaps[p], NEW s \in 1 .. n2[p],
             \A f \in AddressEvent : f.path = p => (f \in d2.queue <=> f \in d.queue),
             d2.queue \subseteq AddressEvent, After(d2, p, s)
      PROVE  InQueue(d2, p, s) \/ <<p, s>> \in K
  <2> HIDE DEF d2, n2
  <2>1. s \in 1 .. n[p] /\ After(d, p, s)
    BY <1>1, <1>3, <1>5 DEF After
  <2>2. InQueue(d, p, s) \/ <<p, s>> \in K
    BY <2>1 DEF TailKnown
  <2> QED BY <1>2, <1>5, <2>2 DEF InQueue
<1>6. CASE d2 = [d EXCEPT !.queue = q]
  <2>1. d2.queue = q /\ d2.gaps = d.gaps
    BY <1>6 DEF DiskType
  <2> HIDE DEF d2, n2
  <2>2. ASSUME NEW s \in 1 .. n2[e.path], After(d2, e.path, s)
        PROVE  InQueue(d2, e.path, s) \/ <<e.path, s>> \in K
    <3>1. CASE s = n[e.path] + 1
      BY <2>1, <3>1 DEF InQueue
    <3>2. CASE s \in 1 .. n[e.path]
      <4>1. After(d, e.path, s)
        BY <2>1, <2>2, <3>2, <1>1, <1>3 DEF After
      <4>2. InQueue(d, e.path, s) \/ <<e.path, s>> \in K
        BY <3>2, <4>1, <1>1 DEF TailKnown
      <4> QED BY <4>2, <2>1 DEF InQueue
    <3> QED BY <3>1, <3>2, <1>1, <1>3
  <2>3. TailKnown(d2, n2, K)
    BY <1>1, <1>2, <1>5, <2>1, <2>2 DEF TailKnown
  <2> QED BY <2>1, <2>3
<1>7. ASSUME NEW o \in mine, \A g \in mine : o.sequence <= g.sequence,
             d2 = [d EXCEPT !.queue = q \ {o}, !.gaps[e.path] = Extended(@, o)]
      PROVE  P
  <2> DEFINE gap == d.gaps[e.path]
  <2>1. d2.queue = q \ {o} /\ d2.gaps = [d.gaps EXCEPT ![e.path] = Extended(gap, o)]
    BY <1>7, <1>1 DEF DiskType
  <2>2. o \in q /\ o.path = e.path /\ o \in AddressEvent
    BY <1>2
  <2>3. d2.gaps[e.path] = Extended(gap, o) /\ \A p \in Paths : p # e.path => d2.gaps[p] = d.gaps[p]
    BY <2>1, <1>1, <1>2
  <2>4. Extended(gap, o) # NoAddressGap /\ Extended(gap, o).last = o.sequence
    BY <1>1, <1>2, <2>2, ExtendedLast
  <2>5. \A f \in d2.queue : f.path = e.path => f \in mine
    BY <2>1
  <2>6. o \notin d.queue => o.sequence = n[e.path] + 1
    BY <2>2
  <2> HIDE DEF d2, n2, mine, q
  <2>7. ASSUME NEW s \in 1 .. n2[e.path], After(d2, e.path, s)
        PROVE  InQueue(d2, e.path, s) \/ <<e.path, s>> \in K
    <3>1. o.sequence <= s
      <4>1. CASE o.sequence < s BY <4>1, <2>2, <1>1
      <4>2. ASSUME NEW f \in d2.queue, f.path = e.path, f.sequence < s PROVE o.sequence <= s
        <5>1. f \in mine /\ o.sequence <= f.sequence BY <4>2, <2>5, <1>7
        <5>2. f \in AddressEvent BY <5>1, <1>2 DEF mine, q
        <5> QED BY <4>2, <5>1, <5>2, <2>2, <1>1
      <4> QED BY <2>3, <2>4, <2>7, <4>1, <4>2 DEF After
    <3>2. o.sequence # s
      <4>1. CASE o.sequence < s BY <4>1, <2>2, <1>1
      <4>2. ASSUME NEW f \in d2.queue, f.path = e.path, f.sequence < s PROVE o.sequence < s
        <5>1. f \in mine /\ o.sequence <= f.sequence BY <4>2, <2>5, <1>7
        <5>2. f \in AddressEvent BY <5>1, <1>2 DEF mine, q
        <5> QED BY <4>2, <5>1, <5>2, <2>2, <1>1
      <4> QED BY <2>2, <2>3, <2>4, <2>7, <4>1, <4>2, <1>1 DEF After
    <3>3. o \in d.queue
      BY <3>1, <3>2, <2>2, <2>6, <1>1, <1>3
    <3>4. CASE s = n[e.path] + 1
      <4>1. e \in d2.queue
        BY <2>1, <3>2, <3>4 DEF q
      <4> QED BY <4>1, <3>4 DEF InQueue
    <3>5. CASE s \in 1 .. n[e.path]
      <4>1. After(d, e.path, s)
        BY <2>2, <3>1, <3>2, <3>3, <1>1 DEF After
      <4>2. InQueue(d, e.path, s) \/ <<e.path, s>> \in K
        BY <3>5, <4>1, <1>1 DEF TailKnown
      <4>3. \A f \in d.queue : f.sequence = s => f \in d2.queue
        BY <2>1, <3>2 DEF q
      <4> QED BY <4>2, <4>3 DEF InQueue
    <3> QED BY <3>4, <3>5, <1>1, <1>3
  <2>8. TailKnown(d2, n2, K)
    <3>1. \A p \in Paths : p # e.path =>
            \A f \in AddressEvent : f.path = p => (f \in d2.queue <=> f \in d.queue)
      BY <2>1, <2>2 DEF q
    <3>2. d2.queue \subseteq AddressEvent
      BY <2>1, <1>2 DEF q
    <3> QED BY <1>5, <2>3, <2>7, <3>1, <3>2 DEF TailKnown
  <2>9. ASSUME Holes(d2.gaps[e.path])
        PROVE  \E s \in d2.gaps[e.path].first .. d2.gaps[e.path].last : <<e.path, s>> \in K
    <3>1. gap # NoAddressGap
      <4> SUFFICES ASSUME gap = NoAddressGap PROVE FALSE OBVIOUS
      <4>1. Extended(gap, o) = [id |-> o.id, count |-> 1, first |-> o.sequence, last |-> o.sequence]
        BY DEF Extended
      <4> QED BY <4>1, <2>2, <2>3, <2>9, <1>1 DEF Holes
    <3>2. /\ d2.gaps[e.path].first = gap.first /\ d2.gaps[e.path].last = o.sequence
          /\ d2.gaps[e.path].count = gap.count + 1
      <4>1. gap \in AddressGap BY <1>1, <1>2
      <4> QED BY <4>1, <2>3, <3>1 DEF Extended, AddressGap
    <3>3. /\ gap.first <= gap.last /\ gap.first \in Nat /\ gap.last \in Nat /\ gap.last < o.sequence
          /\ gap.last <= n[e.path] /\ gap.count \in Nat /\ o.sequence \in Nat
      <4>1. \A f \in d.queue : f.path = e.path => gap.last < f.sequence
        BY <3>1, <1>1 DEF GapsSound
      <4>2. gap.first <= gap.last /\ gap.last <= n[e.path]
        BY <3>1, <1>1 DEF GapsSound
      <4> HIDE DEF gap
      <4>3. gap.last < o.sequence
        BY <4>1, <4>2, <2>2, <2>6, <1>1, <1>3, <1>4 DEF gap
      <4> QED BY <4>2, <4>3, <1>1, <1>4, <2>2 DEF gap
    <3>4. CASE Holes(gap)
      <4>1. PICK s \in gap.first .. gap.last : <<e.path, s>> \in K
        BY <3>4, <1>1 DEF HolesKnown
      <4> HIDE DEF gap
      <4>2. s \in gap.first .. o.sequence BY <3>3
      <4> QED BY <3>2, <4>1, <4>2
    <3>5. CASE ~Holes(gap)
      <4>1. gap.count = gap.last - gap.first + 1
        BY <3>1, <3>5 DEF Holes
      <4>2. gap.count + 1 # o.sequence - gap.first + 1
        BY <2>9, <3>2 DEF Holes
      <4> DEFINE s == gap.last + 1
      <4>3. s < o.sequence /\ s \in gap.first .. o.sequence
        <5> HIDE DEF gap
        <5> QED BY <3>3, <4>1, <4>2
      <4>4. s \in 1 .. n[e.path]
        <5>1. o.sequence <= n[e.path] + 1
          <6>1. o \in d.queue => o.sequence <= n[o.path] BY DEF QueueSound
          <6> QED BY <6>1, <2>2, <2>6, <1>1, <1>3
        <5> HIDE DEF gap
        <5> QED BY <5>1, <4>3, <3>3, <1>1, <1>3
      <4>5. After(d, e.path, s)
        BY <3>1, <3>3 DEF After
      <4>6. InQueue(d, e.path, s) \/ <<e.path, s>> \in K
        BY <4>4, <4>5, <1>1 DEF TailKnown
      <4>7. ~InQueue(d, e.path, s)
        <5> SUFFICES ASSUME NEW f \in d.queue, f.path = e.path, f.sequence = s PROVE FALSE
          BY DEF InQueue
        <5>1. f \in mine BY DEF mine, q
        <5>2. o.sequence <= f.sequence BY <5>1, <1>7
        <5> HIDE DEF gap
        <5> QED BY <5>2, <4>3, <3>3
      <4> QED BY <3>2, <4>3, <4>6, <4>7
    <3> QED BY <3>4, <3>5
  <2>10. HolesKnown(d2.gaps, K)
    BY <2>3, <2>9 DEF HolesKnown
  <2> QED BY <2>8, <2>10
<1> QED BY <1>6, <1>7, EnqueueCases

-----------------------------------------------------------------------------
(* Observing                                                               *)

\* What a check emits: entering and leaving an address at most once each, when nobody
\* held it and when nobody holds it any more.
Entering == {"first-observation", "address-added"}
Leaving == {"address-removed"}
Selected(em, ip, kinds) == {i \in 1 .. Len(em) : em[i].ip = ip /\ em[i].kind \in kinds}

LEMMA OptionalSequence ==
  ASSUME NEW T, NEW x \in T, NEW s, s = <<>> \/ s = <<x>>
  PROVE  s \in Seq(T) /\ Len(s) \in 0 .. 1 /\ \A i \in 1 .. Len(s) : s[i] = x
<1>1. CASE s = <<>>
  BY <1>1
<1>2. CASE s = <<x>>
  <2>1. s \in Seq(T) /\ Len(s) = 1 /\ s[1] = x BY <1>2
  <2> QED BY <2>1
<1> QED BY <1>1, <1>2

LEMMA JoinThree ==
  ASSUME NEW T, NEW r \in Seq(T), NEW l \in Seq(T), NEW a \in Seq(T)
  PROVE  LET s == r \o l \o a IN
         /\ Len(s) = Len(r) + Len(l) + Len(a)
         /\ \A i \in 1 .. Len(s) :
              s[i] = IF i <= Len(r) THEN r[i]
                     ELSE IF i <= Len(r) + Len(l) THEN l[i - Len(r)] ELSE a[i - Len(r) - Len(l)]
<1> DEFINE rl == r \o l
<1>1. Len(r) \in Nat /\ Len(l) \in Nat /\ Len(a) \in Nat
  BY LenProperties
<1>2. /\ rl \in Seq(T) /\ Len(rl) = Len(r) + Len(l)
      /\ \A i \in 1 .. Len(r) + Len(l) : rl[i] = IF i <= Len(r) THEN r[i] ELSE l[i - Len(r)]
  BY ConcatProperties
<1> HIDE DEF rl
<1>3. /\ Len(rl \o a) = Len(rl) + Len(a)
      /\ \A i \in 1 .. Len(rl) + Len(a) : (rl \o a)[i] = IF i <= Len(rl) THEN rl[i] ELSE a[i - Len(rl)]
  <2>1. rl \in Seq(T) BY <1>2
  <2> QED BY <2>1, ConcatProperties
<1>4. /\ Len(rl \o a) = Len(r) + Len(l) + Len(a)
      /\ \A i \in 1 .. Len(rl \o a) :
              (rl \o a)[i] = IF i <= Len(r) THEN r[i]
                     ELSE IF i <= Len(r) + Len(l) THEN l[i - Len(r)] ELSE a[i - Len(r) - Len(l)]
  BY <1>1, <1>2, <1>3
<1> QED BY <1>4 DEF rl

LEMMA EmittedShape ==
  ASSUME NEW p \in Paths, NEW ip \in IPs, addressDisk \in DiskType
  PROVE  LET em == Emitted(p, ip)
             held == addressDisk.states[p].ip IN
         /\ Len(em) \in 0 .. 3
         /\ \A i \in 1 .. Len(em) : em[i].kind \in Kinds /\ em[i].ip \in IPs
         /\ \A a \in PublicIPs :
              /\ IF a = ip /\ Holders(a) = {} THEN \E j \in 1 .. Len(em) : Selected(em, a, Entering) = {j}
                 ELSE Selected(em, a, Entering) = {}
              /\ IF ip # NoIP /\ a = held /\ a # ip /\ Holders(a) = {p}
                 THEN \E j \in 1 .. Len(em) : Selected(em, a, Leaving) = {j}
                 ELSE Selected(em, a, Leaving) = {}
<1> DEFINE em == Emitted(p, ip)
           held == addressDisk.states[p].ip
           T == [kind : Kinds, ip : IPs]
           P == /\ Len(em) \in 0 .. 3
                /\ \A i \in 1 .. Len(em) : em[i].kind \in Kinds /\ em[i].ip \in IPs
                /\ \A a \in PublicIPs :
                     /\ IF a = ip /\ Holders(a) = {} THEN \E j \in 1 .. Len(em) : Selected(em, a, Entering) = {j}
                        ELSE Selected(em, a, Entering) = {}
                     /\ IF ip # NoIP /\ a = held /\ a # ip /\ Holders(a) = {p}
                        THEN \E j \in 1 .. Len(em) : Selected(em, a, Leaving) = {j}
                        ELSE Selected(em, a, Leaving) = {}
<1> SUFFICES P OBVIOUS
<1>1. held \in IPs
  BY DEF DiskType, PathState
<1>2. \A a \in PublicIPs : a # NoIP
  BY AddressAssumption DEF NoIP
<1>3. CASE ip = NoIP
  <2>1. em = <<>> \/ em = <<[kind |-> "check-failure", ip |-> held]>>
    BY <1>3 DEF Emitted, Failure
  <2>2. Len(em) \in 0 .. 1 /\ \A i \in 1 .. Len(em) : em[i].kind = "check-failure" /\ em[i].ip = held
    <3> HIDE DEF em, held
    <3> QED BY <2>1
  <2> HIDE DEF em, held
  <2>3. \A a : Selected(em, a, Entering) = {} /\ Selected(em, a, Leaving) = {}
    BY <2>2 DEF Selected, Entering, Leaving
  <2> QED BY <1>1, <1>2, <1>3, <2>2, <2>3 DEF Kinds
<1>4. CASE ip # NoIP
  <2> DEFINE r == Recovery(p, ip)
             l == Leaves(p, ip)
             a == Enters(p, ip)
  <2>1. r = <<>> \/ r = <<[kind |-> "recovery", ip |-> ip]>>
    BY DEF Recovery
  <2>2. /\ ~(held \in {NoIP, ip} \/ Holders(held) # {p}) => l = <<[kind |-> "address-removed", ip |-> held]>>
        /\ held \in {NoIP, ip} \/ Holders(held) # {p} => l = <<>>
    BY DEF Leaves
  <2>3. /\ Holders(ip) = {} => \E k \in Entering : a = <<[kind |-> k, ip |-> ip]>>
        /\ Holders(ip) # {} => a = <<>>
    BY DEF Enters, Entering
  <2>4. em = r \o l \o a
    BY <1>4 DEF Emitted
  <2> HIDE DEF em, r, l, a, held
  <2>5. r \in Seq(T) /\ Len(r) \in 0 .. 1 /\ \A i \in 1 .. Len(r) : r[i].kind = "recovery" /\ r[i].ip = ip
    <3>1. [kind |-> "recovery", ip |-> ip] \in T BY DEF Kinds
    <3> HIDE DEF T
    <3> QED BY <2>1, <3>1, OptionalSequence
  <2>6. l \in Seq(T) /\ Len(l) \in 0 .. 1 /\ \A i \in 1 .. Len(l) : l[i].kind = "address-removed" /\ l[i].ip = held
    <3>1. [kind |-> "address-removed", ip |-> held] \in T BY <1>1 DEF Kinds
    <3> HIDE DEF T
    <3> QED BY <2>2, <3>1, OptionalSequence
  <2>7. a \in Seq(T) /\ Len(a) \in 0 .. 1 /\ \A i \in 1 .. Len(a) : a[i].kind \in Entering /\ a[i].ip = ip
    <3>1. \A k \in Entering : [kind |-> k, ip |-> ip] \in T BY DEF Kinds, Entering
    <3>2. CASE Holders(ip) = {}
      <4>1. PICK k \in Entering : a = <<[kind |-> k, ip |-> ip]>> BY <2>3, <3>2
      <4> HIDE DEF T
      <4> QED BY <3>1, <4>1, OptionalSequence
    <3>3. CASE Holders(ip) # {}
      <4>1. a = <<>> BY <2>3, <3>3
      <4> HIDE DEF T
      <4>3. a \in Seq(T) /\ Len(a) = 0 BY <4>1
      <4> QED BY <4>3
    <3> QED BY <3>2, <3>3
  <2>8. /\ Len(em) = Len(r) + Len(l) + Len(a)
        /\ \A i \in 1 .. Len(em) :
              em[i] = IF i <= Len(r) THEN r[i]
                      ELSE IF i <= Len(r) + Len(l) THEN l[i - Len(r)] ELSE a[i - Len(r) - Len(l)]
    BY <2>4, <2>5, <2>6, <2>7, JoinThree
  <2>9. \A i \in 1 .. Len(em) :
          /\ i <= Len(r) => em[i].kind = "recovery" /\ em[i].ip = ip
          /\ i > Len(r) /\ i <= Len(r) + Len(l) => em[i].kind = "address-removed" /\ em[i].ip = held
          /\ i > Len(r) + Len(l) => em[i].kind \in Entering /\ em[i].ip = ip
    BY <2>5, <2>6, <2>7, <2>8
  <2>10. Len(em) \in 0 .. 3 /\ \A i \in 1 .. Len(em) : em[i].kind \in Kinds /\ em[i].ip \in IPs
    BY <1>1, <2>5, <2>6, <2>7, <2>8, <2>9 DEF Kinds, Entering
  <2>11. ASSUME NEW b \in PublicIPs
         PROVE IF b = ip /\ Holders(b) = {} THEN \E j \in 1 .. Len(em) : Selected(em, b, Entering) = {j}
               ELSE Selected(em, b, Entering) = {}
    <3>1. \A i \in 1 .. Len(em) : em[i].kind \in Entering <=> i > Len(r) + Len(l)
      BY <2>5, <2>6, <2>9 DEF Entering
    <3>2. CASE b = ip /\ Holders(b) = {}
      <4>1. Len(a) = 1 BY <2>3, <3>2
      <4>2. Len(r) + Len(l) + 1 \in 1 .. Len(em) /\ Selected(em, b, Entering) = {Len(r) + Len(l) + 1}
        BY <2>5, <2>6, <2>8, <2>9, <3>1, <3>2, <4>1 DEF Selected
      <4> QED BY <3>2, <4>2
    <3>3. CASE b # ip
      BY <2>5, <2>6, <2>9, <3>1, <3>3 DEF Selected
    <3>4. CASE b = ip /\ Holders(b) # {}
      <4>1. Len(a) = 0 BY <2>3, <3>4
      <4> QED BY <2>5, <2>6, <2>8, <3>1, <3>4, <4>1 DEF Selected
    <3> QED BY <3>2, <3>3, <3>4
  <2>12. ASSUME NEW b \in PublicIPs
         PROVE IF ip # NoIP /\ b = held /\ b # ip /\ Holders(b) = {p}
               THEN \E j \in 1 .. Len(em) : Selected(em, b, Leaving) = {j}
               ELSE Selected(em, b, Leaving) = {}
    <3>1. \A i \in 1 .. Len(em) : em[i].kind \in Leaving <=> i > Len(r) /\ i <= Len(r) + Len(l)
      BY <2>5, <2>6, <2>9 DEF Entering, Leaving
    <3>2. CASE b = held /\ b # ip /\ Holders(b) = {p}
      <4>1. Len(l) = 1 BY <1>2, <2>2, <3>2
      <4>2. Len(r) + 1 \in 1 .. Len(em) /\ Selected(em, b, Leaving) = {Len(r) + 1}
        BY <2>5, <2>7, <2>8, <2>9, <3>1, <3>2, <4>1 DEF Selected
      <4> QED BY <1>4, <3>2, <4>2
    <3>3. CASE b # held
      BY <2>5, <2>6, <2>9, <3>1, <3>3 DEF Selected
    <3>4. CASE b = held /\ (b = ip \/ Holders(b) # {p})
      <4>1. Len(l) = 0 BY <2>2, <3>4
      <4> QED BY <2>5, <3>1, <3>4, <4>1 DEF Selected
    <3> QED BY <3>2, <3>3, <3>4
  <2> QED BY <2>10, <2>11, <2>12
<1> QED BY <1>3, <1>4

\* Observe step by step: the events emitted are queued one after the other.
NewEvent(p, em, i) ==
    [id |-> addressLog.count + i, path |-> p, kind |-> em[i].kind,
     sequence |-> addressDisk.states[p].sequence + i, ip |-> em[i].ip]
Checked(p, ip, k) ==
    [addressDisk EXCEPT
       !.states[p] = [status |-> IF ip = NoIP THEN "failed" ELSE "confirmed",
                      sequence |-> @.sequence + k, ip |-> IF ip = NoIP THEN @.ip ELSE ip]]
QueuedInOrder(p, ip, em, after) ==
    /\ after[0] = Checked(p, ip, Len(em))
    /\ \A i \in 1 .. Len(em) : after[i] = EnqueueAddress(after[i - 1], NewEvent(p, em, i))

LEMMA ObserveUnfolds ==
  ASSUME NEW p \in Paths, NEW ip \in IPs, addressDisk \in DiskType, Observe(p, ip)
  PROVE  LET em == Emitted(p, ip) IN
         /\ addressLog.count + Len(em) <= MaxAddressEvents
         /\ addressLog' = [events |-> addressLog.events \cup {NewEvent(p, em, i) : i \in 1 .. Len(em)},
                           count |-> addressLog.count + Len(em)]
         /\ \E after : QueuedInOrder(p, ip, em, after) /\ addressDisk' = after[Len(em)]
<1> DEFINE em == Emitted(p, ip)
           m == Len(em)
           F(g) == [i \in 0 .. m |-> IF i > 0 THEN EnqueueAddress(g[i - 1], NewEvent(p, em, i))
                                     ELSE Checked(p, ip, m)]
           after == CHOOSE g : g = F(g)
<1>1. /\ addressLog.count + m <= MaxAddressEvents
      /\ addressLog' = [events |-> addressLog.events \cup {NewEvent(p, em, i) : i \in 1 .. m},
                        count |-> addressLog.count + m]
  BY DEF Observe, NewEvent
<1>2. addressDisk' = after[m]
  BY DEF Observe, NewEvent, Checked
<1>3. m \in 0 .. 3
  BY EmittedShape
<1>4. \E w : w = F(w)
  <2> DEFINE N(i) == NewEvent(p, em, i)
             a0 == Checked(p, ip, m)
             a1 == EnqueueAddress(a0, N(1))
             a2 == EnqueueAddress(a1, N(2))
             a3 == EnqueueAddress(a2, N(3))
             w == [i \in 0 .. m |-> IF i = 0 THEN a0 ELSE IF i = 1 THEN a1 ELSE IF i = 2 THEN a2 ELSE a3]
  <2> HIDE DEF m, a0, a1, a2, a3
  <2>1. ASSUME NEW i \in 0 .. m
        PROVE  w[i] = IF i > 0 THEN EnqueueAddress(w[i - 1], N(i)) ELSE a0
    <3>1. i \in {0, 1, 2, 3} BY <1>3
    <3>2. CASE i = 0 BY <3>2
    <3>3. CASE i = 1
      <4>1. w[i] = a1 /\ w[i - 1] = a0 BY <3>3, <1>3
      <4> QED BY <4>1, <3>3 DEF a1
    <3>4. CASE i = 2
      <4>1. w[i] = a2 /\ w[i - 1] = a1 BY <3>4, <1>3
      <4> QED BY <4>1, <3>4 DEF a2
    <3>5. CASE i = 3
      <4>1. w[i] = a3 /\ w[i - 1] = a2 BY <3>5, <1>3
      <4> QED BY <4>1, <3>5 DEF a3
    <3> QED BY <3>1, <3>2, <3>3, <3>4, <3>5
  <2>2. w = F(w)
    <3>1. w = [i \in 0 .. m |-> w[i]]
      <4> DEFINE v(i) == IF i = 0 THEN a0 ELSE IF i = 1 THEN a1 ELSE IF i = 2 THEN a2 ELSE a3
      <4> QED OBVIOUS
    <3> HIDE DEF w
    <3>2. \A i \in 0 .. m : w[i] = IF i > 0 THEN EnqueueAddress(w[i - 1], N(i)) ELSE Checked(p, ip, m)
      BY <2>1 DEF a0
    <3> QED BY <3>1, <3>2
  <2> QED BY <2>2
<1>5. after = F(after)
  BY <1>4
<1>6. QueuedInOrder(p, ip, em, after)
  <2> HIDE DEF after, em
  <2>1. \A i \in 0 .. m : after[i] = IF i > 0 THEN EnqueueAddress(after[i - 1], NewEvent(p, em, i))
                                     ELSE Checked(p, ip, m)
    BY <1>5
  <2> QED BY <1>3, <2>1 DEF QueuedInOrder
<1> HIDE DEF after
<1> QED BY <1>1, <1>2, <1>6

Numbered == [p \in Paths |-> addressDisk.states[p].sequence]

LogSound ==
    /\ IsFiniteSet(addressLog.events)
    /\ \A e \in addressLog.events : e.id <= addressLog.count
    /\ \A e, f \in addressLog.events : e.id = f.id => e = f
    /\ \A p \in Paths : addressDisk.states[p].sequence <= addressLog.count

\* The store d with k of the events of a check queued, for any set K of what is known.
Stage(p, ip, em, K, d, k) ==
    LET n == [Numbered EXCEPT ![p] = @ + k] IN
    /\ d \in DiskType
    /\ d.configuration = addressDisk.configuration
    /\ d.states = Checked(p, ip, Len(em)).states
    /\ QueueSound(d, addressLog.events \cup {NewEvent(p, em, i) : i \in 1 .. k}, n)
    /\ GapsSound(d, n)
    /\ \A q \in Paths : addressDisk.gaps[q] # NoAddressGap =>
          d.gaps[q].id = addressDisk.gaps[q].id /\ d.gaps[q].first = addressDisk.gaps[q].first
    /\ \A f \in AddressEvent : Covered(addressDisk, f) => Covered(d, f)
    /\ \A i \in 1 .. k : Covered(d, NewEvent(p, em, i))
    /\ TailKnown(addressDisk, Numbered, K) /\ HolesKnown(addressDisk.gaps, K) =>
          TailKnown(d, n, K) /\ HolesKnown(d.gaps, K)

ObserveReady ==
    /\ addressDisk \in DiskType
    /\ addressLog \in [events : SUBSET AddressEvent, count : Count]
    /\ LogSound
    /\ QueueSound(addressDisk, addressLog.events, Numbered) /\ GapsSound(addressDisk, Numbered)

LEMMA NewEventType ==
  ASSUME ObserveReady, NEW p \in Paths, NEW ip \in IPs,
         addressLog.count + Len(Emitted(p, ip)) <= MaxAddressEvents
  PROVE  \A i \in 1 .. Len(Emitted(p, ip)) :
           LET e == NewEvent(p, Emitted(p, ip), i) IN
           /\ e \in AddressEvent
           /\ e.path = p /\ e.id = addressLog.count + i
           /\ e.sequence = addressDisk.states[p].sequence + i
<1> DEFINE em == Emitted(p, ip)
<1>1. Len(em) \in 0 .. 3 /\ \A i \in 1 .. Len(em) : em[i].kind \in Kinds /\ em[i].ip \in IPs
  BY EmittedShape DEF ObserveReady
<1>2. /\ addressLog.count \in Nat /\ addressDisk.states[p].sequence \in Nat
      /\ addressDisk.states[p].sequence <= addressLog.count
  BY DEF ObserveReady, LogSound, DiskType, PathState, Count
<1> HIDE DEF em
<1>3. ASSUME NEW i \in 1 .. Len(em), addressLog.count + Len(em) <= MaxAddressEvents
      PROVE  /\ NewEvent(p, em, i) \in AddressEvent
             /\ NewEvent(p, em, i).path = p /\ NewEvent(p, em, i).id = addressLog.count + i
             /\ NewEvent(p, em, i).sequence = addressDisk.states[p].sequence + i
  <2>1. addressLog.count + i \in EventId /\ addressDisk.states[p].sequence + i \in EventId
    <3> DEFINE c == addressLog.count
               q == addressDisk.states[p].sequence
               m == Len(em)
    <3>1. m \in Nat /\ c \in Nat /\ q \in Nat /\ q <= c /\ c + m <= MaxAddressEvents
      BY <1>1, <1>2, <1>3
    <3>2. i \in 1 .. m
      BY <1>3
    <3> HIDE DEF c, q, m
    <3>3. c + i \in EventId /\ q + i \in EventId
      BY <3>1, <3>2, AddressAssumption DEF EventId
    <3> QED BY <3>3 DEF c, q
  <2> QED BY <1>1, <1>3, <2>1 DEF NewEvent, AddressEvent
<1> QED BY <1>3 DEF em

LEMMA StageStep ==
  ASSUME ObserveReady, NEW p \in Paths, NEW ip \in IPs, NEW K, NEW k \in Nat,
         addressLog.count + Len(Emitted(p, ip)) <= MaxAddressEvents,
         k + 1 <= Len(Emitted(p, ip)), NEW d, Stage(p, ip, Emitted(p, ip), K, d, k)
  PROVE  Stage(p, ip, Emitted(p, ip), K, EnqueueAddress(d, NewEvent(p, Emitted(p, ip), k + 1)), k + 1)
<1> DEFINE em == Emitted(p, ip)
           e == NewEvent(p, em, k + 1)
           d2 == EnqueueAddress(d, e)
           E == addressLog.events \cup {NewEvent(p, em, i) : i \in 1 .. k}
           n == [Numbered EXCEPT ![p] = @ + k]
           n2 == [Numbered EXCEPT ![p] = @ + (k + 1)]
           P == Stage(p, ip, em, K, d2, k + 1)
<1> SUFFICES P OBVIOUS
<1>1. Len(em) \in 0 .. 3
  BY EmittedShape DEF ObserveReady
<1>2. \A i \in 1 .. k + 1 : NewEvent(p, em, i) \in AddressEvent
  BY <1>1, NewEventType
<1>3. e \in AddressEvent /\ e.path = p /\ e.sequence = addressDisk.states[p].sequence + (k + 1)
  <2>1. k + 1 \in 1 .. Len(em)
    BY <1>1
  <2> QED BY <2>1, NewEventType
<1>4. /\ addressLog.count \in Nat /\ addressDisk.states \in [Paths -> PathState]
      /\ \A q \in Paths : addressDisk.states[q].sequence \in Count
      /\ addressDisk.states[p].sequence \in Nat
      /\ addressDisk.states[p].sequence <= addressLog.count
  BY DEF ObserveReady, LogSound, DiskType, PathState, Count
<1>5. /\ d \in DiskType /\ QueueSound(d, E, n) /\ GapsSound(d, n)
      /\ d.configuration = addressDisk.configuration /\ d.states = Checked(p, ip, Len(em)).states
  BY DEF Stage
<1>6. /\ \A q \in Paths : addressDisk.gaps[q] # NoAddressGap =>
          d.gaps[q].id = addressDisk.gaps[q].id /\ d.gaps[q].first = addressDisk.gaps[q].first
      /\ \A f \in AddressEvent : Covered(addressDisk, f) => Covered(d, f)
      /\ \A i \in 1 .. k : Covered(d, NewEvent(p, em, i))
      /\ TailKnown(addressDisk, Numbered, K) /\ HolesKnown(addressDisk.gaps, K) =>
          TailKnown(d, n, K) /\ HolesKnown(d.gaps, K)
  BY DEF Stage
<1>7. n \in [Paths -> Count] /\ e.sequence = n[e.path] + 1 /\ n2 = [n EXCEPT ![e.path] = @ + 1]
  <2>1. addressDisk.states[p].sequence + k \in Count
    BY <1>1, <1>4, AddressAssumption DEF Count
  <2>2. n = [q \in Paths |-> IF q = p THEN addressDisk.states[p].sequence + k ELSE addressDisk.states[q].sequence]
    BY DEF Numbered
  <2>3. n2 = [q \in Paths |-> IF q = p THEN addressDisk.states[p].sequence + (k + 1)
                              ELSE addressDisk.states[q].sequence]
    BY DEF Numbered
  <2> HIDE DEF n, n2, e
  <2>4. n \in [Paths -> Count]
    BY <1>4, <2>1, <2>2
  <2>5. [n EXCEPT ![e.path] = @ + 1] = [q \in Paths |-> IF q = p THEN (addressDisk.states[p].sequence + k) + 1
                                                        ELSE addressDisk.states[q].sequence]
    BY <1>3, <2>2
  <2>6. (addressDisk.states[p].sequence + k) + 1 = addressDisk.states[p].sequence + (k + 1)
    BY <1>4
  <2>7. e.sequence = n[e.path] + 1
    BY <1>3, <1>4, <2>2
  <2> QED BY <2>3, <2>4, <2>5, <2>6, <2>7
<1>8. addressLog.events \cup {NewEvent(p, em, i) : i \in 1 .. k + 1} = E \cup {e}
  <2> HIDE DEF em
  <2>1. 1 .. k + 1 = (1 .. k) \cup {k + 1}
    OBVIOUS
  <2> QED BY <2>1
<1> HIDE DEF em, e, n, n2, E
<1>9. QueueSound(d2, E \cup {e}, n2)
  BY <1>3, <1>5, <1>7, EnqueueQueue
<1>10. /\ d2 \in DiskType /\ d2.configuration = d.configuration /\ d2.states = d.states
       /\ GapsSound(d2, n2)
       /\ \A q \in Paths : d.gaps[q] # NoAddressGap =>
                /\ d2.gaps[q].id = d.gaps[q].id /\ d2.gaps[q].first = d.gaps[q].first
  BY <1>3, <1>5, <1>7, EnqueueGaps
<1>11. Covered(d2, e) /\ \A f \in AddressEvent : Covered(d, f) => Covered(d2, f)
  BY <1>3, <1>5, <1>7, EnqueueCovers
<1>12. TailKnown(d, n, K) /\ HolesKnown(d.gaps, K) => TailKnown(d2, n2, K) /\ HolesKnown(d2.gaps, K)
  BY <1>3, <1>5, <1>7, EnqueueKnown
<1> HIDE DEF d2
<1>13. \A q \in Paths : addressDisk.gaps[q] # NoAddressGap =>
          d2.gaps[q].id = addressDisk.gaps[q].id /\ d2.gaps[q].first = addressDisk.gaps[q].first
  <2> SUFFICES ASSUME NEW q \in Paths, addressDisk.gaps[q] # NoAddressGap
               PROVE  d2.gaps[q].id = addressDisk.gaps[q].id /\ d2.gaps[q].first = addressDisk.gaps[q].first
    OBVIOUS
  <2>1. addressDisk.gaps[q].id >= 1
    BY DEF ObserveReady, GapsSound
  <2>2. d.gaps[q] # NoAddressGap
    BY <1>6, <2>1 DEF NoAddressGap
  <2> QED BY <1>6, <1>10, <2>2
<1>14. \A i \in 1 .. k + 1 : Covered(d2, NewEvent(p, em, i))
  <2> SUFFICES ASSUME NEW i \in 1 .. k + 1 PROVE Covered(d2, NewEvent(p, em, i))
    OBVIOUS
  <2>1. CASE i \in 1 .. k
    BY <1>2, <1>6, <1>11, <2>1
  <2>2. CASE i = k + 1
    BY <1>11, <2>2 DEF e
  <2> QED BY <2>1, <2>2
<1>15. \A f \in AddressEvent : Covered(addressDisk, f) => Covered(d2, f)
  BY <1>6, <1>11
<1>16. QueueSound(d2, addressLog.events \cup {NewEvent(p, em, i) : i \in 1 .. k + 1}, n2)
  BY <1>8, <1>9
<1> QED BY <1>5, <1>6, <1>10, <1>12, <1>13, <1>14, <1>15, <1>16 DEF Stage, n2

LEMMA StageFirst ==
  ASSUME ObserveReady, NEW p \in Paths, NEW ip \in IPs, NEW K,
         addressLog.count + Len(Emitted(p, ip)) <= MaxAddressEvents
  PROVE  Stage(p, ip, Emitted(p, ip), K, Checked(p, ip, Len(Emitted(p, ip))), 0)
<1> DEFINE em == Emitted(p, ip)
           d == Checked(p, ip, Len(em))
           n == [Numbered EXCEPT ![p] = @ + 0]
           E == addressLog.events \cup {NewEvent(p, em, i) : i \in 1 .. 0}
           P == Stage(p, ip, em, K, d, 0)
<1> SUFFICES P OBVIOUS
<1>1. Len(em) \in 0 .. 3
  BY EmittedShape DEF ObserveReady
<1>2. /\ addressLog.count \in Nat /\ addressDisk.states \in [Paths -> PathState]
      /\ addressDisk.states[p].sequence \in Nat
      /\ addressDisk.states[p].sequence <= addressLog.count /\ addressDisk \in DiskType
  BY DEF ObserveReady, LogSound, DiskType, PathState, Count
<1> HIDE DEF em
<1>3. d \in DiskType /\ d.configuration = addressDisk.configuration /\ d.queue = addressDisk.queue
      /\ d.gaps = addressDisk.gaps
  <2>1. addressDisk.states[p].sequence + Len(em) \in Count
    BY <1>1, <1>2, AddressAssumption DEF Count, em
  <2>2. [status |-> IF ip = NoIP THEN "failed" ELSE "confirmed",
         sequence |-> addressDisk.states[p].sequence + Len(em),
         ip |-> IF ip = NoIP THEN addressDisk.states[p].ip ELSE ip] \in PathState
    BY <1>2, <2>1 DEF PathState
  <2> QED BY <1>2, <2>2 DEF Checked, DiskType
<1>4. n = Numbered
  BY <1>2 DEF Numbered
<1>5. E = addressLog.events
  <2>1. 1 .. 0 = {} OBVIOUS
  <2> QED BY <2>1
<1>6. QueueSound(d, E, n) /\ GapsSound(d, n)
  <2> HIDE DEF d, E, n
  <2> QED BY <1>3, <1>4, <1>5 DEF ObserveReady, QueueSound, GapsSound
<1>7. \A f : Covered(addressDisk, f) <=> Covered(d, f)
  <2> HIDE DEF d
  <2> QED BY <1>3 DEF Covered
<1>8. TailKnown(addressDisk, Numbered, K) /\ HolesKnown(addressDisk.gaps, K) =>
          TailKnown(d, n, K) /\ HolesKnown(d.gaps, K)
  <2> HIDE DEF d, n
  <2> QED BY <1>3, <1>4 DEF TailKnown, HolesKnown, After, InQueue
<1>9. d.states = Checked(p, ip, Len(em)).states
  OBVIOUS
<1> HIDE DEF d
<1> QED BY <1>3, <1>6, <1>7, <1>8, <1>9 DEF Stage

LEMMA ObserveStage ==
  ASSUME ObserveReady, NEW p \in Paths, NEW ip \in IPs, Observe(p, ip), NEW K
  PROVE  LET em == Emitted(p, ip) IN
         /\ addressLog.count + Len(em) <= MaxAddressEvents
         /\ addressLog' = [events |-> addressLog.events \cup {NewEvent(p, em, i) : i \in 1 .. Len(em)},
                           count |-> addressLog.count + Len(em)]
         /\ Stage(p, ip, em, K, addressDisk', Len(em))
<1> DEFINE em == Emitted(p, ip)
           m == Len(em)
<1>1. m \in 0 .. 3
  BY EmittedShape DEF ObserveReady
<1>2. /\ addressLog.count + m <= MaxAddressEvents
      /\ addressLog' = [events |-> addressLog.events \cup {NewEvent(p, em, i) : i \in 1 .. m},
                        count |-> addressLog.count + m]
      /\ \E after : QueuedInOrder(p, ip, em, after) /\ addressDisk' = after[m]
  BY ObserveUnfolds DEF ObserveReady
<1>3. PICK after : QueuedInOrder(p, ip, em, after) /\ addressDisk' = after[m]
  BY <1>2
<1>4. Stage(p, ip, em, K, after[0], 0)
  BY <1>2, <1>3, StageFirst DEF QueuedInOrder
<1>5. ASSUME NEW k \in Nat, k + 1 <= m, Stage(p, ip, em, K, after[k], k)
      PROVE  Stage(p, ip, em, K, after[k + 1], k + 1)
  <2>1. after[k + 1] = EnqueueAddress(after[k], NewEvent(p, em, k + 1))
    <3>1. k + 1 \in 1 .. m /\ (k + 1) - 1 = k
      BY <1>1, <1>5
    <3> HIDE DEF em
    <3> QED BY <1>3, <3>1 DEF QueuedInOrder
  <2> QED BY <1>2, <1>5, <2>1, StageStep
<1> DEFINE S(k) == Stage(p, ip, em, K, after[k], k)
<1> HIDE DEF em, m
<1>6. 1 <= m => S(1)
  <2>1. 1 <= m => Stage(p, ip, em, K, after[0 + 1], 0 + 1)
    BY <1>1, <1>4, <1>5
  <2> QED BY <2>1
<1>7. 2 <= m => S(2)
  <2>1. 2 <= m => Stage(p, ip, em, K, after[1 + 1], 1 + 1)
    BY <1>1, <1>5, <1>6
  <2> QED BY <2>1
<1>8. 3 <= m => S(3)
  <2>1. 3 <= m => Stage(p, ip, em, K, after[2 + 1], 2 + 1)
    BY <1>1, <1>5, <1>7
  <2> QED BY <2>1
<1>9. S(0)
  BY <1>4
<1> HIDE DEF S
<1>10. S(m)
  BY <1>1, <1>6, <1>7, <1>8, <1>9
<1> QED BY <1>2, <1>3, <1>10 DEF S, em, m

\* Two events of a path have two numbers, none above those it has used.
LogNumbered ==
    /\ \A e, f \in addressLog.events : e.path = f.path /\ e.sequence = f.sequence => e = f
    /\ \A e \in addressLog.events : e.sequence <= addressDisk.states[e.path].sequence

LEMMA ObserveLog ==
  ASSUME ObserveReady, NEW p \in Paths, NEW ip \in IPs, Observe(p, ip)
  PROVE  LET em == Emitted(p, ip) IN
         /\ addressLog'.events = addressLog.events \cup {NewEvent(p, em, i) : i \in 1 .. Len(em)}
         /\ addressLog' \in [events : SUBSET AddressEvent, count : Count]
         /\ Numbered' = [Numbered EXCEPT ![p] = @ + Len(em)]
         /\ addressDisk' \in DiskType
         /\ LogSound' /\ (LogNumbered => LogNumbered')
<1> DEFINE em == Emitted(p, ip)
           m == Len(em)
           New == {NewEvent(p, em, i) : i \in 1 .. m}
           P == /\ addressLog'.events = addressLog.events \cup New
                /\ addressLog' \in [events : SUBSET AddressEvent, count : Count]
                /\ Numbered' = [Numbered EXCEPT ![p] = @ + Len(em)]
                /\ addressDisk' \in DiskType
                /\ LogSound' /\ (LogNumbered => LogNumbered')
<1> SUFFICES P OBVIOUS
<1>1. m \in 0 .. 3
  BY EmittedShape DEF ObserveReady
<1>2. /\ addressLog.count + m <= MaxAddressEvents
      /\ addressLog' = [events |-> addressLog.events \cup New, count |-> addressLog.count + m]
      /\ Stage(p, ip, em, {}, addressDisk', m)
  BY ObserveStage
<1>3. \A i \in 1 .. m : /\ NewEvent(p, em, i) \in AddressEvent /\ NewEvent(p, em, i).path = p
                         /\ NewEvent(p, em, i).id = addressLog.count + i
                         /\ NewEvent(p, em, i).sequence = addressDisk.states[p].sequence + i
  BY <1>2, NewEventType
<1>4. /\ addressLog.events \subseteq AddressEvent /\ addressLog.count \in Nat
      /\ addressDisk.states \in [Paths -> PathState]
      /\ \A q \in Paths : addressDisk.states[q].sequence \in Nat
                          /\ addressDisk.states[q].sequence <= addressLog.count
      /\ IsFiniteSet(addressLog.events)
      /\ \A e \in addressLog.events : e.id <= addressLog.count
      /\ \A e, f \in addressLog.events : e.id = f.id => e = f
  BY DEF ObserveReady, LogSound, DiskType, PathState, Count
<1>5. \A e \in AddressEvent : e.id \in Nat /\ e.path \in Paths /\ e.sequence \in Nat
  BY DEF AddressEvent, EventId
<1> HIDE DEF em
<1>6. /\ addressDisk' \in DiskType
      /\ addressDisk'.states = [addressDisk.states EXCEPT
                 ![p] = [status |-> IF ip = NoIP THEN "failed" ELSE "confirmed",
                         sequence |-> @.sequence + m, ip |-> IF ip = NoIP THEN @.ip ELSE ip]]
  <2>1. addressDisk' \in DiskType /\ addressDisk'.states = Checked(p, ip, m).states
    BY <1>2 DEF Stage
  <2>2. addressDisk \in DiskType BY DEF ObserveReady
  <2> QED BY <2>1, <2>2 DEF Checked, DiskType
<1>7. \A q \in Paths : addressDisk'.states[q].sequence =
          IF q = p THEN addressDisk.states[q].sequence + m ELSE addressDisk.states[q].sequence
  BY <1>4, <1>6
<1>8. Numbered' = [Numbered EXCEPT ![p] = @ + m]
  BY <1>7 DEF Numbered
<1>9. addressLog'.events = addressLog.events \cup New /\ addressLog'.count = addressLog.count + m
      /\ addressLog' \in [events : SUBSET AddressEvent, count : Count]
  <2>1. New \subseteq AddressEvent BY <1>3
  <2>2. addressLog.count + m \in Count BY <1>1, <1>2, <1>4, AddressAssumption DEF Count
  <2> HIDE DEF New, m
  <2> QED BY <1>2, <1>4, <2>1, <2>2
<1>10. IsFiniteSet(New)
  <2> DEFINE g == [i \in 1 .. m |-> NewEvent(p, em, i)]
  <2>1. g \in Surjection(1 .. m, New)
    BY DEF Surjection
  <2>2. IsFiniteSet(1 .. m)
    BY <1>1, FS_Interval
  <2> HIDE DEF g, New
  <2> QED BY <2>1, <2>2, FS_Surjection
<1>11. \A e \in New : \E i \in 1 .. m : e.id = addressLog.count + i /\ e.path = p
                        /\ e.sequence = addressDisk.states[p].sequence + i /\ e = NewEvent(p, em, i)
  BY <1>3
<1>12. \A i, j \in 1 .. m : /\ addressLog.count + i = addressLog.count + j => i = j
                            /\ addressDisk.states[p].sequence + i = addressDisk.states[p].sequence + j => i = j
  <2> DEFINE c == addressLog.count
             q == addressDisk.states[p].sequence
  <2>1. c \in Nat /\ q \in Nat /\ m \in Nat
    BY <1>1, <1>4
  <2> HIDE DEF c, q, m
  <2>2. \A i, j \in 1 .. m : (c + i = c + j => i = j) /\ (q + i = q + j => i = j)
    BY <2>1
  <2> QED BY <2>2 DEF c, q
<1>13. LogSound'
  <2>1. IsFiniteSet(addressLog'.events)
    <3> HIDE DEF New
    <3>1. IsFiniteSet(addressLog.events)
      BY <1>4
    <3>2. IsFiniteSet(addressLog.events \cup New)
      BY <1>10, <3>1, FS_Union
    <3> QED BY <1>9, <3>2
  <2> HIDE DEF New, m
  <2>2. \A e \in addressLog'.events : e.id <= addressLog'.count
    BY <1>1, <1>4, <1>5, <1>9, <1>11
  <2>3. ASSUME NEW e \in addressLog'.events, NEW f \in addressLog'.events, e.id = f.id PROVE e = f
    <3>1. CASE e \in New /\ f \in New
      <4>1. PICK i \in 1 .. m : e.id = addressLog.count + i /\ e = NewEvent(p, em, i) BY <1>11, <3>1
      <4>2. PICK j \in 1 .. m : f.id = addressLog.count + j /\ f = NewEvent(p, em, j) BY <1>11, <3>1
      <4>3. i = j BY <1>12, <2>3, <4>1, <4>2
      <4> QED BY <4>1, <4>2, <4>3
    <3>2. \A a \in addressLog.events, b \in New : a.id # b.id
      BY <1>1, <1>4, <1>5, <1>11
    <3> QED BY <1>4, <1>9, <2>3, <3>1, <3>2
  <2>4. \A q \in Paths : addressDisk'.states[q].sequence <= addressLog'.count
    BY <1>1, <1>4, <1>7, <1>9
  <2> QED BY <2>1, <2>2, <2>3, <2>4 DEF LogSound
<1>14. ASSUME LogNumbered PROVE LogNumbered'
  <2> HIDE DEF New, m
  <2>1. \A e \in addressLog'.events : e.sequence <= addressDisk'.states[e.path].sequence
    <3>1. \A e \in addressLog.events : e.sequence <= addressDisk.states[e.path].sequence
      BY <1>14 DEF LogNumbered
    <3> QED BY <1>1, <1>4, <1>5, <1>7, <1>9, <1>11, <3>1
  <2>2. ASSUME NEW e \in addressLog'.events, NEW f \in addressLog'.events,
               e.path = f.path, e.sequence = f.sequence
        PROVE  e = f
    <3>1. CASE e \in New /\ f \in New
      <4>1. PICK i \in 1 .. m : e.sequence = addressDisk.states[p].sequence + i /\ e = NewEvent(p, em, i)
        BY <1>11, <3>1
      <4>2. PICK j \in 1 .. m : f.sequence = addressDisk.states[p].sequence + j /\ f = NewEvent(p, em, j)
        BY <1>11, <3>1
      <4>3. i = j BY <1>12, <2>2, <4>1, <4>2
      <4> QED BY <4>1, <4>2, <4>3
    <3>2. ASSUME NEW a \in addressLog.events, NEW b \in New, a.path = b.path PROVE a.sequence # b.sequence
      <4>1. a.sequence <= addressDisk.states[a.path].sequence BY <1>14 DEF LogNumbered
      <4>2. PICK i \in 1 .. m : b.sequence = addressDisk.states[p].sequence + i /\ b.path = p BY <1>11
      <4> QED BY <1>1, <1>4, <1>5, <3>2, <4>1, <4>2
    <3>3. e \in addressLog.events /\ f \in addressLog.events => e = f
      BY <1>14, <2>2 DEF LogNumbered
    <3> QED BY <1>9, <2>2, <3>1, <3>2, <3>3
  <2> QED BY <2>1, <2>2 DEF LogNumbered
<1> HIDE DEF New
<1> QED BY <1>6, <1>8, <1>9, <1>13, <1>14

\* As many events of entering as of leaving an address, and one more while a path holds it.
OfKind(E, ip, kinds) == {e \in E : e.ip = ip /\ e.kind \in kinds}
Balanced ==
    \A ip \in PublicIPs :
        Cardinality(OfKind(addressLog.events, ip, Entering))
          - Cardinality(OfKind(addressLog.events, ip, Leaving)) = IF Holders(ip) = {} THEN 0 ELSE 1

\* The new events of E2 are those of New, one for each step of em.
GrowsBy(E, E2, em, New) ==
    /\ IsFiniteSet(E) /\ E \subseteq E2
    /\ \A i \in 1 .. Len(em) : /\ New[i] \in E2 \ E
                              /\ New[i].ip = em[i].ip /\ New[i].kind = em[i].kind
    /\ \A x \in E2 : x \in E \/ \E i \in 1 .. Len(em) : x = New[i]

LEMMA OfKindGrows ==
  ASSUME NEW E, NEW E2, NEW em, NEW New, GrowsBy(E, E2, em, New), NEW a, NEW kinds
  PROVE  /\ Cardinality(OfKind(E, a, kinds)) \in Nat
         /\ Selected(em, a, kinds) = {} =>
              Cardinality(OfKind(E2, a, kinds)) = Cardinality(OfKind(E, a, kinds))
         /\ (\E j \in 1 .. Len(em) : Selected(em, a, kinds) = {j}) =>
              Cardinality(OfKind(E2, a, kinds)) = Cardinality(OfKind(E, a, kinds)) + 1
<1> DEFINE S == OfKind(E, a, kinds)
           S2 == OfKind(E2, a, kinds)
<1>1. IsFiniteSet(S)
  <2>1. S \subseteq E /\ IsFiniteSet(E) BY DEF OfKind, GrowsBy
  <2> QED BY <2>1, FS_Subset
<1>2. S2 = S \cup {New[i] : i \in Selected(em, a, kinds)}
  <2>1. ASSUME NEW x \in S2 PROVE x \in S \cup {New[i] : i \in Selected(em, a, kinds)}
    <3>1. CASE x \in E BY <3>1 DEF OfKind
    <3>2. ASSUME NEW i \in 1 .. Len(em), x = New[i] PROVE x \in {New[k] : k \in Selected(em, a, kinds)}
      <4>1. i \in Selected(em, a, kinds)
        BY <3>2 DEF OfKind, Selected, GrowsBy
      <4> QED BY <3>2, <4>1
    <3> QED BY <3>1, <3>2 DEF OfKind, GrowsBy
  <2>2. ASSUME NEW i \in Selected(em, a, kinds) PROVE New[i] \in S2
    <3>1. i \in 1 .. Len(em) /\ em[i].ip = a /\ em[i].kind \in kinds BY DEF Selected
    <3> QED BY <3>1 DEF OfKind, GrowsBy
  <2>3. S \subseteq S2 BY DEF OfKind, GrowsBy
  <2> QED BY <2>1, <2>2, <2>3
<1>3. Selected(em, a, kinds) = {} => Cardinality(S2) = Cardinality(S)
  <2> HIDE DEF S, S2
  <2>1. Selected(em, a, kinds) = {} => S2 = S BY <1>2
  <2> QED BY <2>1
<1>4. ASSUME NEW j \in 1 .. Len(em), Selected(em, a, kinds) = {j} PROVE Cardinality(S2) = Cardinality(S) + 1
  <2>1. New[j] \notin S BY DEF OfKind, GrowsBy
  <2> HIDE DEF S, S2
  <2>2. S2 = S \cup {New[j]} BY <1>2, <1>4
  <2> QED BY <1>1, <2>1, <2>2, FS_AddElement
<1>5. Cardinality(S) \in Nat
  BY <1>1, FS_CardinalityType
<1> QED BY <1>3, <1>4, <1>5

LEMMA ObserveBalance ==
  ASSUME ObserveReady, NEW p \in Paths, NEW ip \in IPs, Observe(p, ip), Balanced
  PROVE  Balanced'
<1> DEFINE em == Emitted(p, ip)
           m == Len(em)
           New == [i \in 1 .. m |-> NewEvent(p, em, i)]
           held == addressDisk.states[p].ip
<1>1. /\ m \in 0 .. 3
      /\ \A a \in PublicIPs :
              /\ IF a = ip /\ Holders(a) = {} THEN \E j \in 1 .. m : Selected(em, a, Entering) = {j}
                 ELSE Selected(em, a, Entering) = {}
              /\ IF ip # NoIP /\ a = held /\ a # ip /\ Holders(a) = {p}
                 THEN \E j \in 1 .. m : Selected(em, a, Leaving) = {j}
                 ELSE Selected(em, a, Leaving) = {}
  BY EmittedShape DEF ObserveReady
<1>2. /\ addressLog.count + m <= MaxAddressEvents
      /\ addressLog'.events = addressLog.events \cup {New[i] : i \in 1 .. m}
      /\ Stage(p, ip, em, {}, addressDisk', m)
  <2>1. {New[i] : i \in 1 .. m} = {NewEvent(p, em, i) : i \in 1 .. m}
    OBVIOUS
  <2> HIDE DEF New
  <2> QED BY <2>1, ObserveStage, ObserveLog
<1>3. \A i \in 1 .. m : New[i] \notin addressLog.events
  <2> SUFFICES ASSUME NEW i \in 1 .. m, New[i] \in addressLog.events PROVE FALSE
    OBVIOUS
  <2>1. New[i].id = addressLog.count + i
    BY <1>2, NewEventType
  <2>2. New[i].id <= addressLog.count /\ addressLog.count \in Nat
    BY DEF ObserveReady, LogSound, Count
  <2> HIDE DEF New, em
  <2>3. i \in Nat /\ i >= 1 BY <1>1
  <2> QED BY <2>1, <2>2, <2>3
<1>4. \A i \in 1 .. m : New[i].ip = em[i].ip /\ New[i].kind = em[i].kind
  BY DEF NewEvent
<1>5. \A q \in Paths : addressDisk'.states[q].ip =
                          IF q = p /\ ip # NoIP THEN ip ELSE addressDisk.states[q].ip
  <2>1. addressDisk'.states = Checked(p, ip, m).states /\ addressDisk \in DiskType
    BY <1>2 DEF Stage, ObserveReady
  <2>2. addressDisk'.states = [addressDisk.states EXCEPT
                 ![p] = [status |-> IF ip = NoIP THEN "failed" ELSE "confirmed",
                         sequence |-> @.sequence + m, ip |-> IF ip = NoIP THEN @.ip ELSE ip]]
    BY <2>1 DEF Checked, DiskType
  <2>3. addressDisk.states \in [Paths -> PathState]
    BY <2>1 DEF DiskType
  <2> HIDE DEF em
  <2> QED BY <2>2, <2>3
<1>6. IsFiniteSet(addressLog.events)
  BY DEF ObserveReady, LogSound
<1> HIDE DEF em, New, m
<1>7. \A a, kinds :
        /\ Cardinality(OfKind(addressLog.events, a, kinds)) \in Nat
        /\ Selected(em, a, kinds) = {} =>
              Cardinality(OfKind(addressLog'.events, a, kinds)) = Cardinality(OfKind(addressLog.events, a, kinds))
        /\ (\E j \in 1 .. m : Selected(em, a, kinds) = {j}) =>
              Cardinality(OfKind(addressLog'.events, a, kinds)) = Cardinality(OfKind(addressLog.events, a, kinds)) + 1
  <2>1. GrowsBy(addressLog.events, addressLog'.events, em, New)
    BY <1>2, <1>3, <1>4, <1>6 DEF GrowsBy, m
  <2> QED BY <2>1, OfKindGrows DEF m
<1> SUFFICES ASSUME NEW a \in PublicIPs
             PROVE  Cardinality(OfKind(addressLog'.events, a, Entering))
                      - Cardinality(OfKind(addressLog'.events, a, Leaving))
                        = IF Holders(a)' = {} THEN 0 ELSE 1
  BY DEF Balanced
<1> DEFINE in == Cardinality(OfKind(addressLog.events, a, Entering))
           out == Cardinality(OfKind(addressLog.events, a, Leaving))
           in2 == Cardinality(OfKind(addressLog'.events, a, Entering))
           out2 == Cardinality(OfKind(addressLog'.events, a, Leaving))
<1>8. in \in Nat /\ in2 = IF a = ip /\ Holders(a) = {} THEN in + 1 ELSE in
  BY <1>1, <1>7
<1>9. out \in Nat /\ out2 = IF ip # NoIP /\ a = held /\ a # ip /\ Holders(a) = {p} THEN out + 1 ELSE out
  BY <1>1, <1>7
<1>10. in - out = IF Holders(a) = {} THEN 0 ELSE 1
  BY DEF Balanced
<1>11. a # NoIP
  BY AddressAssumption DEF NoIP
<1>12. Holders(a)' = IF ip = NoIP THEN Holders(a)
                     ELSE IF a = ip THEN Holders(a) \cup {p} ELSE Holders(a) \ {p}
  BY <1>5, <1>11 DEF Holders
<1>13. p \in Holders(a) <=> held = a
  BY DEF Holders
<1> HIDE DEF in, out, in2, out2, held
<1>14. CASE ip = NoIP
  BY <1>8, <1>9, <1>10, <1>11, <1>12, <1>14 DEF in2, out2
<1>15. CASE ip # NoIP /\ a = ip
  <2>1. Holders(a)' # {} BY <1>12, <1>15
  <2>2. out2 = out BY <1>9, <1>15
  <2>3. CASE Holders(a) = {}
    BY <1>8, <1>9, <1>10, <1>15, <2>1, <2>2, <2>3 DEF in2, out2
  <2>4. CASE Holders(a) # {}
    BY <1>8, <1>9, <1>10, <1>15, <2>1, <2>2, <2>4 DEF in2, out2
  <2> QED BY <2>3, <2>4
<1>16. CASE ip # NoIP /\ a # ip
  <2>1. in2 = in /\ Holders(a)' = Holders(a) \ {p} BY <1>8, <1>12, <1>16
  <2>2. CASE Holders(a) = {p}
    <3>1. Holders(a)' = {} /\ Holders(a) # {} /\ a = held BY <1>13, <2>1, <2>2
    <3> QED BY <1>8, <1>9, <1>10, <1>16, <2>1, <2>2, <3>1 DEF in2, out2
  <2>3. CASE Holders(a) # {p}
    <3>1. Holders(a)' = {} <=> Holders(a) = {} BY <2>1, <2>3
    <3> QED BY <1>8, <1>9, <1>10, <2>1, <2>3, <3>1 DEF in2, out2
  <2> QED BY <2>2, <2>3
<1> QED BY <1>14, <1>15, <1>16

-----------------------------------------------------------------------------
(* Ingest                                                                  *)

CenterType == [configuration : Configuration, known : SUBSET PublicIPs, at : [Paths -> IPs],
               events : SUBSET [event : AddressEvent, of : PublicIPs],
               gaps : SUBSET [path : Paths, gap : AddressGap],
               unattributed : SUBSET EventId,
               rows : SUBSET Paths, deleting : SUBSET Paths]

\* The addresses are reconciled first; what was observed stays as it is.
LEMMA FirstCommitKeeps ==
  ASSUME NEW c \in CenterType, NEW u \in Upload
  PROVE  LET c1 == FirstCommit(c, u) IN
         /\ c1 \in CenterType /\ c1.configuration = c.configuration
         /\ c1.events = c.events /\ c1.gaps = c.gaps /\ c1.unattributed = c.unattributed
         /\ c1.rows = c.rows /\ c1.deleting = c.deleting
<1>1. {u.ips[p] : p \in Paths} \ {NoIP} \subseteq PublicIPs
  BY DEF Upload, IPs
<1>2. [p \in Paths |-> IF u.ips[p] = NoIP THEN c.at[p] ELSE u.ips[p]] \in [Paths -> IPs]
  BY DEF Upload, CenterType
<1>3. CASE FirstCommit(c, u) = c
  BY <1>3
<1>4. CASE FirstCommit(c, u) =
             [c EXCEPT !.known = @ \cup ({u.ips[p] : p \in Paths} \ {NoIP}),
                       !.at = [p \in Paths |-> IF u.ips[p] = NoIP THEN @[p] ELSE u.ips[p]]]
  <2> DEFINE k == {u.ips[p] : p \in Paths} \ {NoIP}
             a == [p \in Paths |-> IF u.ips[p] = NoIP THEN c.at[p] ELSE u.ips[p]]
  <2>1. FirstCommit(c, u) = [c EXCEPT !.known = @ \cup k, !.at = a]
    BY <1>4
  <2> HIDE DEF k, a
  <2>2. k \subseteq PublicIPs /\ a \in [Paths -> IPs]
    BY <1>1, <1>2 DEF k, a
  <2> QED BY <2>1, <2>2 DEF CenterType
<1> QED BY <1>3, <1>4 DEF FirstCommit, Reconciled

\* An event with an address is stored with that address or not at all.
LEMMA AttributionSound ==
  ASSUME NEW c \in CenterType, NEW e \in AddressEvent
  PROVE  /\ Attribution(c, e) \in IPs
         /\ e.ip # NoIP => Attribution(c, e) \in {e.ip, NoIP}
BY DEF Attribution, CenterType, AddressEvent, IPs

LEMMA StoredGrows ==
  ASSUME NEW c \in CenterType, NEW u \in Upload
  PROVE  LET c2 == Stored(c, u) IN
         /\ c2 \in CenterType /\ c2.configuration = c.configuration
         /\ c2.rows = c.rows /\ c2.deleting = c.deleting
         /\ c.events \subseteq c2.events /\ c.gaps \subseteq c2.gaps /\ c.unattributed \subseteq c2.unattributed
         /\ \A s \in c2.events :
               s \in c.events \/ (s.event \in u.events /\ (s.event.ip # NoIP => s.of = s.event.ip))
         /\ u.generation = c.configuration.generation =>
               /\ \A e \in u.events : e.path \in ActivePaths(c) =>
                     e.id \in c2.unattributed \/ \E s \in c2.events : s.event = e
               /\ \A p \in ActivePaths(c) : u.gaps[p] # NoAddressGap =>
                     [path |-> p, gap |-> u.gaps[p]] \in c2.gaps
<1>1. CASE u.generation # c.configuration.generation
  BY <1>1 DEF Stored
<1>2. CASE u.generation = c.configuration.generation
  <2> DEFINE A == Attributed(c, u)
             new == {s \in A : s.of # NoIP}
             lost == {s.event.id : s \in {t \in A : t.of = NoIP}}
             gaps == {g \in {[path |-> p, gap |-> u.gaps[p]] : p \in ActivePaths(c)} : g.gap # NoAddressGap}
             c2 == [c EXCEPT !.events = @ \cup new, !.unattributed = @ \cup lost, !.gaps = @ \cup gaps]
  <2>1. Stored(c, u) = c2
    BY <1>2 DEF Stored
  <2>2. u.events \subseteq AddressEvent /\ u.gaps \in [Paths -> AddressGap]
    BY DEF Upload
  <2>3. \A e \in AddressEvent : Attribution(c, e) \in IPs /\ (e.ip # NoIP => Attribution(c, e) \in {e.ip, NoIP})
    BY AttributionSound
  <2>4. ASSUME NEW s \in A
        PROVE  /\ s.event \in u.events /\ s.event \in AddressEvent /\ s.of = Attribution(c, s.event)
               /\ s = [event |-> s.event, of |-> s.of]
    <3>1. PICK e \in u.events : s = [event |-> e, of |-> Attribution(c, e)]
      BY DEF Attributed
    <3> QED BY <2>2, <3>1
  <2>5. \A e \in u.events : e.path \in ActivePaths(c) => [event |-> e, of |-> Attribution(c, e)] \in A
    BY DEF Attributed
  <2> HIDE DEF A
  <2>6. new \subseteq [event : AddressEvent, of : PublicIPs]
    <3> SUFFICES ASSUME NEW s \in new PROVE s \in [event : AddressEvent, of : PublicIPs]
      OBVIOUS
    <3>1. s \in A /\ s.of # NoIP OBVIOUS
    <3>2. s.event \in AddressEvent /\ s.of \in PublicIPs /\ s = [event |-> s.event, of |-> s.of]
      BY <2>3, <2>4, <3>1 DEF IPs
    <3> QED BY <3>2
  <2>7. lost \subseteq EventId
    BY <2>4 DEF AddressEvent
  <2>8. gaps \subseteq [path : Paths, gap : AddressGap]
    <3>1. ActivePaths(c) \subseteq Paths BY DEF ActivePaths, CenterType
    <3> QED BY <2>2, <3>1
  <2>9. \A s \in new : s.event \in u.events /\ (s.event.ip # NoIP => s.of = s.event.ip)
    BY <2>3, <2>4
  <2>10. \A e \in u.events : e.path \in ActivePaths(c) => e.id \in lost \/ \E s \in new : s.event = e
    <3> SUFFICES ASSUME NEW e \in u.events, e.path \in ActivePaths(c)
                 PROVE  e.id \in lost \/ \E s \in new : s.event = e
      OBVIOUS
    <3> DEFINE s == [event |-> e, of |-> Attribution(c, e)]
    <3>1. s \in A /\ s.event = e BY <2>5
    <3> QED BY <3>1
  <2>11. \A p \in ActivePaths(c) : u.gaps[p] # NoAddressGap => [path |-> p, gap |-> u.gaps[p]] \in gaps
    <3> SUFFICES ASSUME NEW p \in ActivePaths(c), u.gaps[p] # NoAddressGap
                 PROVE  [path |-> p, gap |-> u.gaps[p]] \in gaps
      OBVIOUS
    <3>1. [path |-> p, gap |-> u.gaps[p]].gap # NoAddressGap OBVIOUS
    <3> QED BY <3>1
  <2> HIDE DEF new, lost, gaps
  <2>12. /\ c2 \in CenterType /\ c2.configuration = c.configuration
         /\ c2.rows = c.rows /\ c2.deleting = c.deleting
         /\ c2.events = c.events \cup new /\ c2.gaps = c.gaps \cup gaps
         /\ c2.unattributed = c.unattributed \cup lost
    BY <2>6, <2>7, <2>8 DEF CenterType
  <2> HIDE DEF c2
  <2> QED BY <2>1, <2>9, <2>10, <2>11, <2>12
<1> QED BY <1>1, <1>2

\* What a poll, in time or late, does to the Center.
LEMMA ServedSound ==
  ASSUME NEW c \in CenterType, NEW u \in Upload, NEW o \in Served(c, u)
  PROVE  LET c2 == o.center IN
         /\ c2 \in CenterType /\ c2.configuration = c.configuration
         /\ c2.rows = c.rows /\ c2.deleting = c.deleting
         /\ c.events \subseteq c2.events /\ c.gaps \subseteq c2.gaps /\ c.unattributed \subseteq c2.unattributed
         /\ \A s \in c2.events :
               s \in c.events \/ (s.event \in u.events /\ (s.event.ip # NoIP => s.of = s.event.ip))
         /\ o.answer = "accepted" /\ u.generation = c.configuration.generation =>
               /\ \A e \in u.events : e.path \in ActivePaths(c) =>
                     e.id \in c2.unattributed \/ \E s \in c2.events : s.event = e
               /\ \A p \in ActivePaths(c) : u.gaps[p] # NoAddressGap =>
                     [path |-> p, gap |-> u.gaps[p]] \in c2.gaps
         /\ o.answer \in {"accepted", "refused", "error", "failed"}
         /\ o.answer = "refused" => AddressesRefused(c, u)
<1> DEFINE c1 == FirstCommit(c, u)
           failed == [center |-> c1, answer |-> IF AddressesRefused(c, u) THEN "refused"
                                                ELSE IF Dangling(c, u) THEN "error" ELSE "failed"]
           done == [center |-> Stored(c1, u), answer |-> "accepted"]
<1>1. o = failed \/ o = done
  BY DEF Served
<1>2. /\ c1 \in CenterType /\ c1.configuration = c.configuration
      /\ c1.events = c.events /\ c1.gaps = c.gaps /\ c1.unattributed = c.unattributed
      /\ c1.rows = c.rows /\ c1.deleting = c.deleting
  BY FirstCommitKeeps
<1>3. ActivePaths(c1) = ActivePaths(c)
  <2> HIDE DEF c1
  <2> QED BY <1>2 DEF ActivePaths
<1> HIDE DEF c1
<1>4. CASE o = failed
  BY <1>2, <1>4
<1>5. CASE o = done
  <2>1. o.center = Stored(c1, u) /\ o.answer = "accepted"
    BY <1>5
  <2> QED BY <1>2, <1>3, <2>1, StoredGrows
<1> QED BY <1>1, <1>4, <1>5

-----------------------------------------------------------------------------
(* The inductive invariant                                                 *)

QueueAndGaps == QueueSound(addressDisk, addressLog.events, Numbered) /\ GapsSound(addressDisk, Numbered)

\* The Agent applies what the Center has drawn.
Configurations ==
    /\ addressDisk.configuration.generation <= addressDisk.configuration.revision
    /\ addressCenter.configuration.generation <= addressCenter.configuration.revision
    /\ addressDisk.configuration.revision <= addressCenter.configuration.revision
    /\ addressDisk.configuration.generation <= addressCenter.configuration.generation

\* An upload under way is of the generation of the disk, and of the gap it has.
Uploading ==
    /\ addressSent # NoUpload => addressSent.generation = addressDisk.configuration.generation
    /\ addressAnswer = "configure" => addressSent = NoUpload
    /\ addressAnswer = "accepted" => addressSent # NoUpload
    /\ addressSent.events \subseteq addressLog.events
    /\ \A p \in Paths : addressSent.gaps[p] # NoAddressGap =>
            /\ 1 <= addressSent.gaps[p].id
            /\ addressDisk.gaps[p].id = addressSent.gaps[p].id
            /\ addressDisk.gaps[p].first = addressSent.gaps[p].first

\* What was accepted is there, until the answer is read.
AcceptedStored ==
    addressAnswer = "accepted" /\ SameGeneration =>
        /\ \A e \in addressSent.events : e.path \in ActivePaths(addressCenter) => AtCenter(e)
        /\ \A p \in ActivePaths(addressCenter) : addressSent.gaps[p] # NoAddressGap =>
              [path |-> p, gap |-> addressSent.gaps[p]] \in addressCenter.gaps

\* What EveryAddressEventAccounted says besides the types.
Accounted ==
    SameGeneration =>
        \A e \in {f \in addressLog.events : f.path \in ActivePaths(addressCenter)} :
            \/ Covered(addressDisk, e)
            \/ AtCenter(e)
            \/ \E g \in addressCenter.gaps : g.path = e.path /\ e.sequence \in g.gap.first .. g.gap.last

\* As long as nobody changes the configuration, nothing is given up: what the Center and
\* late polls have was recorded, and what is neither queued nor lost to the gap is known.
KnownEvents == {<<e.path, e.sequence>> : e \in {f \in addressLog.events : AtCenter(f)}}
FirstConfigured ==
    /\ addressCenter.configuration = FirstConfiguration /\ addressDisk.configuration = FirstConfiguration
    /\ addressCenter.rows = Paths /\ addressCenter.deleting = {}
FromLog ==
    /\ \A u \in addressLate : u.events \subseteq addressLog.events
    /\ \A s \in addressCenter.events :
          s.event \in addressLog.events /\ (s.event.ip # NoIP => s.of = s.event.ip)
LossesKnown ==
    /\ TailKnown(addressDisk, Numbered, KnownEvents)
    /\ HolesKnown(addressDisk.gaps, KnownEvents) /\ HolesKnown(addressSent.gaps, KnownEvents)
Unchanging == ~Reconfigured => FirstConfigured /\ LogNumbered /\ FromLog /\ LossesKnown

AddressInductive ==
    /\ AddressTypeOK /\ QueueAndGaps /\ Configurations /\ Uploading /\ LogSound
    /\ AcceptedStored /\ Accounted /\ Unchanging /\ AddressRefusals /\ SetEventsBalance

LEMMA AddressTypes ==
  AddressTypeOK <=>
    /\ addressDisk \in DiskType
    /\ \A p \in Paths : Cardinality({e \in addressDisk.queue : e.path = p}) <= MaxPathEvents
    /\ addressCheck \in {NoCheck} \cup [path : Paths, revision : 1 .. MaxAddressRevisions]
    /\ addressSent \in Upload /\ addressLate \subseteq Upload
    /\ addressAnswer \in {"none", "accepted", "refused", "error", "failed", "configure"}
    /\ addressCenter \in CenterType
    /\ addressLog \in [events : SUBSET AddressEvent, count : Count]
BY DEF AddressTypeOK, DiskType, CenterType

LEMMA NoUploadType == NoUpload \in Upload /\ NoAddressGap \in AddressGap
<1>1. 0 \in Count BY AddressAssumption DEF Count
<1>2. NoAddressGap \in AddressGap BY <1>1 DEF NoAddressGap, AddressGap
<1>3. 0 \in 0 .. MaxAddressRevisions BY AddressAssumption
<1>4. NoIP \in IPs BY DEF IPs
<1> QED BY <1>2, <1>3, <1>4 DEF NoUpload, Upload

\* Knowing more, or losing the same.
LEMMA KnownMore ==
  ASSUME NEW d, NEW n, NEW gaps, NEW K, NEW K2, K \subseteq K2
  PROVE  /\ TailKnown(d, n, K) => TailKnown(d, n, K2)
         /\ HolesKnown(gaps, K) => HolesKnown(gaps, K2)
BY DEF TailKnown, HolesKnown

LEMMA NoHoles == ~Holes(NoAddressGap) /\ HolesKnown(NoUpload.gaps, KnownEvents)
BY DEF Holes, HolesKnown, NoUpload

\* A refused poll keeps its reason while the Agent records and the Center learns more.
LEMMA RefusalsKeep ==
  ASSUME AddressRefusals, addressLog.events \subseteq addressLog'.events,
         addressSent' = addressSent, addressAnswer' = addressAnswer,
         addressCenter.events \subseteq addressCenter'.events,
         addressCenter.unattributed \subseteq addressCenter'.unattributed,
         ~Reconfigured' => ~Reconfigured
  PROVE  AddressRefusals'
<1>1. \A e : AtCenter(e) => AtCenter(e)'
  BY DEF AtCenter
<1> QED BY <1>1 DEF AddressRefusals

LEMMA BalanceOf == SetEventsBalance <=> (~Reconfigured => Balanced)
BY DEF SetEventsBalance, Balanced, OfKind, Entering, Leaving

-----------------------------------------------------------------------------
(* Steps of the Agent                                                      *)

LEMMA IdleStep ==
  ASSUME AddressInductive,
         UNCHANGED <<addressDisk, addressSent, addressAnswer, addressLate, addressCenter, addressLog>>,
         addressCheck' \in {NoCheck} \cup [path : Paths, revision : 1 .. MaxAddressRevisions]
  PROVE  AddressInductive'
<1> USE DEF AddressInductive
<1>1. AddressTypeOK' BY DEF AddressTypeOK
<1>2. QueueAndGaps' BY DEF QueueAndGaps, Numbered, QueueSound, GapsSound
<1>3. Configurations' BY DEF Configurations
<1>4. Uploading' BY DEF Uploading
<1>5. LogSound' BY DEF LogSound
<1>6. AcceptedStored' BY DEF AcceptedStored, SameGeneration, AtCenter
<1>7. Accounted' BY DEF Accounted, SameGeneration, AtCenter
<1>8. Reconfigured' = Reconfigured BY DEF Reconfigured
<1>9. KnownEvents' = KnownEvents BY DEF KnownEvents, AtCenter
<1>10. Numbered' = Numbered BY DEF Numbered
<1>11. Unchanging'
  BY <1>8, <1>9, <1>10 DEF Unchanging, FirstConfigured, LogNumbered, FromLog, LossesKnown
<1>12. AddressRefusals' BY <1>8, RefusalsKeep
<1>13. SetEventsBalance' BY <1>8 DEF SetEventsBalance, Holders
<1> QED BY <1>1, <1>2, <1>3, <1>4, <1>5, <1>6, <1>7, <1>11, <1>12, <1>13

LEMMA ObserveStep ==
  ASSUME AddressInductive, NEW p \in Paths, NEW ip \in IPs, Observe(p, ip), addressCheck' = NoCheck,
         UNCHANGED <<addressSent, addressAnswer, addressLate, addressCenter>>
  PROVE  AddressInductive'
<1> DEFINE em == Emitted(p, ip)
           m == Len(em)
           New == {NewEvent(p, em, i) : i \in 1 .. m}
<1>1. /\ AddressTypeOK /\ QueueAndGaps /\ Configurations /\ Uploading /\ LogSound
      /\ AcceptedStored /\ Accounted /\ Unchanging /\ AddressRefusals /\ SetEventsBalance
  BY DEF AddressInductive
<1>2. ObserveReady
  BY <1>1, AddressTypes DEF ObserveReady, QueueAndGaps
<1>3. /\ Stage(p, ip, em, KnownEvents, addressDisk', m)
      /\ addressLog.count + m <= MaxAddressEvents
  BY <1>2, ObserveStage
<1>4. /\ addressLog'.events = addressLog.events \cup New
      /\ addressLog' \in [events : SUBSET AddressEvent, count : Count]
      /\ Numbered' = [Numbered EXCEPT ![p] = @ + m]
      /\ addressDisk' \in DiskType
      /\ LogSound' /\ (LogNumbered => LogNumbered')
  BY <1>2, ObserveLog
<1>5. /\ addressDisk'.configuration = addressDisk.configuration
      /\ QueueSound(addressDisk', addressLog'.events, Numbered') /\ GapsSound(addressDisk', Numbered')
      /\ \A q \in Paths : addressDisk.gaps[q] # NoAddressGap =>
            addressDisk'.gaps[q].id = addressDisk.gaps[q].id
            /\ addressDisk'.gaps[q].first = addressDisk.gaps[q].first
      /\ \A f \in AddressEvent : Covered(addressDisk, f) => Covered(addressDisk', f)
      /\ \A i \in 1 .. m : Covered(addressDisk', NewEvent(p, em, i))
      /\ TailKnown(addressDisk, Numbered, KnownEvents) /\ HolesKnown(addressDisk.gaps, KnownEvents) =>
            TailKnown(addressDisk', Numbered', KnownEvents) /\ HolesKnown(addressDisk'.gaps, KnownEvents)
  BY <1>3, <1>4 DEF Stage
<1> HIDE DEF em, m, New
<1>6. AddressTypeOK'
  <2>1. \A q \in Paths : Cardinality({e \in addressDisk'.queue : e.path = q}) <= MaxPathEvents
    BY <1>5 DEF QueueSound
  <2> QED BY <1>1, <1>4, <2>1, AddressTypes DEF AddressTypeOK, DiskType
<1>7. QueueAndGaps'
  BY <1>5 DEF QueueAndGaps
<1>8. Configurations'
  BY <1>1, <1>5 DEF Configurations
<1>9. Uploading'
  <2>1. addressSent'.events \subseteq addressLog'.events
    BY <1>1, <1>4 DEF Uploading
  <2>2. ASSUME NEW q \in Paths, addressSent.gaps[q] # NoAddressGap
        PROVE  /\ 1 <= addressSent.gaps[q].id
               /\ addressDisk'.gaps[q].id = addressSent.gaps[q].id
               /\ addressDisk'.gaps[q].first = addressSent.gaps[q].first
    <3>1. 1 <= addressSent.gaps[q].id /\ addressDisk.gaps[q].id = addressSent.gaps[q].id
          /\ addressDisk.gaps[q].first = addressSent.gaps[q].first
      BY <1>1, <2>2 DEF Uploading
    <3>2. addressDisk.gaps[q] # NoAddressGap
      BY <3>1 DEF NoAddressGap
    <3> QED BY <1>5, <3>1, <3>2
  <2> QED BY <1>1, <1>5, <2>1, <2>2 DEF Uploading
<1>10. AcceptedStored'
  BY <1>1, <1>5 DEF AcceptedStored, SameGeneration, AtCenter
<1>11. Accounted'
  <2>1. \A e : AtCenter(e)' = AtCenter(e)
    BY DEF AtCenter
  <2>2. SameGeneration' = SameGeneration
    BY <1>5 DEF SameGeneration
  <2>3. \A e \in New : Covered(addressDisk', e)
    BY <1>5 DEF New
  <2>4. \A e \in addressLog.events : e \in AddressEvent
    BY <1>2 DEF ObserveReady
  <2> QED BY <1>1, <1>4, <1>5, <2>1, <2>2, <2>3, <2>4 DEF Accounted
<1>12. Reconfigured' = Reconfigured
  BY DEF Reconfigured
<1>13. Unchanging'
  <2> SUFFICES ASSUME ~Reconfigured PROVE (FirstConfigured /\ LogNumbered /\ FromLog /\ LossesKnown)'
    BY <1>12 DEF Unchanging
  <2>1. FirstConfigured /\ LogNumbered /\ FromLog /\ LossesKnown
    BY <1>1 DEF Unchanging
  <2>2. FirstConfigured'
    BY <1>5, <2>1 DEF FirstConfigured
  <2>3. FromLog'
    BY <1>4, <2>1 DEF FromLog
  <2>4. KnownEvents \subseteq KnownEvents'
    BY <1>4 DEF KnownEvents, AtCenter
  <2>5. LossesKnown'
    BY <1>5, <2>1, <2>4, KnownMore DEF LossesKnown
  <2> QED BY <1>4, <2>1, <2>2, <2>3, <2>5
<1>14. AddressRefusals'
  BY <1>1, <1>4, <1>12, RefusalsKeep
<1>15. SetEventsBalance'
  <2>1. ~Reconfigured => Balanced
    BY <1>1, BalanceOf
  <2>2. ~Reconfigured => Balanced'
    BY <1>2, <2>1, ObserveBalance
  <2>3. SetEventsBalance' <=> (~Reconfigured' => Balanced')
    BY BalanceOf, PTL
  <2> QED BY <1>12, <2>2, <2>3
<1> QED BY <1>4, <1>6, <1>7, <1>8, <1>9, <1>10, <1>11, <1>13, <1>14, <1>15 DEF AddressInductive

LEMMA SendStep ==
  ASSUME AddressInductive, SendAddresses
  PROVE  AddressInductive'
<1> DEFINE u == [generation |-> addressDisk.configuration.generation,
                 ips |-> [p \in Paths |-> addressDisk.states[p].ip],
                 events |-> addressDisk.queue, gaps |-> addressDisk.gaps]
<1>1. /\ AddressTypeOK /\ QueueAndGaps /\ Configurations /\ Uploading /\ LogSound
      /\ AcceptedStored /\ Accounted /\ Unchanging /\ AddressRefusals /\ SetEventsBalance
  BY DEF AddressInductive
<1>2. /\ addressAnswer = "none" /\ addressSent' = u
      /\ UNCHANGED <<addressDisk, addressCheck, addressAnswer, addressLate, addressCenter, addressLog>>
  BY DEF SendAddresses
<1>3. addressDisk \in DiskType
  BY <1>1, AddressTypes
<1>4. u \in Upload
  <2>1. addressDisk.configuration.generation \in 0 .. MaxAddressRevisions
    BY <1>3, AddressAssumption DEF DiskType, Configuration
  <2>2. [p \in Paths |-> addressDisk.states[p].ip] \in [Paths -> IPs]
    BY <1>3 DEF DiskType, PathState
  <2> QED BY <1>3, <2>1, <2>2 DEF DiskType, Upload
<1>5. AddressTypeOK' BY <1>1, <1>2, <1>4 DEF AddressTypeOK
<1>6. QueueAndGaps' BY <1>1, <1>2 DEF QueueAndGaps, Numbered, QueueSound, GapsSound
<1>7. Configurations' BY <1>1, <1>2 DEF Configurations
<1>8. Uploading'
  <2>1. addressDisk.queue \subseteq addressLog.events
    BY <1>1 DEF QueueAndGaps, QueueSound
  <2>2. \A p \in Paths : addressDisk.gaps[p] # NoAddressGap => 1 <= addressDisk.gaps[p].id
    BY <1>1 DEF QueueAndGaps, GapsSound
  <2> QED BY <1>2, <2>1, <2>2 DEF Uploading
<1>9. LogSound' BY <1>1, <1>2 DEF LogSound
<1>10. AcceptedStored' BY <1>2 DEF AcceptedStored
<1>11. Accounted' BY <1>1, <1>2 DEF Accounted, SameGeneration, AtCenter
<1>12. Unchanging'
  <2>1. Reconfigured' = Reconfigured BY <1>2 DEF Reconfigured
  <2>2. KnownEvents' = KnownEvents BY <1>2 DEF KnownEvents, AtCenter
  <2>3. Numbered' = Numbered BY <1>2 DEF Numbered
  <2>4. addressSent'.gaps = addressDisk.gaps BY <1>2
  <2>5. FirstConfigured' <=> FirstConfigured BY <1>2 DEF FirstConfigured
  <2>6. LogNumbered' <=> LogNumbered BY <1>2 DEF LogNumbered
  <2>7. FromLog' <=> FromLog BY <1>2 DEF FromLog
  <2>8. LossesKnown => LossesKnown' BY <1>2, <2>2, <2>3, <2>4 DEF LossesKnown
  <2> QED BY <1>1, <2>1, <2>5, <2>6, <2>7, <2>8 DEF Unchanging
<1>13. AddressRefusals' BY <1>2 DEF AddressRefusals
<1>14. SetEventsBalance' BY <1>1, <1>2 DEF SetEventsBalance, Holders, Reconfigured
<1> QED BY <1>5, <1>6, <1>7, <1>8, <1>9, <1>10, <1>11, <1>12, <1>13, <1>14 DEF AddressInductive

LEMMA PollFailsStep ==
  ASSUME AddressInductive, PollFails
  PROVE  AddressInductive'
<1>1. /\ AddressTypeOK /\ QueueAndGaps /\ Configurations /\ Uploading /\ LogSound
      /\ AcceptedStored /\ Accounted /\ Unchanging /\ AddressRefusals /\ SetEventsBalance
  BY DEF AddressInductive
<1>2. /\ addressSent' = NoUpload /\ addressAnswer' = "none"
      /\ addressLate' = addressLate \/ addressLate' = {addressSent}
      /\ UNCHANGED <<addressDisk, addressCheck, addressCenter, addressLog>>
  BY DEF PollFails
<1>3. addressSent \in Upload /\ addressLate \subseteq Upload
  BY <1>1, AddressTypes
<1>4. AddressTypeOK' BY <1>1, <1>2, <1>3, NoUploadType DEF AddressTypeOK
<1>5. QueueAndGaps' BY <1>1, <1>2 DEF QueueAndGaps, Numbered, QueueSound, GapsSound
<1>6. Configurations' BY <1>1, <1>2 DEF Configurations
<1>7. Uploading' BY <1>2 DEF Uploading, NoUpload
<1>8. LogSound' BY <1>1, <1>2 DEF LogSound
<1>9. AcceptedStored' BY <1>2 DEF AcceptedStored
<1>10. Accounted' BY <1>1, <1>2 DEF Accounted, SameGeneration, AtCenter
<1>11. Unchanging'
  <2>1. Reconfigured' = Reconfigured BY <1>2 DEF Reconfigured
  <2>2. KnownEvents' = KnownEvents BY <1>2 DEF KnownEvents, AtCenter
  <2>3. Numbered' = Numbered BY <1>2 DEF Numbered
  <2>4. FirstConfigured' <=> FirstConfigured BY <1>2 DEF FirstConfigured
  <2>5. LogNumbered' <=> LogNumbered BY <1>2 DEF LogNumbered
  <2>6. FromLog => FromLog' BY <1>1, <1>2 DEF FromLog, Uploading
  <2>7. LossesKnown => LossesKnown' BY <1>2, <2>2, <2>3, NoHoles DEF LossesKnown
  <2> QED BY <1>1, <2>1, <2>4, <2>5, <2>6, <2>7 DEF Unchanging
<1>12. AddressRefusals' BY <1>2 DEF AddressRefusals
<1>13. SetEventsBalance' BY <1>1, <1>2 DEF SetEventsBalance, Holders, Reconfigured
<1> QED BY <1>4, <1>5, <1>6, <1>7, <1>8, <1>9, <1>10, <1>11, <1>12, <1>13 DEF AddressInductive

\* The answer removes from the disk what the Center took; what the gap or the queue got
\* meanwhile stays.
LEMMA AcknowledgeStep ==
  ASSUME AddressInductive, AcknowledgeAddressUpload
  PROVE  AddressInductive'
<1> DEFINE queue == {e \in addressDisk.queue : \A f \in addressSent.events : e.id # f.id}
           gaps == [p \in Paths |-> Acknowledged(addressDisk.gaps[p], addressSent.gaps[p])]
<1>1. /\ AddressTypeOK /\ QueueAndGaps /\ Configurations /\ Uploading /\ LogSound
      /\ AcceptedStored /\ Accounted /\ Unchanging /\ AddressRefusals /\ SetEventsBalance
  BY DEF AddressInductive
<1>2. /\ addressAnswer = "accepted" /\ addressSent' = NoUpload /\ addressAnswer' = "configure"
      /\ addressDisk' = [addressDisk EXCEPT !.queue = queue, !.gaps = gaps]
      /\ UNCHANGED <<addressCheck, addressLate, addressCenter, addressLog>>
  BY DEF AcknowledgeAddressUpload
<1>3. addressDisk \in DiskType /\ addressSent \in Upload /\ addressLog.events \subseteq AddressEvent
  BY <1>1, AddressTypes
<1>4. \A p \in Paths : gaps[p] = NoAddressGap \/ gaps[p] = addressDisk.gaps[p]
  BY DEF Acknowledged
<1>5. gaps \in [Paths -> AddressGap]
  BY <1>3, <1>4, NoUploadType DEF DiskType
<1>6. queue \subseteq addressDisk.queue
  OBVIOUS
<1>7. /\ addressDisk'.queue = queue /\ addressDisk'.gaps = gaps /\ addressDisk' \in DiskType
      /\ addressDisk'.configuration = addressDisk.configuration
      /\ addressDisk'.states = addressDisk.states
  <2> HIDE DEF queue, gaps
  <2> QED BY <1>2, <1>3, <1>5, <1>6 DEF DiskType
<1>8. \A e \in addressDisk.queue : e \notin queue => e \in addressSent.events
  <2> SUFFICES ASSUME NEW e \in addressDisk.queue, e \notin queue PROVE e \in addressSent.events
    OBVIOUS
  <2>1. PICK f \in addressSent.events : e.id = f.id
    OBVIOUS
  <2>2. e \in addressLog.events /\ f \in addressLog.events
    BY <1>1 DEF QueueAndGaps, QueueSound, Uploading
  <2>3. e = f
    BY <1>1, <2>1, <2>2 DEF LogSound
  <2> QED BY <2>3
<1>9. QueueSound(addressDisk', addressLog.events, Numbered) /\ GapsSound(addressDisk', Numbered)
  <2>1. QueueSound(addressDisk, addressLog.events, Numbered) /\ GapsSound(addressDisk, Numbered)
    BY <1>1 DEF QueueAndGaps
  <2>2. IsFiniteSet(queue)
    BY <1>6, <2>1, FS_Subset DEF QueueSound
  <2>3. ASSUME NEW p \in Paths PROVE Cardinality({e \in queue : e.path = p}) <= MaxPathEvents
    <3> DEFINE A == {e \in addressDisk.queue : e.path = p}
               B == {e \in queue : e.path = p}
    <3>1. IsFiniteSet(A) /\ B \subseteq A /\ Cardinality(A) <= MaxPathEvents
      BY <2>1, FS_Subset DEF QueueSound
    <3> HIDE DEF A, B
    <3>2. Cardinality(A) \in Nat /\ Cardinality(B) \in Nat /\ Cardinality(B) <= Cardinality(A)
      BY <3>1, FS_Subset, FS_CardinalityType
    <3>3. Cardinality(B) <= MaxPathEvents
      BY <3>1, <3>2, AddressAssumption
    <3> QED BY <3>3 DEF B
  <2> HIDE DEF queue, gaps
  <2>4. QueueSound(addressDisk', addressLog.events, Numbered)
    BY <1>6, <1>7, <2>1, <2>2, <2>3 DEF QueueSound
  <2>5. GapsSound(addressDisk', Numbered)
    BY <1>4, <1>6, <1>7, <2>1 DEF GapsSound
  <2> QED BY <2>4, <2>5
<1> HIDE DEF queue
<1>10. Numbered' = Numbered /\ KnownEvents' = KnownEvents /\ Reconfigured' = Reconfigured
       /\ SameGeneration' = SameGeneration
  BY <1>2, <1>7 DEF Numbered, KnownEvents, AtCenter, Reconfigured, SameGeneration
<1>11. \A e : AtCenter(e)' = AtCenter(e)
  BY <1>2 DEF AtCenter
<1>12. AddressTypeOK'
  <2>1. \A p \in Paths : Cardinality({e \in addressDisk'.queue : e.path = p}) <= MaxPathEvents
    BY <1>9 DEF QueueSound
  <2> QED BY <1>1, <1>2, <1>7, <2>1, NoUploadType DEF AddressTypeOK, DiskType
<1>13. QueueAndGaps'
  BY <1>2, <1>9, <1>10 DEF QueueAndGaps
<1>14. Configurations' BY <1>1, <1>2, <1>7 DEF Configurations
<1>15. Uploading' BY <1>2 DEF Uploading, NoUpload
<1>16. LogSound' BY <1>1, <1>2, <1>7 DEF LogSound
<1>17. AcceptedStored' BY <1>2 DEF AcceptedStored
<1>18. Accounted'
  <2> SUFFICES ASSUME SameGeneration, NEW e \in addressLog.events, e.path \in ActivePaths(addressCenter)
               PROVE  \/ Covered(addressDisk', e) \/ AtCenter(e)
                      \/ \E g \in addressCenter.gaps : g.path = e.path /\ e.sequence \in g.gap.first .. g.gap.last
    BY <1>2, <1>10, <1>11 DEF Accounted
  <2>1. /\ \A f \in addressSent.events : f.path \in ActivePaths(addressCenter) => AtCenter(f)
        /\ \A p \in ActivePaths(addressCenter) : addressSent.gaps[p] # NoAddressGap =>
              [path |-> p, gap |-> addressSent.gaps[p]] \in addressCenter.gaps
    BY <1>1, <1>2 DEF AcceptedStored
  <2>2. e.path \in Paths /\ e.sequence \in Nat /\ 1 <= e.sequence
    BY <1>3 DEF AddressEvent, EventId
  <2>3. CASE e \in addressDisk.queue
    BY <1>7, <1>8, <2>1, <2>3 DEF Covered
  <2>4. CASE e.sequence \in addressDisk.gaps[e.path].first .. addressDisk.gaps[e.path].last
    <3> DEFINE gap == addressDisk.gaps[e.path]
               sent == addressSent.gaps[e.path]
    <3>1. gap \in AddressGap /\ sent \in AddressGap
      BY <1>3, <2>2 DEF DiskType, Upload
    <3>2. CASE gaps[e.path] = gap
      BY <1>7, <2>4, <3>2 DEF Covered
    <3>3. CASE gaps[e.path] # gap
      <4>1. gap.id = sent.id /\ gap.last <= sent.last
        BY <2>2, <3>3 DEF Acknowledged
      <4>2. gap # NoAddressGap
        BY <2>2, <2>4 DEF NoAddressGap
      <4>3. 1 <= gap.id
        BY <1>1, <2>2, <4>2 DEF QueueAndGaps, GapsSound
      <4>4. sent # NoAddressGap
        BY <4>1, <4>3 DEF NoAddressGap
      <4>5. gap.first = sent.first
        BY <1>1, <2>2, <4>4 DEF Uploading
      <4>6. [path |-> e.path, gap |-> sent] \in addressCenter.gaps
        BY <2>1, <4>4
      <4> DEFINE g == [path |-> e.path, gap |-> sent]
      <4>7. e.sequence \in sent.first .. sent.last
        <5> HIDE DEF sent
        <5> QED BY <2>2, <2>4, <3>1, <4>1, <4>5 DEF AddressGap, Count
      <4>8. g.path = e.path /\ e.sequence \in g.gap.first .. g.gap.last /\ g \in addressCenter.gaps
        BY <4>6, <4>7
      <4> QED BY <4>8
    <3> QED BY <3>2, <3>3
  <2> QED BY <1>1, <2>3, <2>4 DEF Accounted, Covered
<1>19. Unchanging'
  <2> SUFFICES ASSUME ~Reconfigured PROVE (FirstConfigured /\ LogNumbered /\ FromLog /\ LossesKnown)'
    BY <1>10 DEF Unchanging
  <2>1. FirstConfigured /\ LogNumbered /\ FromLog /\ LossesKnown
    BY <1>1 DEF Unchanging
  <2>2. (FirstConfigured /\ LogNumbered /\ FromLog)'
    BY <1>2, <1>7, <2>1 DEF FirstConfigured, LogNumbered, FromLog
  <2>3. ASSUME NEW e \in addressDisk.queue, e \notin queue PROVE <<e.path, e.sequence>> \in KnownEvents
    <3>1. e \in addressSent.events /\ e \in addressLog.events /\ e.path \in Paths
      BY <1>1, <1>3, <1>8, <2>3 DEF QueueAndGaps, QueueSound, AddressEvent
    <3>2. SameGeneration /\ ActivePaths(addressCenter) = Paths
      BY <2>1 DEF SameGeneration, FirstConfigured, ActivePaths
    <3>3. AtCenter(e)
      BY <1>1, <1>2, <3>1, <3>2 DEF AcceptedStored
    <3> QED BY <3>1, <3>3 DEF KnownEvents
  <2>4. TailKnown(addressDisk', Numbered, KnownEvents)
    <3> HIDE DEF gaps
    <3>1. \A s : \A p \in Paths : After(addressDisk', p, s) => After(addressDisk, p, s)
      BY <1>4, <1>6, <1>7 DEF After
    <3>2. \A s : \A p \in Paths : InQueue(addressDisk, p, s) => InQueue(addressDisk', p, s) \/ <<p, s>> \in KnownEvents
      BY <1>7, <2>3 DEF InQueue
    <3> QED BY <2>1, <3>1, <3>2 DEF LossesKnown, TailKnown
  <2>5. HolesKnown(addressDisk'.gaps, KnownEvents)
    <3> HIDE DEF gaps
    <3> QED BY <1>4, <1>7, <2>1, NoHoles DEF LossesKnown, HolesKnown
  <2>6. HolesKnown(addressSent'.gaps, KnownEvents)
    BY <1>2, NoHoles
  <2> QED BY <1>10, <2>2, <2>4, <2>5, <2>6 DEF LossesKnown
<1>20. AddressRefusals' BY <1>2 DEF AddressRefusals
<1>21. SetEventsBalance' BY <1>1, <1>2, <1>7, <1>10 DEF SetEventsBalance, Holders
<1> QED BY <1>12, <1>13, <1>14, <1>15, <1>16, <1>17, <1>18, <1>19, <1>20, <1>21 DEF AddressInductive

\* A new configuration gives up what its generation or a path going away leaves behind.
LEMMA ApplyStep ==
  ASSUME AddressInductive, ApplyAddressConfiguration
  PROVE  AddressInductive'
<1> DEFINE new == addressCenter.configuration
           kept == IF new.generation = addressDisk.configuration.generation THEN new.paths ELSE {}
           queue == {e \in addressDisk.queue : e.path \in kept}
           states == [p \in Paths |-> IF p \in kept THEN addressDisk.states[p] ELSE Unchecked]
           gaps == [p \in Paths |-> IF p \in kept THEN addressDisk.gaps[p] ELSE NoAddressGap]
           events == {e \in addressLog.events : e.path \in kept}
<1>1. /\ AddressTypeOK /\ QueueAndGaps /\ Configurations /\ Uploading /\ LogSound
      /\ AcceptedStored /\ Accounted /\ Unchanging /\ AddressRefusals /\ SetEventsBalance
  BY DEF AddressInductive
<1>2. /\ addressAnswer = "configure" /\ addressAnswer' = "none"
      /\ addressDisk' = [configuration |-> new, queue |-> queue, states |-> states, gaps |-> gaps]
      /\ addressLog' = [addressLog EXCEPT !.events = events]
      /\ UNCHANGED <<addressCheck, addressSent, addressLate, addressCenter>>
  BY DEF ApplyAddressConfiguration
<1>3. /\ addressDisk \in DiskType /\ addressCenter \in CenterType
      /\ addressLog \in [events : SUBSET AddressEvent, count : Count]
  BY <1>1, AddressTypes
<1>4. addressSent = NoUpload
  BY <1>1, <1>2 DEF Uploading
<1>5. /\ addressLog'.events = events /\ addressLog'.count = addressLog.count
      /\ addressLog' \in [events : SUBSET AddressEvent, count : Count]
  <2>1. events \subseteq AddressEvent BY <1>3
  <2> HIDE DEF events
  <2> QED BY <1>2, <1>3, <2>1
<1>6. Unchecked \in PathState
  <2>1. 0 \in Count BY AddressAssumption DEF Count
  <2> QED BY <2>1 DEF Unchecked, PathState, IPs
<1>7. /\ addressDisk' \in DiskType /\ addressDisk'.configuration = new
      /\ addressDisk'.queue = queue /\ addressDisk'.states = states /\ addressDisk'.gaps = gaps
  <2>1. states \in [Paths -> PathState] BY <1>3, <1>6 DEF DiskType
  <2>2. gaps \in [Paths -> AddressGap] BY <1>3, NoUploadType DEF DiskType
  <2>3. queue \subseteq AddressEvent /\ new \in Configuration BY <1>3 DEF DiskType, CenterType
  <2> HIDE DEF states, gaps, queue, new
  <2> QED BY <1>2, <2>1, <2>2, <2>3 DEF DiskType
<1>8. \A e \in AddressEvent : e.path \in Paths
  BY DEF AddressEvent
<1>9. QueueAndGaps'
  <2>1. QueueSound(addressDisk, addressLog.events, Numbered) /\ GapsSound(addressDisk, Numbered)
    BY <1>1 DEF QueueAndGaps
  <2>2. IsFiniteSet(queue) /\ queue \subseteq addressDisk.queue /\ queue \subseteq events
    BY <2>1, FS_Subset DEF QueueSound
  <2>3. ASSUME NEW p \in Paths PROVE Cardinality({e \in queue : e.path = p}) <= MaxPathEvents
    <3> DEFINE A == {e \in addressDisk.queue : e.path = p}
               B == {e \in queue : e.path = p}
    <3>1. IsFiniteSet(A) /\ B \subseteq A /\ Cardinality(A) <= MaxPathEvents
      BY <2>1, FS_Subset DEF QueueSound
    <3> HIDE DEF A, B
    <3>2. Cardinality(A) \in Nat /\ Cardinality(B) \in Nat /\ Cardinality(B) <= Cardinality(A)
      BY <3>1, FS_Subset, FS_CardinalityType
    <3>3. Cardinality(B) <= MaxPathEvents
      BY <3>1, <3>2, AddressAssumption
    <3> QED BY <3>3 DEF B
  <2>4. \A p \in kept \cap Paths : Numbered'[p] = Numbered[p] /\ addressDisk'.gaps[p] = addressDisk.gaps[p]
    BY <1>7 DEF Numbered
  <2>5. \A p \in Paths : p \notin kept => addressDisk'.gaps[p] = NoAddressGap
    BY <1>7
  <2>6. \A e \in queue : e.path \in kept /\ e.path \in Paths
    BY <1>3, <1>8 DEF DiskType
  <2> HIDE DEF queue, kept, events
  <2>7. QueueSound(addressDisk', addressLog'.events, Numbered')
    BY <1>5, <1>7, <2>1, <2>2, <2>3, <2>4, <2>6 DEF QueueSound
  <2>8. GapsSound(addressDisk', Numbered')
    BY <1>7, <2>1, <2>2, <2>4, <2>5 DEF GapsSound
  <2> QED BY <2>7, <2>8 DEF QueueAndGaps
<1>10. AddressTypeOK'
  <2>1. \A p \in Paths : Cardinality({e \in addressDisk'.queue : e.path = p}) <= MaxPathEvents
    BY <1>9 DEF QueueAndGaps, QueueSound
  <2> QED BY <1>1, <1>2, <1>5, <1>7, <2>1 DEF AddressTypeOK, DiskType
<1>11. Configurations'
  <2> HIDE DEF new
  <2>1. new.revision \in Nat /\ new.generation \in Nat
    BY <1>3 DEF new, CenterType, Configuration
  <2> QED BY <1>1, <1>2, <1>7, <2>1 DEF Configurations, new
<1>12. Uploading'
  BY <1>2, <1>4 DEF Uploading, NoUpload
<1>13. LogSound'
  <2>1. IsFiniteSet(events)
    BY <1>1, FS_Subset DEF LogSound
  <2>2. \A p \in Paths : addressDisk'.states[p].sequence <= addressLog'.count
    <3>1. \A p \in Paths : addressDisk.states[p].sequence <= addressLog.count
      BY <1>1 DEF LogSound
    <3>2. Unchecked.sequence = 0 /\ addressLog.count \in Nat
      BY <1>3 DEF Unchecked, Count
    <3> QED BY <1>5, <1>7, <3>1, <3>2
  <2> QED BY <1>1, <1>5, <2>1, <2>2 DEF LogSound
<1>14. AcceptedStored' BY <1>2 DEF AcceptedStored
<1>15. Accounted'
  <2> SUFFICES ASSUME NEW e \in addressLog.events, e.path \in kept, e.path \in ActivePaths(addressCenter)
               PROVE  \/ Covered(addressDisk', e) \/ AtCenter(e)
                      \/ \E g \in addressCenter.gaps : g.path = e.path /\ e.sequence \in g.gap.first .. g.gap.last
    BY <1>2, <1>5 DEF Accounted, AtCenter
  <2>1. SameGeneration
    BY DEF SameGeneration
  <2>2. e.path \in Paths
    BY <1>3, <1>8
  <2>3. addressDisk'.gaps[e.path] = addressDisk.gaps[e.path]
    BY <1>7, <2>2
  <2>4. e \in addressDisk.queue => e \in addressDisk'.queue
    BY <1>7
  <2> HIDE DEF kept
  <2> QED BY <1>1, <2>1, <2>3, <2>4 DEF Accounted, Covered
<1>16. Reconfigured' = Reconfigured
  BY <1>2 DEF Reconfigured
<1>17. ASSUME ~Reconfigured PROVE addressDisk' = addressDisk /\ addressLog' = addressLog
  <2>1. FirstConfigured BY <1>1, <1>17 DEF Unchanging
  <2>2. kept = Paths BY <2>1 DEF FirstConfigured, FirstConfiguration
  <2>3. queue = addressDisk.queue BY <1>3, <1>8, <2>2 DEF DiskType
  <2>4. states = addressDisk.states /\ gaps = addressDisk.gaps BY <1>3, <2>2 DEF DiskType
  <2>5. events = addressLog.events BY <1>3, <1>8, <2>2
  <2>6. new = addressDisk.configuration BY <2>1 DEF FirstConfigured
  <2> HIDE DEF queue, states, gaps, events, new
  <2> QED BY <1>2, <1>3, <2>3, <2>4, <2>5, <2>6 DEF DiskType
<1>18. Unchanging'
  <2> SUFFICES ASSUME ~Reconfigured PROVE (FirstConfigured /\ LogNumbered /\ FromLog /\ LossesKnown)'
    BY <1>16 DEF Unchanging
  <2>1. FirstConfigured /\ LogNumbered /\ FromLog /\ LossesKnown
    BY <1>1 DEF Unchanging
  <2>2. addressDisk' = addressDisk /\ addressLog' = addressLog
    BY <1>17
  <2>3. KnownEvents' = KnownEvents /\ Numbered' = Numbered
    BY <1>2, <2>2 DEF KnownEvents, AtCenter, Numbered
  <2> QED BY <1>2, <2>1, <2>2, <2>3 DEF FirstConfigured, LogNumbered, FromLog, LossesKnown
<1>19. AddressRefusals' BY <1>2 DEF AddressRefusals
<1>20. SetEventsBalance'
  BY <1>1, <1>16, <1>17 DEF SetEventsBalance, Holders
<1> QED BY <1>9, <1>10, <1>11, <1>12, <1>13, <1>14, <1>15, <1>18, <1>19, <1>20 DEF AddressInductive

-----------------------------------------------------------------------------
(* Steps of the Center                                                     *)

\* A poll, in time or late, adds to what the Center has: no invariant but the one about
\* its own answer is at stake.
LEMMA ServedKeeps ==
  ASSUME AddressInductive, NEW u \in Upload, NEW o \in Served(addressCenter, u),
         ~Reconfigured => u.events \subseteq addressLog.events,
         addressCenter' = o.center, addressLate' \subseteq addressLate,
         UNCHANGED <<addressDisk, addressCheck, addressSent, addressLog>>
  PROVE  /\ addressCenter' \in CenterType
         /\ QueueAndGaps' /\ Configurations' /\ LogSound' /\ Accounted' /\ Unchanging' /\ SetEventsBalance'
         /\ Reconfigured' = Reconfigured /\ SameGeneration' = SameGeneration
         /\ ActivePaths(addressCenter') = ActivePaths(addressCenter)
         /\ \A e : AtCenter(e) => AtCenter(e)'
         /\ addressCenter.gaps \subseteq addressCenter'.gaps
         /\ addressCenter.events \subseteq addressCenter'.events
         /\ addressCenter.unattributed \subseteq addressCenter'.unattributed
<1>1. /\ AddressTypeOK /\ QueueAndGaps /\ Configurations /\ Uploading /\ LogSound
      /\ AcceptedStored /\ Accounted /\ Unchanging /\ AddressRefusals /\ SetEventsBalance
  BY DEF AddressInductive
<1>2. addressCenter \in CenterType
  BY <1>1, AddressTypes
<1>3. /\ addressCenter' \in CenterType /\ addressCenter'.configuration = addressCenter.configuration
      /\ addressCenter'.rows = addressCenter.rows /\ addressCenter'.deleting = addressCenter.deleting
      /\ addressCenter.events \subseteq addressCenter'.events
      /\ addressCenter.gaps \subseteq addressCenter'.gaps
      /\ addressCenter.unattributed \subseteq addressCenter'.unattributed
      /\ \A s \in addressCenter'.events :
            s \in addressCenter.events \/ (s.event \in u.events /\ (s.event.ip # NoIP => s.of = s.event.ip))
  BY <1>2, ServedSound
<1>4. \A e : AtCenter(e) => AtCenter(e)'
  BY <1>3 DEF AtCenter
<1>5. Reconfigured' = Reconfigured /\ SameGeneration' = SameGeneration
      /\ ActivePaths(addressCenter') = ActivePaths(addressCenter) /\ Numbered' = Numbered
  BY <1>3 DEF Reconfigured, SameGeneration, ActivePaths, Numbered
<1>6. QueueAndGaps' BY <1>1, <1>5 DEF QueueAndGaps, QueueSound, GapsSound
<1>7. Configurations' BY <1>1, <1>3 DEF Configurations
<1>8. LogSound' BY <1>1 DEF LogSound
<1>9. Accounted' BY <1>1, <1>3, <1>4, <1>5 DEF Accounted
<1>10. Unchanging'
  <2> SUFFICES ASSUME ~Reconfigured PROVE (FirstConfigured /\ LogNumbered /\ FromLog /\ LossesKnown)'
    BY <1>5 DEF Unchanging
  <2>1. FirstConfigured /\ LogNumbered /\ FromLog /\ LossesKnown
    BY <1>1 DEF Unchanging
  <2>2. FirstConfigured' BY <1>3, <2>1 DEF FirstConfigured
  <2>3. LogNumbered' BY <2>1 DEF LogNumbered
  <2>4. FromLog' BY <1>3, <2>1 DEF FromLog
  <2>5. KnownEvents \subseteq KnownEvents' BY <1>4 DEF KnownEvents
  <2>6. LossesKnown' BY <1>5, <2>1, <2>5, KnownMore DEF LossesKnown
  <2> QED BY <2>2, <2>3, <2>4, <2>6
<1>11. SetEventsBalance' BY <1>1, <1>5 DEF SetEventsBalance, Holders
<1> QED BY <1>3, <1>4, <1>5, <1>6, <1>7, <1>8, <1>9, <1>10, <1>11

\* Why the Center refuses.
LEMMA RefusedFor ==
  ASSUME AddressInductive, ~Reconfigured, AddressesRefused(addressCenter, addressSent)
  PROVE  \/ \E p \in Paths :
              /\ Holes(addressSent.gaps[p])
              /\ \E e \in addressLog.events :
                  /\ e.path = p /\ AtCenter(e)
                  /\ e.sequence \in addressSent.gaps[p].first .. addressSent.gaps[p].last
         \/ \E e \in addressSent.events :
              /\ e.ip = NoIP
              /\ \E s \in addressCenter.events : s.event = e /\ s.of # addressSent.ips[e.path]
<1> DEFINE c == addressCenter
           u == addressSent
           c1 == FirstCommit(c, u)
<1>1. AddressTypeOK /\ Uploading /\ FirstConfigured /\ LogNumbered /\ FromLog /\ LossesKnown
  BY DEF AddressInductive, Unchanging
<1>2. c \in CenterType /\ u \in Upload /\ u.events \subseteq addressLog.events
  BY <1>1, AddressTypes DEF Uploading
<1>3. ASSUME NEW p \in Paths, Holes(u.gaps[p])
      PROVE  \E e \in addressLog.events :
                e.path = p /\ AtCenter(e) /\ e.sequence \in u.gaps[p].first .. u.gaps[p].last
  <2>1. PICK s \in u.gaps[p].first .. u.gaps[p].last : <<p, s>> \in KnownEvents
    BY <1>1, <1>3 DEF LossesKnown, HolesKnown
  <2>2. PICK e \in addressLog.events : AtCenter(e) /\ <<p, s>> = <<e.path, e.sequence>>
    BY <2>1 DEF KnownEvents
  <2> QED BY <2>1, <2>2
<1>4. CASE Invalid(u)
  BY <1>3, <1>4 DEF Invalid
<1>5. ASSUME ~Invalid(u), ~Dangling(c, u), u.generation = c.configuration.generation,
             NEW e \in u.events, Conflicts(c1, e)
      PROVE  e.ip = NoIP /\ \E s \in c.events : s.event = e /\ s.of # u.ips[e.path]
  <2>1. c1 = [c EXCEPT !.known = @ \cup ({u.ips[p] : p \in Paths} \ {NoIP}),
                       !.at = [p \in Paths |-> IF u.ips[p] = NoIP THEN @[p] ELSE u.ips[p]]]
    BY <1>5 DEF FirstCommit, Reconciled
  <2>2. c1.events = c.events /\ c1 \in CenterType
    BY <1>2, FirstCommitKeeps
  <2>3. c1.at = [p \in Paths |-> IF u.ips[p] = NoIP THEN c.at[p] ELSE u.ips[p]]
    BY <1>2, <2>1 DEF CenterType
  <2> HIDE DEF c1
  <2>4. PICK s \in c.events : /\ s.event.path = e.path /\ s.event.sequence = e.sequence
                              /\ s # [event |-> e, of |-> Attribution(c1, e)] /\ Attribution(c1, e) # NoIP
    BY <1>5, <2>2 DEF Conflicts
  <2>5. s.event = e /\ (e.ip # NoIP => s.of = e.ip) /\ s.of \in PublicIPs /\ s = [event |-> s.event, of |-> s.of]
    <3>1. s.event \in addressLog.events /\ (s.event.ip # NoIP => s.of = s.event.ip) /\ e \in addressLog.events
      BY <1>1, <1>2 DEF FromLog
    <3>2. s.event = e
      BY <1>1, <2>4, <3>1 DEF LogNumbered
    <3>3. s \in [event : AddressEvent, of : PublicIPs]
      BY <1>2 DEF CenterType
    <3> QED BY <3>1, <3>2, <3>3
  <2>6. s.of # Attribution(c1, e)
    BY <2>4, <2>5
  <2>7. e \in AddressEvent /\ e.path \in Paths
    BY <1>2 DEF Upload, AddressEvent
  <2>8. e.ip = NoIP
    BY <2>2, <2>4, <2>5, <2>6, <2>7, AttributionSound
  <2>9. Attribution(c1, e) = IF u.ips[e.path] = NoIP THEN c.at[e.path] ELSE u.ips[e.path]
    BY <2>3, <2>7, <2>8 DEF Attribution
  <2>10. s.of # NoIP
    BY <2>5, AddressAssumption DEF NoIP
  <2>11. s.of # u.ips[e.path]
    BY <2>6, <2>9, <2>10
  <2> QED BY <2>5, <2>8, <2>11
<1> QED BY <1>4, <1>5 DEF AddressesRefused

LEMMA PollStep ==
  ASSUME AddressInductive, Poll
  PROVE  AddressInductive'
<1>1. PICK o \in Served(addressCenter, addressSent) :
        addressCenter' = o.center /\ addressAnswer' = o.answer
  BY DEF Poll
<1>2. /\ addressSent # NoUpload /\ addressAnswer = "none"
      /\ UNCHANGED <<addressDisk, addressCheck, addressSent, addressLate, addressLog>>
  BY DEF Poll
<1>3. /\ AddressTypeOK /\ Configurations /\ Uploading /\ AcceptedStored
      /\ addressCenter \in CenterType /\ addressSent \in Upload
  BY AddressTypes DEF AddressInductive
<1>4. /\ addressCenter' \in CenterType
      /\ QueueAndGaps' /\ Configurations' /\ LogSound' /\ Accounted' /\ Unchanging' /\ SetEventsBalance'
      /\ Reconfigured' = Reconfigured /\ SameGeneration' = SameGeneration
      /\ ActivePaths(addressCenter') = ActivePaths(addressCenter)
      /\ \A e : AtCenter(e) => AtCenter(e)'
      /\ addressCenter.events \subseteq addressCenter'.events
  BY <1>1, <1>2, <1>3, ServedKeeps DEF Uploading
<1>5. /\ o.answer = "accepted" /\ addressSent.generation = addressCenter.configuration.generation =>
           /\ \A e \in addressSent.events : e.path \in ActivePaths(addressCenter) =>
                 e.id \in addressCenter'.unattributed \/ \E s \in addressCenter'.events : s.event = e
           /\ \A p \in ActivePaths(addressCenter) : addressSent.gaps[p] # NoAddressGap =>
                 [path |-> p, gap |-> addressSent.gaps[p]] \in addressCenter'.gaps
      /\ o.answer \in {"accepted", "refused", "error", "failed"}
      /\ o.answer = "refused" => AddressesRefused(addressCenter, addressSent)
  BY <1>1, <1>3, ServedSound
<1>6. AddressTypeOK' BY <1>1, <1>2, <1>3, <1>4, <1>5 DEF AddressTypeOK, CenterType
<1>7. Uploading' BY <1>1, <1>2, <1>3, <1>5 DEF Uploading
<1>8. AcceptedStored'
  <2> SUFFICES ASSUME o.answer = "accepted", SameGeneration
               PROVE  /\ \A e \in addressSent.events : e.path \in ActivePaths(addressCenter) => AtCenter(e)'
                      /\ \A p \in ActivePaths(addressCenter) : addressSent.gaps[p] # NoAddressGap =>
                            [path |-> p, gap |-> addressSent.gaps[p]] \in addressCenter'.gaps
    BY <1>1, <1>2, <1>4 DEF AcceptedStored
  <2>1. addressSent.generation = addressCenter.configuration.generation
    BY <1>2, <1>3 DEF Uploading, SameGeneration
  <2> QED BY <1>5, <2>1 DEF AtCenter
<1>9. AddressRefusals'
  <2> SUFFICES ASSUME o.answer = "refused", ~Reconfigured
               PROVE
        \/ \E p \in Paths :
            /\ Holes(addressSent.gaps[p])
            /\ \E e \in addressLog.events :
                /\ e.path = p /\ AtCenter(e)'
                /\ e.sequence \in addressSent.gaps[p].first .. addressSent.gaps[p].last
        \/ \E e \in addressSent.events :
            /\ e.ip = NoIP
            /\ \E s \in addressCenter'.events : s.event = e /\ s.of # addressSent.ips[e.path]
    BY <1>1, <1>2, <1>4 DEF AddressRefusals
  <2>1. AddressesRefused(addressCenter, addressSent)
    BY <1>5
  <2> QED BY <1>4, <2>1, RefusedFor
<1> QED BY <1>4, <1>6, <1>7, <1>8, <1>9 DEF AddressInductive

LEMMA LatePollStep ==
  ASSUME AddressInductive, LatePoll
  PROVE  AddressInductive'
<1>1. PICK u \in addressLate : \E o \in Served(addressCenter, u) :
        addressCenter' = o.center /\ addressLate' = addressLate \ {u}
  BY DEF LatePoll
<1>2. PICK o \in Served(addressCenter, u) : addressCenter' = o.center /\ addressLate' = addressLate \ {u}
  BY <1>1
<1>3. UNCHANGED <<addressDisk, addressCheck, addressSent, addressAnswer, addressLog>>
  BY DEF LatePoll
<1>4. /\ AddressTypeOK /\ Uploading /\ AcceptedStored /\ Unchanging /\ AddressRefusals
      /\ addressCenter \in CenterType /\ u \in Upload
  BY AddressTypes DEF AddressInductive
<1>5. ~Reconfigured => u.events \subseteq addressLog.events
  BY <1>4 DEF Unchanging, FromLog
<1>6. /\ addressCenter' \in CenterType
      /\ QueueAndGaps' /\ Configurations' /\ LogSound' /\ Accounted' /\ Unchanging' /\ SetEventsBalance'
      /\ Reconfigured' = Reconfigured /\ SameGeneration' = SameGeneration
      /\ ActivePaths(addressCenter') = ActivePaths(addressCenter)
      /\ \A e : AtCenter(e) => AtCenter(e)'
      /\ addressCenter.gaps \subseteq addressCenter'.gaps
      /\ addressCenter.events \subseteq addressCenter'.events
      /\ addressCenter.unattributed \subseteq addressCenter'.unattributed
  BY <1>2, <1>3, <1>4, <1>5, ServedKeeps
<1>7. AddressTypeOK' BY <1>2, <1>3, <1>4, <1>6 DEF AddressTypeOK, CenterType
<1>8. Uploading' BY <1>3, <1>4 DEF Uploading
<1>9. AcceptedStored' BY <1>3, <1>4, <1>6 DEF AcceptedStored
<1>10. AddressRefusals' BY <1>3, <1>4, <1>6, RefusalsKeep
<1> QED BY <1>6, <1>7, <1>8, <1>9, <1>10 DEF AddressInductive

\* After a change of configuration little is promised; the paths only become fewer.
LEMMA ReconfiguredKeeps ==
  ASSUME AddressInductive, addressCenter' \in CenterType, Reconfigured', Configurations',
         UNCHANGED <<addressDisk, addressCheck, addressSent, addressAnswer, addressLate, addressLog>>,
         SameGeneration' =>
            /\ SameGeneration /\ ActivePaths(addressCenter') \subseteq ActivePaths(addressCenter)
            /\ addressCenter'.events = addressCenter.events
            /\ addressCenter'.unattributed = addressCenter.unattributed
            /\ \A g \in addressCenter.gaps : g.path \in ActivePaths(addressCenter') => g \in addressCenter'.gaps
  PROVE  AddressInductive'
<1>1. /\ AddressTypeOK /\ QueueAndGaps /\ Configurations /\ Uploading /\ LogSound
      /\ AcceptedStored /\ Accounted /\ Unchanging /\ AddressRefusals /\ SetEventsBalance
  BY DEF AddressInductive
<1>2. AddressTypeOK' BY <1>1 DEF AddressTypeOK, CenterType
<1>3. QueueAndGaps' BY <1>1 DEF QueueAndGaps, Numbered, QueueSound, GapsSound
<1>4. Uploading' BY <1>1 DEF Uploading
<1>5. LogSound' BY <1>1 DEF LogSound
<1>6. SameGeneration' => \A e : AtCenter(e)' = AtCenter(e) BY DEF AtCenter
<1>7. AcceptedStored' BY <1>1, <1>6 DEF AcceptedStored
<1>8. Accounted' BY <1>1, <1>6 DEF Accounted
<1>9. Unchanging' /\ AddressRefusals' /\ SetEventsBalance'
  BY DEF Unchanging, AddressRefusals, SetEventsBalance
<1> QED BY <1>2, <1>3, <1>4, <1>5, <1>7, <1>8, <1>9 DEF AddressInductive

LEMMA ReconfigureStep ==
  ASSUME AddressInductive, SwitchProxy \/ DeleteProxy \/ ResetAddresses
  PROVE  AddressInductive'
<1> DEFINE c == addressCenter
           c2 == addressCenter'
<1>1. c \in CenterType /\ Configurations
  BY AddressTypes DEF AddressInductive
<1>2. /\ c.configuration.revision \in Nat /\ 1 <= c.configuration.revision
      /\ c.configuration.generation \in Nat /\ 1 <= c.configuration.generation
      /\ c.configuration.generation <= c.configuration.revision
      /\ c.configuration.revision < MaxAddressRevisions /\ MaxAddressRevisions \in Nat
      /\ c.configuration.paths \subseteq Paths
      /\ addressDisk.configuration.revision \in Nat /\ addressDisk.configuration.generation \in Nat
  <2>1. addressDisk \in DiskType
    BY AddressTypes DEF AddressInductive
  <2>2. c.configuration \in Configuration /\ addressDisk.configuration \in Configuration
    BY <1>1, <2>1 DEF CenterType, DiskType
  <2>3. c.configuration.revision < MaxAddressRevisions
    BY DEF SwitchProxy, DeleteProxy, ResetAddresses
  <2>4. c.configuration.generation <= c.configuration.revision
    BY <1>1 DEF Configurations
  <2> HIDE DEF c
  <2> QED BY <2>2, <2>3, <2>4, AddressAssumption DEF Configuration
<1>3. UNCHANGED <<addressDisk, addressCheck, addressSent, addressAnswer, addressLate, addressLog>>
  BY DEF SwitchProxy, DeleteProxy, ResetAddresses
<1>4. ASSUME NEW p \in ActivePaths(c), NEW paths \in SUBSET Paths, NEW deleting \in SUBSET Paths,
             c.deleting \subseteq deleting,
             c2 = [c EXCEPT !.configuration = [c.configuration EXCEPT !.revision = @ + 1, !.paths = paths],
                            !.deleting = deleting]
      PROVE  AddressInductive'
  <2>1. [c.configuration EXCEPT !.revision = @ + 1, !.paths = paths] \in Configuration
    <3>1. c.configuration \in Configuration /\ c.configuration.revision + 1 \in 1 .. MaxAddressRevisions
      BY <1>1, <1>2 DEF CenterType
    <3> QED BY <3>1 DEF Configuration
  <2>2. /\ c2 \in CenterType /\ c2.configuration.revision = c.configuration.revision + 1
        /\ c2.configuration.generation = c.configuration.generation
        /\ c2.events = c.events /\ c2.gaps = c.gaps /\ c2.unattributed = c.unattributed
        /\ c2.rows = c.rows /\ c2.deleting = deleting
    BY <1>1, <1>4, <2>1 DEF CenterType, Configuration
  <2>3. Reconfigured' BY <1>2, <2>2 DEF Reconfigured
  <2>4. Configurations' BY <1>1, <1>2, <1>3, <2>2 DEF Configurations
  <2>5. ActivePaths(c2) \subseteq ActivePaths(c) BY <1>4, <2>2 DEF ActivePaths
  <2>6. SameGeneration' = SameGeneration BY <1>3, <2>2 DEF SameGeneration
  <2> QED BY <1>3, <2>2, <2>3, <2>4, <2>5, <2>6, ReconfiguredKeeps
<1>5. CASE SwitchProxy
  <2>1. PICK p \in ActivePaths(c) :
          c2 = [c EXCEPT !.configuration.revision = @ + 1,
                         !.configuration.paths = IF p \in @ THEN @ \ {p} ELSE @ \cup {p}]
    BY <1>5 DEF SwitchProxy
  <2> DEFINE paths == IF p \in c.configuration.paths THEN c.configuration.paths \ {p}
                      ELSE c.configuration.paths \cup {p}
  <2>2. paths \in SUBSET Paths /\ c.deleting \in SUBSET Paths
    BY <1>1, <1>2 DEF ActivePaths, CenterType
  <2>3. c2 = [c EXCEPT !.configuration = [c.configuration EXCEPT !.revision = @ + 1, !.paths = paths],
                       !.deleting = c.deleting]
    BY <1>1, <2>1 DEF CenterType, Configuration
  <2> HIDE DEF paths
  <2> QED BY <1>4, <2>2, <2>3
<1>6. CASE DeleteProxy
  <2>1. PICK p \in ActivePaths(c) :
          c2 = [c EXCEPT !.configuration.revision = @ + 1, !.configuration.paths = @ \ {p},
                         !.deleting = @ \cup {p}]
    BY <1>6 DEF DeleteProxy
  <2> DEFINE paths == c.configuration.paths \ {p}
             deleting == c.deleting \cup {p}
  <2>2. paths \in SUBSET Paths /\ deleting \in SUBSET Paths /\ c.deleting \subseteq deleting
    BY <1>1, <1>2 DEF ActivePaths, CenterType
  <2>3. c2 = [c EXCEPT !.configuration = [c.configuration EXCEPT !.revision = @ + 1, !.paths = paths],
                       !.deleting = deleting]
    BY <1>1, <2>1 DEF CenterType, Configuration
  <2> HIDE DEF paths, deleting
  <2> QED BY <1>4, <2>2, <2>3
<1>7. CASE ResetAddresses
  <2>1. c2 = [c EXCEPT !.configuration.revision = @ + 1, !.configuration.generation = @ + 1,
                       !.events = {}, !.gaps = {}, !.unattributed = {}]
    BY <1>7 DEF ResetAddresses
  <2> DEFINE new == [c.configuration EXCEPT !.revision = @ + 1, !.generation = @ + 1]
  <2>2. /\ new \in Configuration /\ new.revision = c.configuration.revision + 1
        /\ new.generation = c.configuration.generation + 1
    <3>1. c.configuration \in Configuration
      BY <1>1 DEF CenterType
    <3>2. /\ c.configuration.revision + 1 \in 1 .. MaxAddressRevisions
          /\ c.configuration.generation + 1 \in 1 .. MaxAddressRevisions
      BY <1>2
    <3> QED BY <3>1, <3>2 DEF Configuration
  <2>3. c2 = [c EXCEPT !.configuration = new, !.events = {}, !.gaps = {}, !.unattributed = {}]
    BY <1>1, <2>1 DEF CenterType, Configuration
  <2> HIDE DEF new
  <2>4. c2 \in CenterType /\ c2.configuration = new
    BY <1>1, <2>2, <2>3 DEF CenterType
  <2>5. Reconfigured' BY <1>2, <2>2, <2>4 DEF Reconfigured
  <2>6. Configurations' BY <1>1, <1>2, <1>3, <2>2, <2>4 DEF Configurations
  <2>7. ~SameGeneration' BY <1>1, <1>2, <1>3, <2>2, <2>4 DEF SameGeneration, Configurations
  <2> QED BY <1>3, <2>4, <2>5, <2>6, <2>7, ReconfiguredKeeps
<1> QED BY <1>5, <1>6, <1>7

\* The deletion worker.
LEMMA DeletionStep ==
  ASSUME AddressInductive, DeletePathHistory \/ DeletePath
  PROVE  AddressInductive'
<1> DEFINE c == addressCenter
           c2 == addressCenter'
<1>1. c \in CenterType /\ Configurations /\ Unchanging
  BY AddressTypes DEF AddressInductive
<1>2. UNCHANGED <<addressDisk, addressCheck, addressSent, addressAnswer, addressLate, addressLog>>
  BY DEF DeletePathHistory, DeletePath
<1>3. PICK p \in c.deleting :
        \/ c2 = [c EXCEPT !.gaps = {g \in @ : g.path # p}]
        \/ c2 = [c EXCEPT !.rows = @ \ {p}, !.deleting = @ \ {p}, !.at[p] = NoIP]
  BY DEF DeletePathHistory, DeletePath
<1>4. Reconfigured
  BY <1>1, <1>3 DEF Unchanging, FirstConfigured
<1>5. /\ c2 \in CenterType /\ c2.configuration = c.configuration
      /\ c2.events = c.events /\ c2.unattributed = c.unattributed
      /\ ActivePaths(c2) \subseteq ActivePaths(c)
      /\ \A g \in c.gaps : g.path \in ActivePaths(c2) => g \in c2.gaps
  <2>1. CASE c2 = [c EXCEPT !.gaps = {g \in @ : g.path # p}]
    <3> DEFINE gaps == {g \in c.gaps : g.path # p}
    <3>1. gaps \subseteq c.gaps /\ \A g \in c.gaps : g \notin gaps => g.path = p
      OBVIOUS
    <3>2. c2 = [c EXCEPT !.gaps = gaps]
      BY <2>1
    <3> HIDE DEF gaps
    <3> QED BY <1>1, <3>1, <3>2 DEF CenterType, ActivePaths
  <2>2. CASE c2 = [c EXCEPT !.rows = @ \ {p}, !.deleting = @ \ {p}, !.at[p] = NoIP]
    <3> DEFINE at == [c.at EXCEPT ![p] = NoIP]
    <3>1. at \in [Paths -> IPs]
      BY <1>1 DEF CenterType, IPs
    <3>2. c2 = [c EXCEPT !.rows = c.rows \ {p}, !.deleting = c.deleting \ {p}, !.at = at]
      BY <2>2
    <3> HIDE DEF at
    <3> QED BY <1>1, <3>1, <3>2 DEF CenterType, ActivePaths
  <2> QED BY <1>3, <2>1, <2>2
<1>6. Reconfigured' /\ Configurations' /\ SameGeneration' = SameGeneration
  BY <1>1, <1>2, <1>4, <1>5 DEF Reconfigured, Configurations, SameGeneration
<1> QED BY <1>2, <1>5, <1>6, ReconfiguredKeeps

-----------------------------------------------------------------------------
(* Theorems                                                                *)

LEMMA AddressStart == AddressInit => AddressInductive
<1> SUFFICES ASSUME AddressInit PROVE AddressInductive OBVIOUS
<1> DEFINE d == addressDisk
<1>1. /\ d.configuration = FirstConfiguration /\ d.queue = {} /\ d.states = [p \in Paths |-> Unchecked]
      /\ d.gaps = [p \in Paths |-> NoAddressGap]
      /\ addressCheck = NoCheck /\ addressSent = NoUpload /\ addressAnswer = "none" /\ addressLate = {}
      /\ addressCenter.configuration = FirstConfiguration /\ addressCenter.events = {}
      /\ addressCenter.rows = Paths /\ addressCenter.deleting = {}
      /\ addressLog = [events |-> {}, count |-> 0]
  BY DEF AddressInit
<1>2. FirstConfiguration \in Configuration
  BY AddressAssumption DEF FirstConfiguration, Configuration
<1>3. 0 \in Count BY AddressAssumption DEF Count
<1>4. Unchecked \in PathState BY <1>3 DEF Unchecked, PathState, IPs
<1>5. d \in DiskType /\ addressCenter \in CenterType
  BY <1>2, <1>4, NoUploadType DEF AddressInit, DiskType, CenterType, IPs
<1>6. \A p : Cardinality({e \in d.queue : e.path = p}) <= MaxPathEvents
  <2>1. \A p : {e \in d.queue : e.path = p} = {} BY <1>1
  <2>2. Cardinality({}) = 0 BY FS_EmptySet
  <2> QED BY <2>1, <2>2, AddressAssumption
<1>7. AddressTypeOK BY <1>1, <1>3, <1>5, <1>6, NoUploadType, AddressTypes
<1>8. QueueAndGaps
  <2>1. IsFiniteSet(d.queue) BY <1>1, FS_EmptySet
  <2> QED BY <1>1, <1>6, <2>1 DEF QueueAndGaps, QueueSound, GapsSound
<1>9. Configurations BY <1>1 DEF Configurations, FirstConfiguration
<1>10. Uploading BY <1>1 DEF Uploading, NoUpload
<1>11. LogSound BY <1>1, FS_EmptySet DEF LogSound, Unchecked
<1>12. AcceptedStored BY <1>1 DEF AcceptedStored
<1>13. Accounted BY <1>1 DEF Accounted
<1>14. TailKnown(d, Numbered, KnownEvents) BY <1>1 DEF TailKnown, Numbered, Unchecked
<1>15. HolesKnown(d.gaps, KnownEvents) BY <1>1, NoHoles DEF HolesKnown
<1>16. Unchanging
  BY <1>1, <1>14, <1>15, NoHoles DEF Unchanging, FirstConfigured, LogNumbered, FromLog, LossesKnown
<1>17. AddressRefusals BY <1>1 DEF AddressRefusals
<1>18. SetEventsBalance
  <2>1. \A ip \in PublicIPs : Holders(ip) = {}
    BY <1>1, AddressAssumption DEF Holders, Unchecked, NoIP
  <2>2. \A ip, kinds : OfKind(addressLog.events, ip, kinds) = {} BY <1>1 DEF OfKind
  <2>3. Balanced BY <2>1, <2>2, FS_EmptySet DEF Balanced
  <2> QED BY <2>3, BalanceOf
<1> QED BY <1>7, <1>8, <1>9, <1>10, <1>11, <1>12, <1>13, <1>16, <1>17, <1>18 DEF AddressInductive

LEMMA AddressStep == AddressInductive /\ [AddressNext]_addressVars => AddressInductive'
<1> SUFFICES ASSUME AddressInductive, [AddressNext]_addressVars PROVE AddressInductive'
  OBVIOUS
<1>1. addressCheck \in {NoCheck} \cup [path : Paths, revision : 1 .. MaxAddressRevisions]
      /\ addressDisk \in DiskType
  BY AddressTypes DEF AddressInductive
<1>2. CASE CheckPath
  <2>1. addressCheck' \in [path : Paths, revision : 1 .. MaxAddressRevisions]
    BY <1>1, <1>2 DEF CheckPath, DiskType, Configuration
  <2> QED BY <1>2, <2>1, IdleStep DEF CheckPath
<1>3. CASE RecordAddressObservation
  <2>1. addressCheck.path \in Paths
    BY <1>1, <1>3 DEF RecordAddressObservation
  <2>2. CASE addressCheck.revision = addressDisk.configuration.revision
    <3>1. PICK ip \in IPs : Observe(addressCheck.path, ip)
      BY <1>3, <2>2 DEF RecordAddressObservation
    <3> QED BY <1>3, <2>1, <3>1, ObserveStep DEF RecordAddressObservation
  <2>3. CASE addressCheck.revision # addressDisk.configuration.revision
    BY <1>3, <2>3, IdleStep DEF RecordAddressObservation
  <2> QED BY <2>2, <2>3
<1>4. CASE UNCHANGED addressVars
  BY <1>1, <1>4, IdleStep DEF addressVars
<1> QED BY <1>2, <1>3, <1>4, SendStep, PollStep, LatePollStep, AcknowledgeStep, ApplyStep, PollFailsStep,
           ReconfigureStep, DeletionStep DEF AddressNext

\* Every event of the current generation is queued within the limit of its path, counted in
\* a gap, or known to the Center: RecordAddressObservation, AcknowledgeAddressUpload and
\* ingestAddressUpload, for any limit, order and loss of polls.
THEOREM AddressEventsAccounted == AddressSpec => []EveryAddressEventAccounted
<1>1. AddressInductive => EveryAddressEventAccounted
  BY DEF AddressInductive, Accounted, Covered, EveryAddressEventAccounted
<1> QED BY <1>1, AddressStart, AddressStep, PTL DEF AddressSpec

\* validateAddressUpload and ingestAddressEvent refuse an honest Agent for two reasons only.
THEOREM RefusalsExplained == AddressSpec => []AddressRefusals
<1>1. AddressInductive => AddressRefusals
  BY DEF AddressInductive
<1> QED BY <1>1, AddressStart, AddressStep, PTL DEF AddressSpec

\* transitionAddressState: its events of entering and leaving add up to the addresses held,
\* for any number of paths that share them.
THEOREM SetEventsAddUp == AddressSpec => []SetEventsBalance
<1>1. AddressInductive => SetEventsBalance
  BY DEF AddressInductive
<1> QED BY <1>1, AddressStart, AddressStep, PTL DEF AddressSpec
=============================================================================
