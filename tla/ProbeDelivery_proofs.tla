------------------------- MODULE ProbeDelivery_proofs -------------------------
(***************************************************************************)
(* What the Center shows of the probes of one Agent, for every number of   *)
(* runs, revisions and generations, and every set of targets.              *)
(*                                                                         *)
(* HistoryInv joins ProbeInv (AgentProbe_proofs) with the invariant of     *)
(* the Center's history (CenterInv), the steps of a reset (ResetInv), what *)
(* an artifact on its way says of the Agent's records (FlightInv) and what *)
(* the Center's rows say of them (Reflects).  AccountInv adds what was     *)
(* sent (SentSound), what was answered (AnswerSound) and what became of    *)
(* each sequence (Accounted).                                              *)
(* DeliveredInv adds a store that forgets no run (HistoryLogged) and what  *)
(* keeps the Center from refusing an upload (GapsAgree, NotOvertaken).     *)
(***************************************************************************)
EXTENDS ProbeUpload, AgentProbe_proofs

\* One step of Advance's walk, given the steps after it.
WalkFrom(c, t, path, n) ==
    IF Stored(c, t, n) # {}
    THEN IF Decided(c, t, n)
         THEN [stop |-> path[n + 1].stop, taken |-> path[n + 1].taken \cup Stored(c, t, n)]
         ELSE [stop |-> n, taken |-> {}]
    ELSE IF Covering(c, t, n) # {} THEN path[Max({gap.last : gap \in Covering(c, t, n)}) + 1]
    ELSE [stop |-> n, taken |-> {}]

IsWalk(c, t, path) == path = [n \in 1 .. MaxRuns + 1 |-> WalkFrom(c, t, path, n)]

\* Each stored execution belongs to a stored run, has a sequence of its own, and the
\* gaps are intervals of sequences.
Rows(c) ==
    \A t \in Targets :
        /\ \A r \in RunId : c.execs[r][t].status # "none" =>
              c.runs[r] # "none" /\ c.execs[r][t].seq \in 1 .. MaxRuns
        /\ \A r, q \in RunId :
              c.execs[r][t].status # "none" /\ c.execs[q][t].status # "none"
                 /\ c.execs[r][t].seq = c.execs[q][t].seq => r = q
        /\ \A gap \in c.gaps[t] : gap.first <= gap.last /\ gap.last <= MaxRuns

\* CurrentIsNewest of a history, and the row the current snapshot is of.
Snapshots(c) ==
    \A t \in Targets :
        /\ c.current[t] # 0 => c.execs[c.current[t]][t].status = "succeeded"
        /\ \A r \in RunId : c.execs[r][t].status = "succeeded" =>
              c.current[t] # 0 /\ c.execs[r][t].seq <= c.execs[c.current[t]][t].seq

\* The comparison has passed outcomes and gaps only.
Passed(c) ==
    \A t \in Targets :
        /\ c.next[t] \in 1 .. MaxRuns + 1
        /\ \A n \in 1 .. c.next[t] - 1 : Decided(c, t, n) \/ Covering(c, t, n) # {}

Success(c, t, r) == c.execs[r][t].status = "succeeded"

\* ComparedInOrder of a history: the change sets form a chain that ends in the last
\* success the comparison took.
Compared(c) ==
    \A t \in Targets :
        LET seq(r) == c.execs[r][t].seq
        IN  /\ \A x \in c.changes[t] :
                 /\ Success(c, t, x[1]) /\ seq(x[1]) < c.next[t]
                 /\ x[2] # 0 => Success(c, t, x[2]) /\ seq(x[2]) < seq(x[1])
                 /\ c.last[t] # 0 /\ seq(x[1]) <= seq(c.last[t])
                 /\ \A y \in c.changes[t] \ {x} : x[1] # y[1] /\ x[2] # y[2]
            /\ c.last[t] # 0 => Success(c, t, c.last[t]) /\ seq(c.last[t]) < c.next[t]
            /\ \A r \in RunId : Success(c, t, r) /\ seq(r) < c.next[t] =>
                 (\E x \in c.changes[t] : x[1] = r) \/ Covering(c, t, seq(r)) # {}

CenterInv(c) == c \in History /\ Rows(c) /\ Snapshots(c) /\ Passed(c) /\ Compared(c)

\* The path Advance follows is the recursive function of its definition, unfolded once.
LEMMA WalkIs ==
  ASSUME NEW c, NEW t
  PROVE  Walk(c, t) = (CHOOSE path : IsWalk(c, t, path))[c.next[t]]
BY DEF Walk, IsWalk, WalkFrom

\* The fields of a history.
LEMMA HistoryFields ==
  ASSUME NEW c \in History
  PROVE  /\ c.gen \in Generation /\ c.pending \in Generation \cup {0}
         /\ \A r \in RunId : c.runs[r] \in {"none", "running"} \cup FinalRunStatus
         /\ \A r \in RunId, t \in Targets :
              /\ c.execs[r][t].seq \in Nat
              /\ c.execs[r][t].status \in {"none", "pending", "running"} \cup TerminalStatus
         /\ \A t \in Targets :
              /\ c.current[t] \in RunId \cup {0} /\ c.last[t] \in RunId \cup {0}
              /\ c.next[t] \in Nat
              /\ \A x \in c.changes[t] : x[1] \in RunId /\ x[2] \in RunId \cup {0}
              /\ \A gap \in c.gaps[t] : /\ gap.first \in Nat /\ gap.last \in Nat
                                        /\ gap.count \in Nat /\ gap.id \in RunId
BY DEF History

\* Where no execution is stored but gaps cover, the walk jumps behind a covering gap.
LEMMA Widest ==
  ASSUME NEW c \in History, Rows(c), NEW t \in Targets, NEW n \in Nat, Covering(c, t, n) # {}
  PROVE  LET m == Max({gap.last : gap \in Covering(c, t, n)})
         IN  /\ m \in Nat /\ n <= m /\ m <= MaxRuns
             /\ \A k \in n .. m : Covering(c, t, k) # {}
<1> DEFINE lasts == {gap.last : gap \in Covering(c, t, n)}
           m == Max(lasts)
<1>1. /\ MaxRuns \in Nat
      /\ \A gap \in Covering(c, t, n) : /\ gap.first \in Nat /\ gap.last \in Nat
                                        /\ gap.first <= n /\ n <= gap.last
                                        /\ gap.last <= MaxRuns
  BY HistoryFields, BoundAssumption DEF Covering, Rows
<1>2. lasts \in SUBSET (0 .. MaxRuns) /\ lasts # {}
  BY <1>1
<1>3. lasts \in SUBSET Nat /\ IsFiniteSet(lasts)
  <2> HIDE DEF lasts
  <2>1. IsFiniteSet(0 .. MaxRuns) /\ \A k \in 0 .. MaxRuns : k \in Nat
    BY <1>1, FS_Interval
  <2>2. IsFiniteSet(lasts)
    BY <1>2, <2>1, FS_Subset, Zenon
  <2> QED BY <1>2, <2>1, <2>2
<1>4. m \in lasts
  <2> HIDE DEF lasts
  <2> QED BY <1>2, <1>3, MaxProperty
<1>5. PICK gap \in Covering(c, t, n) : m = gap.last
  BY <1>4, Zenon
<1>6. \A k \in n .. m : gap \in Covering(c, t, k)
  BY <1>1, <1>5 DEF Covering
<1> HIDE DEF m
<1>7. \A k \in n .. m : Covering(c, t, k) # {}
  BY <1>6
<1> QED BY <1>1, <1>5, <1>7 DEF m

\* A step depends on the steps after it only, and the last sequence is one nothing is
\* known of.
LEMMA WalkStep ==
  ASSUME NEW c \in History, Rows(c), NEW t \in Targets, NEW n \in 1 .. MaxRuns + 1
  PROVE  /\ \A f, g : (\A k \in n + 1 .. MaxRuns + 1 : f[k] = g[k])
                         => WalkFrom(c, t, f, n) = WalkFrom(c, t, g, n)
         /\ n = MaxRuns + 1 => \A f : WalkFrom(c, t, f, n) = [stop |-> n, taken |-> {}]
<1>1. MaxRuns \in Nat /\ n \in Nat
  BY BoundAssumption
<1>2. Stored(c, t, n) # {} => n + 1 \in n + 1 .. MaxRuns + 1
  <2>1. Stored(c, t, n) # {} => n \in 1 .. MaxRuns
    BY DEF Stored, Rows
  <2> QED BY <1>1, <2>1
<1>3. Covering(c, t, n) # {} =>
         Max({gap.last : gap \in Covering(c, t, n)}) + 1 \in n + 1 .. MaxRuns + 1
  <2> DEFINE m == Max({gap.last : gap \in Covering(c, t, n)})
  <2> HIDE DEF m
  <2>1. Covering(c, t, n) # {} => m \in Nat /\ n <= m /\ m <= MaxRuns
    BY <1>1, Widest DEF m
  <2>2. Covering(c, t, n) # {} => m + 1 \in n + 1 .. MaxRuns + 1
    BY <1>1, <2>1
  <2> QED BY <2>2 DEF m
<1>4. \A f, g : (\A k \in n + 1 .. MaxRuns + 1 : f[k] = g[k])
                   => WalkFrom(c, t, f, n) = WalkFrom(c, t, g, n)
  BY <1>2, <1>3, Zenon DEF WalkFrom
<1>5. n = MaxRuns + 1 => Stored(c, t, n) = {} /\ Covering(c, t, n) = {}
  <2>1. \A k \in n + 1 .. MaxRuns + 1 : n < MaxRuns + 1
    BY <1>1
  <2> QED BY <1>1, <1>2, <1>3, <2>1
<1> QED BY <1>4, <1>5 DEF WalkFrom

\* The recursion of the walk has a solution: otherwise there is a least sequence from
\* which on it has one, and the step before it extends that one.
LEMMA WalkExists ==
  ASSUME NEW c \in History, Rows(c), NEW t \in Targets
  PROVE  \E path : IsWalk(c, t, path)
<1> DEFINE N == MaxRuns + 1
           Solves(g, m) == g = [n \in m .. N |-> WalkFrom(c, t, g, n)]
           S == {m \in 1 .. N : \E g : Solves(g, m)}
<1>1. MaxRuns \in Nat /\ N \in 1 .. N
  BY BoundAssumption
<1>2. N \in S
  <2> DEFINE g == [n \in N .. N |-> [stop |-> n, taken |-> {}]]
  <2>1. \A n \in N .. N : WalkFrom(c, t, g, n) = [stop |-> n, taken |-> {}]
    <3> HIDE DEF g
    <3> QED BY <1>1, WalkStep
  <2>2. Solves(g, N)
    BY <2>1
  <2> QED BY <1>1, <2>2
<1>3. PICK m \in S : \A k \in S : m <= k
  <2>1. S \in SUBSET Nat
    OBVIOUS
  <2> HIDE DEF S
  <2> QED BY <1>2, <2>1, NatMinimum
<1>4. PICK g : Solves(g, m)
  BY <1>3
<1>5. m \in 1 .. N
  BY <1>3
<1>6. CASE m = 1
  BY <1>4, <1>6 DEF IsWalk
<1>7. CASE m # 1
  <2> DEFINE h == [n \in m - 1 .. N |-> IF n = m - 1 THEN WalkFrom(c, t, g, n) ELSE g[n]]
  <2>1. m - 1 \in 1 .. N /\ m - 1 \notin m .. N
    BY <1>1, <1>5, <1>7
  <2>2. \A k \in m .. N : h[k] = g[k]
    BY <1>1, <1>5, <2>1
  <2>3. \A n \in m - 1 .. N : WalkFrom(c, t, h, n) = WalkFrom(c, t, g, n)
    <3> SUFFICES ASSUME NEW n \in m - 1 .. N PROVE WalkFrom(c, t, h, n) = WalkFrom(c, t, g, n)
      OBVIOUS
    <3>1. n \in 1 .. MaxRuns + 1 /\ \A k \in n + 1 .. MaxRuns + 1 : k \in m .. N
      BY <1>1, <1>5, <2>1
    <3> HIDE DEF h
    <3>2. \A k \in n + 1 .. MaxRuns + 1 : h[k] = g[k]
      BY <2>2, <3>1
    <3> QED BY <3>1, <3>2, WalkStep
  <2>4. \A n \in m - 1 .. N : h[n] = WalkFrom(c, t, g, n)
    <3>1. \A n \in m .. N : g[n] = WalkFrom(c, t, g, n)
      BY <1>4, Zenon
    <3>2. \A n \in m - 1 .. N : n # m - 1 => n \in m .. N
      BY <1>1, <1>5
    <3> QED BY <3>1, <3>2
  <2>5. h = [n \in m - 1 .. N |-> h[n]]
    OBVIOUS
  <2> HIDE DEF h
  <2>6. Solves(h, m - 1)
    BY <2>3, <2>4, <2>5
  <2>7. m - 1 \in S
    BY <2>1, <2>6
  <2>8. ~(m <= m - 1)
    BY <1>5
  <2> QED BY <1>3, <2>7, <2>8
<1> QED BY <1>6, <1>7

\* The walk from n: it stops at most one after the last sequence, takes outcomes
\* between, and what it does not take a gap covers.
WalkSound(c, t, n, walk) ==
    /\ walk.stop \in n .. MaxRuns + 1
    /\ walk.taken \in SUBSET RunId
    /\ \A r \in walk.taken : /\ Terminal(c.execs[r][t])
                             /\ n <= c.execs[r][t].seq /\ c.execs[r][t].seq < walk.stop
    /\ \A k \in n .. walk.stop - 1 :
         \/ Covering(c, t, k) # {}
         \/ Decided(c, t, k) /\ Stored(c, t, k) \subseteq walk.taken

\* One step of the walk is sound when the steps after it are.
LEMMA WalkStepSound ==
  ASSUME NEW c \in History, Rows(c), NEW t \in Targets, NEW n \in 1 .. MaxRuns + 1, NEW path,
         \A k \in n + 1 .. MaxRuns + 1 : WalkSound(c, t, k, path[k])
  PROVE  WalkSound(c, t, n, WalkFrom(c, t, path, n))
<1> DEFINE walk == WalkFrom(c, t, path, n)
<1>1. MaxRuns \in Nat /\ n \in Nat /\ n <= MaxRuns + 1
  BY BoundAssumption
<1>2. CASE walk = [stop |-> n, taken |-> {}]
  <2>1. n .. n - 1 = {}
    BY <1>1
  <2> HIDE DEF walk
  <2> QED BY <1>1, <1>2, <2>1 DEF WalkSound, walk
<1>3. CASE Stored(c, t, n) # {} /\ Decided(c, t, n)
  <2> DEFINE rest == path[n + 1]
             stored == Stored(c, t, n)
  <2>1. walk.stop = rest.stop /\ walk.taken = rest.taken \cup stored
    BY <1>3 DEF WalkFrom
  <2>2. n + 1 \in n + 1 .. MaxRuns + 1
    <3>1. n \in 1 .. MaxRuns
      BY <1>3 DEF Stored, Rows
    <3> QED BY <1>1, <3>1
  <2>3. WalkSound(c, t, n + 1, rest)
    BY <2>2
  <2> HIDE DEF walk, rest
  <2>4. \A r \in stored : /\ r \in RunId /\ c.execs[r][t].seq = n
                          /\ Terminal(c.execs[r][t])
    <3>1. PICK q \in stored : Terminal(c.execs[q][t])
      BY <1>3 DEF Decided
    <3>2. \A r \in stored : r = q
      BY <3>1 DEF Stored, Rows
    <3> QED BY <3>1, <3>2 DEF Stored
  <2>5. rest.stop \in Nat /\ n + 1 <= rest.stop /\ rest.stop <= MaxRuns + 1
    BY <1>1, <2>3 DEF WalkSound
  <2>6. \A r \in RunId : c.execs[r][t].seq \in Nat
    BY HistoryFields
  <2>7. walk.stop \in n .. MaxRuns + 1 /\ walk.taken \in SUBSET RunId
    BY <1>1, <2>1, <2>3, <2>4, <2>5 DEF WalkSound
  <2>8. \A r \in walk.taken : /\ Terminal(c.execs[r][t])
                              /\ n <= c.execs[r][t].seq /\ c.execs[r][t].seq < walk.stop
    <3> SUFFICES ASSUME NEW r \in walk.taken
                 PROVE  /\ Terminal(c.execs[r][t])
                        /\ n <= c.execs[r][t].seq /\ c.execs[r][t].seq < walk.stop
      OBVIOUS
    <3>1. CASE r \in stored
      BY <1>1, <2>1, <2>4, <2>5, <3>1
    <3>2. CASE r \in rest.taken
      BY <1>1, <2>1, <2>3, <2>5, <2>6, <3>2 DEF WalkSound
    <3> QED BY <2>1, <3>1, <3>2
  <2>9. \A k \in n .. walk.stop - 1 :
           \/ Covering(c, t, k) # {}
           \/ Decided(c, t, k) /\ Stored(c, t, k) \subseteq walk.taken
    <3> SUFFICES ASSUME NEW k \in n .. walk.stop - 1
                 PROVE  \/ Covering(c, t, k) # {}
                        \/ Decided(c, t, k) /\ Stored(c, t, k) \subseteq walk.taken
      OBVIOUS
    <3>1. CASE k = n
      BY <1>3, <2>1, <3>1
    <3>2. CASE k # n
      <4>1. k \in n + 1 .. rest.stop - 1
        BY <1>1, <2>1, <2>5, <3>2
      <4> QED BY <2>1, <2>3, <4>1 DEF WalkSound
    <3> QED BY <3>1, <3>2
  <2> QED BY <2>7, <2>8, <2>9 DEF WalkSound, walk
<1>4. CASE Stored(c, t, n) = {} /\ Covering(c, t, n) # {}
  <2> DEFINE m == Max({gap.last : gap \in Covering(c, t, n)})
             rest == path[m + 1]
  <2>1. walk = rest
    BY <1>4 DEF WalkFrom
  <2>2. /\ m \in Nat /\ n <= m /\ m <= MaxRuns
        /\ \A k \in n .. m : Covering(c, t, k) # {}
    BY <1>1, <1>4, Widest
  <2> HIDE DEF m
  <2>3. m + 1 \in n + 1 .. MaxRuns + 1
    BY <1>1, <2>2
  <2>4. WalkSound(c, t, m + 1, rest)
    BY <2>3
  <2> HIDE DEF walk, rest
  <2>5. rest.stop \in Nat /\ m + 1 <= rest.stop /\ rest.stop <= MaxRuns + 1
    BY <1>1, <2>2, <2>4 DEF WalkSound
  <2>6. \A r \in RunId : c.execs[r][t].seq \in Nat
    BY HistoryFields
  <2>7. \A k \in n .. rest.stop - 1 : k \in n .. m \/ k \in m + 1 .. rest.stop - 1
    BY <1>1, <2>2, <2>5
  <2>8. \A r \in rest.taken : n <= c.execs[r][t].seq
    BY <1>1, <2>2, <2>4, <2>6 DEF WalkSound
  <2>9. rest.stop \in n .. MaxRuns + 1
    BY <1>1, <2>2, <2>5
  <2>10. WalkSound(c, t, n, rest)
    BY <2>2, <2>4, <2>7, <2>8, <2>9 DEF WalkSound
  <2> QED BY <2>1, <2>10 DEF walk
<1>5. \/ Stored(c, t, n) # {} /\ Decided(c, t, n)
      \/ Stored(c, t, n) = {} /\ Covering(c, t, n) # {}
      \/ walk = [stop |-> n, taken |-> {}]
  BY DEF WalkFrom
<1> QED BY <1>2, <1>3, <1>4, <1>5

\* What Advance walks over, from the greatest counterexample.
LEMMA WalkFacts ==
  ASSUME NEW c \in History, Rows(c), NEW t \in Targets, c.next[t] \in 1 .. MaxRuns + 1
  PROVE  WalkSound(c, t, c.next[t], Walk(c, t))
<1> DEFINE N == MaxRuns + 1
           path == CHOOSE f : IsWalk(c, t, f)
           Bad == {n \in 1 .. N : ~WalkSound(c, t, n, path[n])}
<1>1. IsWalk(c, t, path)
  BY WalkExists
<1>2. Walk(c, t) = path[c.next[t]]
  BY WalkIs
<1> HIDE DEF path
<1>3. \A n \in 1 .. N : path[n] = WalkFrom(c, t, path, n)
  BY <1>1, Zenon DEF IsWalk
<1>4. MaxRuns \in Nat
  BY BoundAssumption
<1>5. SUFFICES ASSUME Bad # {} PROVE FALSE
  BY <1>2
<1>6. PICK n \in Bad : \A k \in Bad : n >= k
  <2>1. Bad \in SUBSET Nat /\ IsFiniteSet(Bad)
    <3>1. IsFiniteSet(1 .. N)
      BY <1>4, FS_Interval
    <3>2. Bad \in SUBSET (1 .. N) /\ Bad \in SUBSET Nat
      OBVIOUS
    <3> HIDE DEF Bad
    <3>3. IsFiniteSet(Bad)
      BY <3>1, <3>2, FS_Subset, Zenon
    <3> QED BY <3>2, <3>3
  <2> HIDE DEF Bad
  <2> QED BY <1>5, <2>1, MaxProperty, Zenon
<1>7. \A k \in n + 1 .. N : k \in 1 .. N /\ ~(n >= k)
  BY <1>4, <1>6
<1>8. \A k \in n + 1 .. N : WalkSound(c, t, k, path[k])
  BY <1>6, <1>7
<1>9. WalkSound(c, t, n, path[n])
  BY <1>3, <1>6, <1>8, WalkStepSound
<1> QED BY <1>6, <1>9

\* The latest of some executions.
LEMMA LatestIs ==
  ASSUME NEW c \in History, NEW t \in Targets, NEW R \in SUBSET RunId, R # {}
  PROVE  /\ Latest(c, t, R) \in R
         /\ \A q \in R : c.execs[q][t].seq <= c.execs[Latest(c, t, R)][t].seq
<1> DEFINE seq == [r \in R |-> c.execs[r][t].seq]
           seqs == {seq[r] : r \in R}
<1>1. \A r \in R : seq[r] \in Nat /\ seq[r] = c.execs[r][t].seq
  BY HistoryFields
<1>2. seqs \in SUBSET Nat /\ seqs # {}
  BY <1>1
<1>3. IsFiniteSet(seqs)
  <2>1. IsFiniteSet(R) /\ seq \in [R -> Nat]
    BY <1>1, RunIdFinite, FS_Subset, Zenon
  <2> HIDE DEF seq
  <2> QED BY <2>1, FiniteImage
<1>4. Max(seqs) \in seqs /\ \A n \in seqs : Max(seqs) >= n
  <2> HIDE DEF seqs
  <2> QED BY <1>2, <1>3, MaxProperty
<1>5. PICK r \in R : seq[r] = Max(seqs)
  BY <1>4, Zenon
<1> HIDE DEF seq
<1>6. \A q \in R : seq[q] <= seq[r]
  <2>1. \A q \in R : seq[q] \in seqs
    OBVIOUS
  <2>2. \A q \in R : Max(seqs) >= seq[q]
    BY <1>4, <2>1
  <2> QED BY <1>1, <1>5, <2>2
<1>7. \E p \in R : \A q \in R : c.execs[q][t].seq <= c.execs[p][t].seq
  BY <1>1, <1>6
<1> QED BY <1>7 DEF Latest

\* Advance keeps the invariant: what it takes lies behind all it took before, and each
\* success it takes is compared with the one before it.
LEMMA AdvanceInv ==
  ASSUME NEW c, CenterInv(c), NEW t \in Targets
  PROVE  LET new == Advance(c, t)
         IN  /\ CenterInv(new)
             /\ new.gen = c.gen /\ new.pending = c.pending /\ new.runs = c.runs
             /\ new.execs = c.execs /\ new.gaps = c.gaps /\ new.current = c.current
<1> DEFINE walk == Walk(c, t)
           new == Advance(c, t)
           seq(r) == c.execs[r][t].seq
           n == c.next[t]
           won == {r \in walk.taken : c.execs[r][t].status = "succeeded"}
           ran == {r \in walk.taken : c.execs[r][t].status # "skipped"}
           before(r) == {q \in won : c.execs[q][t].seq < c.execs[r][t].seq}
           previous(r) == IF before(r) = {} THEN c.last[t] ELSE Latest(c, t, before(r))
           last == IF won = {} THEN c.last[t] ELSE Latest(c, t, won)
           changes == c.changes[t] \cup {<<r, previous(r)>> : r \in won}
           outcome == IF ran = {} THEN c.outcome[t]
                      ELSE IF Latest(c, t, ran) \in won THEN "healthy" ELSE "failed"
<1>0. c \in History /\ Rows(c) /\ Snapshots(c) /\ Passed(c) /\ Compared(c)
  BY DEF CenterInv
<1>1. /\ MaxRuns \in Nat /\ n \in Nat /\ n \in 1 .. MaxRuns + 1
      /\ \A r \in RunId : r # 0 /\ r \in Nat /\ seq(r) \in Nat
      /\ c.last[t] \in RunId \cup {0}
  BY <1>0, BoundAssumption, HistoryFields DEF Passed, RunId
<1>2. /\ WalkSound(c, t, n, walk)
      /\ walk.stop \in Nat /\ n <= walk.stop /\ walk.stop <= MaxRuns + 1
  <2>1. WalkSound(c, t, n, walk)
    BY <1>0, <1>1, WalkFacts
  <2> QED BY <1>1, <2>1 DEF WalkSound
<1>3. /\ won \in SUBSET RunId
      /\ \A r \in won : Success(c, t, r) /\ n <= seq(r) /\ seq(r) < walk.stop
  BY <1>2 DEF WalkSound, Success
<1>4. new = [c EXCEPT !.next[t] = walk.stop, !.last[t] = last, !.changes[t] = changes,
                      !.outcome[t] = outcome]
  BY DEF Advance
<1> HIDE DEF walk, won, new
<1>5. \A r \in won :
        /\ before(r) \in SUBSET won /\ before(r) \in SUBSET RunId
        /\ before(r) # {} => /\ previous(r) \in before(r)
                             /\ \A q \in before(r) : seq(q) <= seq(previous(r))
  <2> SUFFICES ASSUME NEW r \in won
               PROVE  /\ before(r) \in SUBSET won /\ before(r) \in SUBSET RunId
                      /\ before(r) # {} => /\ previous(r) \in before(r)
                                           /\ \A q \in before(r) : seq(q) <= seq(previous(r))
    BY Zenon
  <2> DEFINE B == before(r)
  <2>1. B \in SUBSET won /\ B \in SUBSET RunId
    BY <1>3
  <2> HIDE DEF B
  <2>2. B # {} => /\ Latest(c, t, B) \in B
                  /\ \A q \in B : seq(q) <= seq(Latest(c, t, B))
    BY <1>0, <2>1, LatestIs
  <2> QED BY <2>1, <2>2, Zenon DEF B
<1>6. \A r \in won : /\ previous(r) \in RunId \cup {0}
                     /\ previous(r) # 0 => Success(c, t, previous(r)) /\ seq(previous(r)) < seq(r)
  <2> SUFFICES ASSUME NEW r \in won
               PROVE  /\ previous(r) \in RunId \cup {0}
                      /\ previous(r) # 0 => Success(c, t, previous(r)) /\ seq(previous(r)) < seq(r)
    BY Zenon
  <2>1. CASE before(r) = {}
    <3>1. previous(r) = c.last[t]
      BY <2>1
    <3>2. c.last[t] # 0 => Success(c, t, c.last[t]) /\ seq(c.last[t]) < n
      BY <1>0 DEF Compared
    <3>3. c.last[t] # 0 => seq(c.last[t]) < seq(r)
      BY <1>1, <1>3, <3>2
    <3> HIDE DEF previous
    <3> QED BY <1>1, <3>1, <3>2, <3>3
  <2>2. CASE before(r) # {}
    <3>1. previous(r) \in won /\ previous(r) \in RunId /\ seq(previous(r)) < seq(r)
      BY <1>5, <2>2, Zenon
    <3> HIDE DEF previous
    <3> QED BY <1>3, <3>1
  <2> QED BY <2>1, <2>2
<1>7. /\ last \in RunId \cup {0}
      /\ last # 0 => Success(c, t, last) /\ seq(last) < walk.stop
      /\ won = {} => last = c.last[t]
      /\ \A r \in won : last # 0 /\ seq(r) <= seq(last)
      /\ c.last[t] # 0 => last # 0 /\ seq(c.last[t]) <= seq(last)
  <2>0. c.last[t] # 0 => Success(c, t, c.last[t]) /\ seq(c.last[t]) < n
    BY <1>0 DEF Compared
  <2>1. CASE won = {}
    BY <1>1, <1>2, <2>0, <2>1
  <2>2. CASE won # {}
    <3>1. last \in won /\ \A q \in won : seq(q) <= seq(last)
      BY <1>0, <1>3, <2>2, LatestIs
    <3> HIDE DEF last
    <3> QED BY <1>1, <1>3, <2>0, <2>2, <3>1
  <2> QED BY <2>1, <2>2
<1>8. \A x \in c.changes[t] :
        /\ x[1] \in RunId /\ x[2] \in RunId \cup {0}
        /\ Success(c, t, x[1]) /\ seq(x[1]) < n
        /\ x[2] # 0 => Success(c, t, x[2]) /\ seq(x[2]) < seq(x[1])
        /\ c.last[t] # 0 /\ seq(x[1]) <= seq(c.last[t])
        /\ \A y \in c.changes[t] \ {x} : x[1] # y[1] /\ x[2] # y[2]
  BY <1>0, HistoryFields DEF Compared
<1>9. \A x \in c.changes[t], r \in won : x[1] # r /\ x[2] # previous(r)
  <2> SUFFICES ASSUME NEW x \in c.changes[t], NEW r \in won
               PROVE  x[1] # r /\ x[2] # previous(r)
    BY Zenon
  <2>1. x[1] # r
    BY <1>1, <1>3, <1>8
  <2>2. CASE before(r) = {}
    <3>1. previous(r) = c.last[t]
      BY <2>2
    <3>2. x[2] # c.last[t]
      BY <1>1, <1>8
    <3> HIDE DEF previous
    <3> QED BY <2>1, <3>1, <3>2
  <2>3. CASE before(r) # {}
    <3>1. previous(r) \in won /\ n <= seq(previous(r)) /\ previous(r) # 0
      BY <1>1, <1>3, <1>5, <2>3, Zenon
    <3> HIDE DEF previous
    <3> QED BY <1>1, <1>3, <1>8, <2>1, <3>1
  <2> QED BY <2>1, <2>2, <2>3
<1>10. \A r, q \in won : r # q => previous(r) # previous(q)
  <2>1. ASSUME NEW r \in won, NEW q \in won, seq(r) < seq(q)
        PROVE  previous(r) # previous(q)
    <3>1. r \in before(q)
      BY <2>1
    <3>2. previous(q) \in won /\ seq(r) <= seq(previous(q))
      BY <1>5, <3>1, Zenon
    <3> HIDE DEF previous
    <3> QED BY <1>1, <1>3, <1>6, <3>2
  <2>2. \A r, q \in won : r # q => seq(r) < seq(q) \/ seq(q) < seq(r)
    <3>1. \A r, q \in won : r # q => seq(r) # seq(q)
      BY <1>0, <1>3 DEF Rows, Success
    <3> QED BY <1>1, <1>3, <3>1
  <2> QED BY <2>1, <2>2
<1> HIDE DEF before, previous, last
<1>11. \A x \in changes : \/ x \in c.changes[t]
                          \/ \E r \in won : x = <<r, previous(r)>> /\ x[1] = r /\ x[2] = previous(r)
  OBVIOUS
<1>12. \A x, y \in changes : x # y => x[1] # y[1] /\ x[2] # y[2]
  <2> SUFFICES ASSUME NEW x \in changes, NEW y \in changes, x # y
               PROVE  x[1] # y[1] /\ x[2] # y[2]
    OBVIOUS
  <2> HIDE DEF changes
  <2>1. CASE x \in c.changes[t] /\ y \in c.changes[t]
    BY <1>8, <2>1
  <2>2. CASE x \in c.changes[t] /\ y \notin c.changes[t]
    BY <1>9, <1>11, <2>2
  <2>3. CASE x \notin c.changes[t] /\ y \in c.changes[t]
    BY <1>9, <1>11, <2>3
  <2>4. CASE x \notin c.changes[t] /\ y \notin c.changes[t]
    BY <1>10, <1>11, <2>4
  <2> QED BY <2>1, <2>2, <2>3, <2>4
<1>13. changes \in SUBSET (RunId \X (RunId \cup {0}))
  <2>1. c.changes[t] \in SUBSET (RunId \X (RunId \cup {0}))
    BY <1>0 DEF History
  <2>2. \A r \in won : r \in RunId /\ previous(r) \in RunId \cup {0}
    BY <1>3, <1>6
  <2> QED BY <2>1, <2>2
<1>14. \A x \in changes :
        /\ Success(c, t, x[1]) /\ seq(x[1]) < walk.stop
        /\ x[2] # 0 => Success(c, t, x[2]) /\ seq(x[2]) < seq(x[1])
        /\ last # 0 /\ seq(x[1]) <= seq(last)
  <2> SUFFICES ASSUME NEW x \in changes
               PROVE  /\ Success(c, t, x[1]) /\ seq(x[1]) < walk.stop
                      /\ x[2] # 0 => Success(c, t, x[2]) /\ seq(x[2]) < seq(x[1])
                      /\ last # 0 /\ seq(x[1]) <= seq(last)
    OBVIOUS
  <2>1. CASE x \in c.changes[t]
    <3>1. x[1] \in RunId /\ c.last[t] \in RunId /\ last \in RunId
      BY <1>1, <1>7, <1>8, <2>1
    <3> QED BY <1>1, <1>2, <1>7, <1>8, <2>1, <3>1
  <2>2. CASE x \notin c.changes[t]
    BY <1>3, <1>6, <1>7, <1>11, <2>2
  <2> QED BY <2>1, <2>2
<1>15. \A r \in RunId : Success(c, t, r) /\ seq(r) < walk.stop =>
          (\E x \in changes : x[1] = r) \/ Covering(c, t, seq(r)) # {}
  <2> SUFFICES ASSUME NEW r \in RunId, Success(c, t, r), seq(r) < walk.stop,
                      Covering(c, t, seq(r)) = {}
               PROVE  \E x \in changes : x[1] = r
    OBVIOUS
  <2>1. CASE seq(r) < n
    <3>1. \E x \in c.changes[t] : x[1] = r
      BY <1>0, <2>1 DEF Compared
    <3> QED BY <3>1
  <2>2. CASE ~(seq(r) < n)
    <3>1. seq(r) \in n .. walk.stop - 1
      BY <1>1, <1>2, <2>2
    <3>2. r \in Stored(c, t, seq(r))
      BY DEF Stored, Success
    <3>3. r \in walk.taken
      BY <1>2, <3>1, <3>2 DEF WalkSound
    <3>4. r \in won
      BY <3>3 DEF won, Success
    <3>5. <<r, previous(r)>> \in changes
      BY <3>4
    <3>6. <<r, previous(r)>>[1] = r
      OBVIOUS
    <3> HIDE DEF changes
    <3> QED BY <3>5, <3>6
  <2> QED BY <2>1, <2>2
<1>16. outcome \in {"none", "healthy", "failed"}
  BY <1>0 DEF History
<1> HIDE DEF changes, outcome
<1>17. /\ new \in History
       /\ new.gen = c.gen /\ new.pending = c.pending /\ new.runs = c.runs
       /\ new.execs = c.execs /\ new.gaps = c.gaps /\ new.current = c.current
       /\ \A u \in Targets : u # t => /\ new.next[u] = c.next[u] /\ new.last[u] = c.last[u]
                                      /\ new.changes[u] = c.changes[u]
       /\ new.next[t] = walk.stop /\ new.last[t] = last /\ new.changes[t] = changes
  BY <1>0, <1>2, <1>4, <1>7, <1>13, <1>16, Zenon DEF History
<1>18. Rows(new) /\ Snapshots(new)
  BY <1>0, <1>17 DEF Rows, Snapshots
<1>19. \A u \in Targets, k \in Nat : /\ Decided(new, u, k) <=> Decided(c, u, k)
                                     /\ Covering(new, u, k) = Covering(c, u, k)
  BY <1>17 DEF Decided, Stored, Covering
<1>20. Passed(new)
  <2>1. \A k \in 1 .. walk.stop - 1 : Decided(c, t, k) \/ Covering(c, t, k) # {}
    <3>1. \A k \in 1 .. walk.stop - 1 : k \in 1 .. n - 1 \/ k \in n .. walk.stop - 1
      BY <1>1, <1>2
    <3> QED BY <1>0, <1>2, <3>1 DEF Passed, WalkSound
  <2>2. walk.stop \in 1 .. MaxRuns + 1
    BY <1>1, <1>2
  <2>3. \A u \in Targets : /\ new.next[u] \in 1 .. MaxRuns + 1
                           /\ \A k \in 1 .. new.next[u] - 1 :
                                Decided(c, u, k) \/ Covering(c, u, k) # {}
    <3> SUFFICES ASSUME NEW u \in Targets
                 PROVE  /\ new.next[u] \in 1 .. MaxRuns + 1
                        /\ \A k \in 1 .. new.next[u] - 1 :
                             Decided(c, u, k) \/ Covering(c, u, k) # {}
      OBVIOUS
    <3>1. CASE u = t
      BY <1>17, <2>1, <2>2, <3>1
    <3>2. CASE u # t
      BY <1>0, <1>17, <3>2 DEF Passed
    <3> QED BY <3>1, <3>2
  <2>4. \A u \in Targets : \A k \in 1 .. new.next[u] - 1 : k \in Nat
    BY <2>3
  <2> QED BY <1>19, <2>3, <2>4 DEF Passed
<1>21. Compared(new)
  <2>1. \A u \in Targets : \A r : Success(new, u, r) <=> Success(c, u, r)
    BY <1>17 DEF Success
  <2>2. \A u \in Targets, r \in RunId :
          Covering(new, u, new.execs[r][u].seq) = Covering(c, u, c.execs[r][u].seq)
    BY <1>17 DEF Covering
  <2> SUFFICES ASSUME NEW u \in Targets
               PROVE
        /\ \A x \in new.changes[u] :
             /\ Success(new, u, x[1]) /\ new.execs[x[1]][u].seq < new.next[u]
             /\ x[2] # 0 => Success(new, u, x[2]) /\ new.execs[x[2]][u].seq < new.execs[x[1]][u].seq
             /\ new.last[u] # 0 /\ new.execs[x[1]][u].seq <= new.execs[new.last[u]][u].seq
             /\ \A y \in new.changes[u] \ {x} : x[1] # y[1] /\ x[2] # y[2]
        /\ new.last[u] # 0 => /\ Success(new, u, new.last[u])
                              /\ new.execs[new.last[u]][u].seq < new.next[u]
        /\ \A r \in RunId : Success(new, u, r) /\ new.execs[r][u].seq < new.next[u] =>
             (\E x \in new.changes[u] : x[1] = r) \/ Covering(new, u, new.execs[r][u].seq) # {}
    BY DEF Compared
  <2>3. CASE u = t
    BY <1>7, <1>12, <1>14, <1>15, <1>17, <2>1, <2>2, <2>3
  <2>4. CASE u # t
    BY <1>0, <1>17, <2>1, <2>2, <2>4 DEF Compared
  <2> QED BY <2>3, <2>4
<1> QED BY <1>17, <1>18, <1>20, <1>21 DEF CenterInv, new

\* The generation an artifact was recorded in.
SentGen(a) == IF a.kind = "gap" THEN a.gap.gen ELSE a.runRecord.gen

\* What the uploader reads from a consistent store.
WellFormed(a) ==
    /\ a \in ArtifactRecord
    /\ a.kind = "none" => a = NoArtifact
    /\ a.kind # "none" => a.run \in RunId
    /\ a.kind \in {"run", "execution"} =>
          /\ a.runRecord.status # "none" /\ a.runRecord.gen # 0
          /\ \A t \in a.runRecord.targets : a.manifest[t] \in 1 .. MaxRuns
    /\ a.kind = "execution" => a.target \in a.runRecord.targets /\ a.status # "none"
    /\ a.kind = "gap" => /\ a.target \in Targets /\ a.gap.id = a.run
                         /\ a.gap.first <= a.gap.last /\ a.gap.last <= MaxRuns

\* What no upload takes back: a stored row keeps its sequence, a decided one is final,
\* and what a gap covers stays covered.
Grows(c, new) ==
    /\ new.gen = c.gen /\ new.pending = c.pending
    /\ \A r \in RunId :
         /\ c.runs[r] \in FinalRunStatus => new.runs[r] = c.runs[r]
         /\ c.runs[r] # "none" => new.runs[r] # "none"
         /\ \A t \in Targets :
              /\ c.execs[r][t].status # "none" =>
                    new.execs[r][t].status # "none" /\ new.execs[r][t].seq = c.execs[r][t].seq
              /\ Terminal(c.execs[r][t]) => new.execs[r][t] = c.execs[r][t]
    /\ \A t \in Targets : \A gap \in c.gaps[t] :
          \E wide \in new.gaps[t] : wide.first <= gap.first /\ gap.last <= wide.last

\* A history that does not change grows.
LEMMA GrowsReflexive ==
  ASSUME NEW c \in History
  PROVE  Grows(c, c)
<1>1. \A t \in Targets : \A gap \in c.gaps[t] : gap.first <= gap.first /\ gap.last <= gap.last
  BY HistoryFields
<1> QED BY <1>1 DEF Grows

\* Histories grow over any number of commits.
LEMMA GrowsTransitive ==
  ASSUME NEW c \in History, NEW mid \in History, NEW new \in History,
         Grows(c, mid), Grows(mid, new)
  PROVE  Grows(c, new)
<1>1. ASSUME NEW t \in Targets, NEW gap \in c.gaps[t]
      PROVE  \E wide \in new.gaps[t] : wide.first <= gap.first /\ gap.last <= wide.last
  <2>1. PICK wide \in mid.gaps[t] : wide.first <= gap.first /\ gap.last <= wide.last
    BY DEF Grows
  <2>2. PICK widest \in new.gaps[t] : widest.first <= wide.first /\ wide.last <= widest.last
    BY DEF Grows
  <2>3. /\ gap.first \in Nat /\ gap.last \in Nat /\ wide.first \in Nat /\ wide.last \in Nat
        /\ widest.first \in Nat /\ widest.last \in Nat
    BY HistoryFields
  <2> QED BY <2>1, <2>2, <2>3
<1>2. \A r \in RunId :
         /\ c.runs[r] \in FinalRunStatus => new.runs[r] = c.runs[r]
         /\ c.runs[r] # "none" => new.runs[r] # "none"
         /\ \A t \in Targets :
              /\ c.execs[r][t].status # "none" =>
                    new.execs[r][t].status # "none" /\ new.execs[r][t].seq = c.execs[r][t].seq
              /\ Terminal(c.execs[r][t]) => new.execs[r][t] = c.execs[r][t]
  BY DEF Grows
<1> QED BY <1>1, <1>2 DEF Grows

\* A history that only grew keeps what the comparison passed: a success that arrives
\* behind it arrives where a gap covers it.
LEMMA GrownInv ==
  ASSUME NEW c, CenterInv(c), NEW new \in History, Rows(new), Snapshots(new), Grows(c, new),
         new.next = c.next, new.last = c.last, new.changes = c.changes
  PROVE  CenterInv(new)
<1>0. c \in History /\ Rows(c) /\ Snapshots(c) /\ Passed(c) /\ Compared(c)
  BY DEF CenterInv
<1>1. \A t \in Targets, k \in Nat : Covering(c, t, k) # {} => Covering(new, t, k) # {}
  <2> SUFFICES ASSUME NEW t \in Targets, NEW k \in Nat, NEW gap \in Covering(c, t, k)
               PROVE  Covering(new, t, k) # {}
    OBVIOUS
  <2>1. gap \in c.gaps[t] /\ gap.first <= k /\ k <= gap.last
    BY DEF Covering
  <2>2. PICK wide \in new.gaps[t] : wide.first <= gap.first /\ gap.last <= wide.last
    BY <2>1 DEF Grows
  <2>3. /\ gap.first \in Nat /\ gap.last \in Nat /\ wide.first \in Nat /\ wide.last \in Nat
    BY <1>0, <2>1, HistoryFields
  <2>4. wide \in Covering(new, t, k)
    BY <2>1, <2>2, <2>3 DEF Covering
  <2> QED BY <2>4
<1>2. \A t \in Targets, k \in Nat : Decided(c, t, k) => Decided(new, t, k)
  BY DEF Decided, Stored, Grows, Terminal, TerminalStatus
<1>3. \A r \in RunId, t \in Targets :
         /\ c.execs[r][t].seq \in Nat
         /\ Success(c, t, r) => Success(new, t, r) /\ new.execs[r][t].seq = c.execs[r][t].seq
  BY <1>0, HistoryFields DEF Grows, Success, Terminal, TerminalStatus
<1>4. Passed(new)
  <2>1. \A t \in Targets : \A k \in 1 .. c.next[t] - 1 : k \in Nat
    BY <1>0 DEF Passed
  <2> QED BY <1>0, <1>1, <1>2, <2>1 DEF Passed
<1>5. ASSUME NEW t \in Targets, NEW r \in RunId, Success(new, t, r),
             new.execs[r][t].seq < c.next[t]
      PROVE  Success(c, t, r) \/ Covering(new, t, new.execs[r][t].seq) # {}
  <2> DEFINE k == new.execs[r][t].seq
  <2>1. new.execs[r][t].status # "none"
    BY <1>5 DEF Success
  <2>2. k \in 1 .. c.next[t] - 1 /\ k \in Nat
    <3>1. k \in 1 .. MaxRuns /\ c.next[t] \in Nat
      BY <1>0, <2>1, HistoryFields DEF Rows
    <3> QED BY <1>5, <3>1, BoundAssumption
  <2>3. CASE Covering(c, t, k) # {}
    BY <1>1, <2>2, <2>3
  <2>4. CASE Decided(c, t, k)
    <3>1. PICK q \in RunId : /\ c.execs[q][t].status # "none" /\ c.execs[q][t].seq = k
                             /\ Terminal(c.execs[q][t])
      BY <2>4 DEF Decided, Stored
    <3>2. new.execs[q][t] = c.execs[q][t]
      BY <3>1 DEF Grows
    <3>3. q = r
      BY <2>1, <3>1, <3>2 DEF Rows
    <3> QED BY <1>5, <3>2, <3>3 DEF Success
  <2> QED BY <1>0, <2>2, <2>3, <2>4 DEF Passed
<1>6. Compared(new)
  <2> SUFFICES ASSUME NEW t \in Targets
               PROVE
        /\ \A x \in c.changes[t] :
             /\ Success(new, t, x[1]) /\ new.execs[x[1]][t].seq < c.next[t]
             /\ x[2] # 0 => Success(new, t, x[2]) /\ new.execs[x[2]][t].seq < new.execs[x[1]][t].seq
             /\ c.last[t] # 0 /\ new.execs[x[1]][t].seq <= new.execs[c.last[t]][t].seq
             /\ \A y \in c.changes[t] \ {x} : x[1] # y[1] /\ x[2] # y[2]
        /\ c.last[t] # 0 => Success(new, t, c.last[t]) /\ new.execs[c.last[t]][t].seq < c.next[t]
        /\ \A r \in RunId : Success(new, t, r) /\ new.execs[r][t].seq < c.next[t] =>
             (\E x \in c.changes[t] : x[1] = r) \/ Covering(new, t, new.execs[r][t].seq) # {}
    BY DEF Compared
  <2>1. c.last[t] \in RunId \cup {0} /\ \A x \in c.changes[t] : x[1] \in RunId /\ x[2] \in RunId \cup {0}
    BY <1>0, HistoryFields
  <2>2. c.last[t] # 0 => Success(c, t, c.last[t]) /\ c.execs[c.last[t]][t].seq < c.next[t]
    BY <1>0 DEF Compared
  <2>3. c.last[t] # 0 => Success(new, t, c.last[t]) /\ new.execs[c.last[t]][t].seq < c.next[t]
    BY <1>3, <2>1, <2>2
  <2>4. \A x \in c.changes[t] :
             /\ Success(c, t, x[1]) /\ c.execs[x[1]][t].seq < c.next[t]
             /\ x[2] # 0 => Success(c, t, x[2]) /\ c.execs[x[2]][t].seq < c.execs[x[1]][t].seq
             /\ c.last[t] # 0 /\ c.execs[x[1]][t].seq <= c.execs[c.last[t]][t].seq
             /\ \A y \in c.changes[t] \ {x} : x[1] # y[1] /\ x[2] # y[2]
    BY <1>0 DEF Compared
  <2>5. \A x \in c.changes[t] :
             /\ Success(new, t, x[1]) /\ new.execs[x[1]][t].seq < c.next[t]
             /\ x[2] # 0 => Success(new, t, x[2]) /\ new.execs[x[2]][t].seq < new.execs[x[1]][t].seq
             /\ c.last[t] # 0 /\ new.execs[x[1]][t].seq <= new.execs[c.last[t]][t].seq
    BY <1>3, <2>1, <2>2, <2>4
  <2>6. ASSUME NEW r \in RunId, Success(new, t, r), new.execs[r][t].seq < c.next[t]
        PROVE  (\E x \in c.changes[t] : x[1] = r) \/ Covering(new, t, new.execs[r][t].seq) # {}
    <3>1. CASE Success(c, t, r)
      <4>1. new.execs[r][t].seq = c.execs[r][t].seq /\ c.execs[r][t].seq \in Nat
        BY <1>3, <3>1
      <4>2. (\E x \in c.changes[t] : x[1] = r) \/ Covering(c, t, c.execs[r][t].seq) # {}
        BY <1>0, <2>6, <3>1, <4>1 DEF Compared
      <4> QED BY <1>1, <4>1, <4>2
    <3> QED BY <1>5, <2>6, <3>1
  <2> QED BY <2>3, <2>4, <2>5, <2>6
<1> QED BY <1>0, <1>4, <1>6 DEF CenterInv

\* The greater of two naturals.
LEMMA MaxOfTwo ==
  ASSUME NEW a \in Nat, NEW b \in Nat
  PROVE  Max({a, b}) \in {a, b} /\ Max({a, b}) >= a /\ Max({a, b}) >= b
<1>1. {a, b} \in SUBSET Nat /\ {a, b} # {}
  OBVIOUS
<1>2. IsFiniteSet({a, b})
  <2>1. IsFiniteSet({a}) /\ IsFiniteSet({b}) /\ {a} \cup {b} = {a, b}
    BY FS_Singleton, Zenon
  <2>2. IsFiniteSet({a} \cup {b})
    BY <2>1, FS_Union, Zenon
  <2> QED BY <2>1, <2>2
<1>3. Max({a, b}) \in {a, b} /\ \A n \in {a, b} : Max({a, b}) >= n
  BY <1>1, <1>2, MaxProperty
<1> QED BY <1>3

\* The gaps of a history keep their ids and first sequences; gap of t may be new.
NamesFrom(c, new, t, gap) ==
    \A u \in Targets : \A x \in new.gaps[u] :
        \/ \E y \in c.gaps[u] : y.id = x.id /\ y.first = x.first
        \/ u = t /\ x.id = gap.id /\ x.first = gap.first

GapRow == [id : RunId, count : Nat, first : Nat, last : Nat]

\* A gap the Center stores or extends: what was covered stays so, and it is covered.
LEMMA GapGrows ==
  ASSUME NEW c, CenterInv(c), NEW t \in Targets, NEW gap \in GapRecord,
         gap.id \in RunId, gap.first <= gap.last, gap.last <= MaxRuns
  PROVE  LET result == IngestGap(c, t, gap)
             new == result.store
         IN  /\ result.answer \in {"accepted", "invalid"}
             /\ result.answer # "accepted" => new = c
             /\ CenterInv(new) /\ Grows(c, new) /\ new.runs = c.runs /\ new.execs = c.execs
             /\ result.answer = "accepted" => \E wide \in new.gaps[t] :
                   wide.first <= gap.first /\ gap.last <= wide.last
             /\ NamesFrom(c, new, t, gap)
<1> DEFINE known == {old \in c.gaps[t] : old.id = gap.id}
           grow(old) == [old EXCEPT !.count = Max({@, gap.count}), !.last = Max({@, gap.last})]
           grown == {grow(old) : old \in known}
           row == [id |-> gap.id, count |-> gap.count, first |-> gap.first, last |-> gap.last]
           gaps == IF known = {} THEN c.gaps[t] \cup {row} ELSE (c.gaps[t] \ known) \cup grown
           mid == [c EXCEPT !.gaps[t] = gaps]
           result == IngestGap(c, t, gap)
           clash == \E old \in known : old.first # gap.first
<1>0. c \in History /\ Rows(c) /\ Snapshots(c)
  BY DEF CenterInv
<1>1. /\ MaxRuns \in Nat /\ gap.first \in Nat /\ gap.last \in Nat /\ gap.count \in Nat
      /\ \A old \in c.gaps[t] : /\ old \in GapRow /\ old.first \in Nat /\ old.last \in Nat
                                /\ old.first <= old.last /\ old.last <= MaxRuns
  BY <1>0, BoundAssumption DEF History, Rows, GapRecord, GapRow
<1>2. \A old \in known : /\ old \in c.gaps[t]
                         /\ grow(old) \in GapRow /\ grow(old).first = old.first
                         /\ grow(old).id = old.id
                         /\ grow(old).last >= old.last /\ grow(old).last >= gap.last
                         /\ grow(old).last \in Nat /\ grow(old).last <= MaxRuns
  <2> SUFFICES ASSUME NEW old \in known
               PROVE  /\ grow(old) \in GapRow /\ grow(old).first = old.first
                      /\ grow(old).id = old.id
                      /\ grow(old).last >= old.last /\ grow(old).last >= gap.last
                      /\ grow(old).last \in Nat /\ grow(old).last <= MaxRuns
    BY Zenon
  <2> DEFINE count == Max({old.count, gap.count})
             last == Max({old.last, gap.last})
  <2>1. old \in GapRow /\ old.count \in Nat /\ old.last \in Nat /\ old.last <= MaxRuns
    BY <1>1 DEF GapRow
  <2>2. /\ count \in Nat /\ last \in Nat /\ last >= old.last /\ last >= gap.last
        /\ last <= MaxRuns
    BY <1>1, <2>1, MaxOfTwo
  <2>3. grow(old) = [old EXCEPT !.count = count, !.last = last]
    OBVIOUS
  <2> HIDE DEF count, last, grow
  <2> QED BY <2>1, <2>2, <2>3, Zenon DEF GapRow
<1>3. row \in GapRow /\ row.first = gap.first /\ row.last = gap.last /\ row.id = gap.id
  BY <1>1 DEF GapRow
<1> HIDE DEF grow, row
<1>4. \A g \in gaps : g \in GapRow /\ g.first <= g.last /\ g.last <= MaxRuns
  <2>1. \A old \in known : grow(old).first <= grow(old).last
    BY <1>1, <1>2
  <2> QED BY <1>1, <1>2, <1>3, <2>1
<1>5. ASSUME NEW old \in c.gaps[t]
      PROVE  \E wide \in gaps : wide.first <= old.first /\ old.last <= wide.last
  <2>1. CASE old \in known
    <3>1. grow(old) \in gaps
      BY <2>1
    <3>2. grow(old).first <= old.first /\ old.last <= grow(old).last
      BY <1>1, <1>2, <2>1
    <3> HIDE DEF gaps
    <3> QED BY <3>1, <3>2
  <2>2. CASE old \notin known
    <3>1. old \in gaps /\ old.first <= old.first /\ old.last <= old.last
      BY <1>1, <2>2
    <3> HIDE DEF gaps
    <3> QED BY <3>1
  <2> QED BY <2>1, <2>2
<1>6. ~clash => \E wide \in gaps : wide.first <= gap.first /\ gap.last <= wide.last
  <2>1. CASE known = {}
    <3>1. row \in gaps /\ row.first <= gap.first /\ gap.last <= row.last
      BY <1>1, <1>3, <2>1
    <3> HIDE DEF gaps
    <3> QED BY <3>1
  <2>2. CASE known # {} /\ ~clash
    <3>1. PICK old \in known : old.first = gap.first
      BY <2>2
    <3>2. grow(old) \in gaps
      BY <3>1
    <3>3. grow(old).first <= gap.first /\ gap.last <= grow(old).last
      BY <1>1, <1>2, <3>1
    <3> HIDE DEF gaps
    <3> QED BY <3>2, <3>3
  <2> QED BY <2>1, <2>2
<1>16. ASSUME NEW x \in gaps
       PROVE  \/ \E y \in c.gaps[t] : y.id = x.id /\ y.first = x.first
              \/ x.id = gap.id /\ x.first = gap.first
  <2>1. x \in c.gaps[t] \/ x = row \/ \E old \in known : x = grow(old)
    OBVIOUS
  <2>2. ASSUME NEW old \in known, x = grow(old)
        PROVE  old \in c.gaps[t] /\ old.id = x.id /\ old.first = x.first
    BY <1>2, <2>2
  <2> HIDE DEF gaps, known
  <2> QED BY <1>3, <2>1, <2>2
<1>7. result = IF clash THEN Refused(c, "invalid") ELSE Accepted(Advance(mid, t))
  BY DEF IngestGap, grow, row
<1> HIDE DEF gaps, clash, result
<1>8. /\ mid \in History
      /\ mid.gen = c.gen /\ mid.pending = c.pending /\ mid.runs = c.runs /\ mid.execs = c.execs
      /\ mid.current = c.current /\ mid.next = c.next /\ mid.last = c.last
      /\ mid.changes = c.changes
      /\ mid.gaps[t] = gaps /\ \A u \in Targets : u # t => mid.gaps[u] = c.gaps[u]
  BY <1>0, <1>4, Zenon DEF History, GapRow
<1> HIDE DEF mid
<1>9. Rows(mid) /\ Snapshots(mid)
  BY <1>0, <1>4, <1>8 DEF Rows, Snapshots
<1>10. Grows(c, mid)
  <2>1. Grows(c, c)
    BY <1>0, GrowsReflexive
  <2> QED BY <1>5, <1>8, <2>1 DEF Grows
<1>11. CenterInv(mid)
  BY <1>8, <1>9, <1>10, GrownInv
<1> DEFINE new == Advance(mid, t)
<1>12. /\ CenterInv(new) /\ new.gen = mid.gen /\ new.pending = mid.pending
       /\ new.runs = mid.runs /\ new.execs = mid.execs /\ new.gaps = mid.gaps
  BY <1>11, AdvanceInv
<1> HIDE DEF new
<1>13. Grows(c, new)
  BY <1>10, <1>12 DEF Grows
<1>14. CASE clash
  <2>1. result.store = c /\ result.answer = "invalid"
    BY <1>7, <1>14 DEF Refused
  <2>2. NamesFrom(c, c, t, gap)
    BY DEF NamesFrom
  <2> QED BY <1>0, <2>1, <2>2, GrowsReflexive DEF result
<1>15. CASE ~clash
  <2>1. result.store = new /\ result.answer = "accepted"
    BY <1>7, <1>15 DEF Accepted, new
  <2>2. ASSUME NEW u \in Targets, NEW x \in new.gaps[u]
        PROVE  \/ \E y \in c.gaps[u] : y.id = x.id /\ y.first = x.first
               \/ u = t /\ x.id = gap.id /\ x.first = gap.first
    <3>1. CASE u = t
      BY <1>8, <1>12, <1>16, <2>2, <3>1
    <3>2. CASE u # t
      BY <1>8, <1>12, <2>2, <3>2
    <3> QED BY <3>1, <3>2
  <2>3. NamesFrom(c, new, t, gap)
    BY <2>2 DEF NamesFrom
  <2> QED BY <1>6, <1>8, <1>12, <1>13, <1>15, <2>1, <2>3 DEF result
<1> QED BY <1>14, <1>15

\* What storing an artifact of a run does to rows: only that run's change, an execution
\* that is not decided gets the sequence of the manifest, and no outcome but the
\* artifact's own; it is closed once its executions are.
RowsFrom(c, new, a) ==
    /\ \A r \in RunId : r # a.run => new.runs[r] = c.runs[r] /\ new.execs[r] = c.execs[r]
    /\ new.runs[a.run] \in {c.runs[a.run], "running", a.runRecord.status}
    /\ \/ new.runs[a.run] \in {c.runs[a.run], "running"}
       \/ \A t \in a.runRecord.targets : Terminal(new.execs[a.run][t])
    /\ \A t \in Targets : new.execs[a.run][t] # c.execs[a.run][t] =>
         /\ t \in a.runRecord.targets
         /\ new.execs[a.run][t].seq = IF c.execs[a.run][t].status = "none" THEN a.manifest[t]
                                      ELSE c.execs[a.run][t].seq
         /\ \/ new.execs[a.run][t].status = "pending"
            \/ a.kind = "execution" /\ t = a.target /\ new.execs[a.run][t].status = a.status

\* What the Center stores of an artifact's run and of its executions.
LEMMA RunStored ==
  ASSUME NEW c, CenterInv(c), NEW a, WellFormed(a), a.kind \in {"run", "execution"}
  PROVE  LET result == IngestRun(c, a)
             new == result.store
         IN  /\ result.answer \in {"accepted", "error"}
             /\ result.answer = "accepted" =>
                  /\ CenterInv(new) /\ Grows(c, new) /\ new.gaps = c.gaps
                  /\ \A r \in RunId : r # a.run =>
                        new.runs[r] = c.runs[r] /\ new.execs[r] = c.execs[r]
                  /\ new.runs[a.run] = IF c.runs[a.run] = "none" THEN "running" ELSE c.runs[a.run]
                  /\ \A t \in Targets : new.execs[a.run][t] =
                        IF t \in a.runRecord.targets /\ c.execs[a.run][t].status = "none"
                        THEN [status |-> "pending", seq |-> a.manifest[t]]
                        ELSE c.execs[a.run][t]
<1> DEFINE result == IngestRun(c, a)
           fresh == {t \in a.runRecord.targets : c.execs[a.run][t].status = "none"}
           clash == \E t \in fresh : Stored(c, t, a.manifest[t]) # {}
           runs == IF c.runs[a.run] = "none" THEN "running" ELSE c.runs[a.run]
           row == [t \in Targets |->
                      IF t \in fresh THEN [status |-> "pending", seq |-> a.manifest[t]]
                                     ELSE c.execs[a.run][t]]
           new == [c EXCEPT !.runs[a.run] = runs, !.execs[a.run] = row]
<1>0. c \in History /\ Rows(c) /\ Snapshots(c)
  BY DEF CenterInv
<1>1. /\ a.run \in RunId /\ a.runRecord.targets \in SUBSET Targets /\ a.manifest \in [Targets -> Nat]
      /\ \A t \in a.runRecord.targets : a.manifest[t] \in 1 .. MaxRuns
  BY DEF WellFormed, ArtifactRecord, RunRecord
<1>2. result = IF clash THEN Refused(c, "error") ELSE Accepted(new)
  BY DEF IngestRun
<1>3. CASE clash
  <2>1. result.answer = "error"
    BY <1>2, <1>3 DEF Refused
  <2> HIDE DEF result
  <2> QED BY <2>1 DEF result
<1>4. CASE ~clash
  <2>1. /\ fresh \in SUBSET Targets /\ \A t \in fresh : a.manifest[t] \in 1 .. MaxRuns
        /\ \A t \in fresh : \A r \in RunId :
              c.execs[r][t].status # "none" => c.execs[r][t].seq # a.manifest[t]
    BY <1>1, <1>4 DEF Stored
  <2>2. /\ row \in [Targets -> [status : {"none", "pending", "running"} \cup TerminalStatus,
                                seq : Nat]]
        /\ \A t \in Targets : row[t] =
             IF t \in fresh THEN [status |-> "pending", seq |-> a.manifest[t]]
                            ELSE c.execs[a.run][t]
    BY <1>0, <1>1 DEF History
  <2>3. /\ runs \in {"none", "running"} \cup FinalRunStatus
        /\ runs # "none" /\ (c.runs[a.run] # "none" => runs = c.runs[a.run])
        /\ "none" \notin FinalRunStatus
    BY <1>0, <1>1, HistoryFields DEF FinalRunStatus
  <2> HIDE DEF row, runs, fresh
  <2>4. /\ new \in History
        /\ new.gen = c.gen /\ new.pending = c.pending /\ new.gaps = c.gaps
        /\ new.current = c.current /\ new.next = c.next /\ new.last = c.last
        /\ new.changes = c.changes
        /\ new.runs[a.run] = runs /\ new.execs[a.run] = row
        /\ \A r \in RunId : r # a.run => new.runs[r] = c.runs[r] /\ new.execs[r] = c.execs[r]
    BY <1>0, <1>1, <2>2, <2>3, Zenon DEF History
  <2> HIDE DEF new
  <2>5. ASSUME NEW r \in RunId, NEW t \in Targets
        PROVE  \/ new.execs[r][t] = c.execs[r][t]
               \/ /\ r = a.run /\ t \in fresh /\ c.execs[r][t].status = "none"
                  /\ new.execs[r][t].status = "pending" /\ new.execs[r][t].seq = a.manifest[t]
    BY <2>2, <2>4 DEF fresh
  <2>6. Rows(new)
    <3> SUFFICES ASSUME NEW t \in Targets
                 PROVE  /\ \A r \in RunId : new.execs[r][t].status # "none" =>
                             new.runs[r] # "none" /\ new.execs[r][t].seq \in 1 .. MaxRuns
                        /\ \A r, q \in RunId :
                             new.execs[r][t].status # "none" /\ new.execs[q][t].status # "none"
                                /\ new.execs[r][t].seq = new.execs[q][t].seq => r = q
                        /\ \A gap \in new.gaps[t] : gap.first <= gap.last /\ gap.last <= MaxRuns
      BY DEF Rows
    <3>1. \A r \in RunId : new.execs[r][t].status # "none" =>
             new.runs[r] # "none" /\ new.execs[r][t].seq \in 1 .. MaxRuns
      BY <1>0, <2>1, <2>3, <2>4, <2>5 DEF Rows
    <3>2. \A r, q \in RunId :
             new.execs[r][t].status # "none" /\ new.execs[q][t].status # "none"
                /\ new.execs[r][t].seq = new.execs[q][t].seq => r = q
      BY <1>0, <2>1, <2>5 DEF Rows
    <3> QED BY <1>0, <2>4, <3>1, <3>2 DEF Rows
  <2>7. \A r \in RunId, t \in Targets :
           c.execs[r][t].status # "none" => new.execs[r][t] = c.execs[r][t]
    BY <2>5
  <2>8. Snapshots(new)
    <3>1. \A r \in RunId, t \in Targets :
             new.execs[r][t].status = "succeeded" <=> c.execs[r][t].status = "succeeded"
      BY <2>5, <2>7
    <3>2. \A t \in Targets : c.current[t] \in RunId \cup {0}
      BY <1>0, HistoryFields
    <3> QED BY <1>0, <2>4, <2>7, <3>1, <3>2 DEF Snapshots
  <2>9. Grows(c, new)
    <3>1. \A t \in Targets : \A gap \in c.gaps[t] : gap.first <= gap.first /\ gap.last <= gap.last
      BY <1>0, HistoryFields
    <3>2. \A r \in RunId, t \in Targets : Terminal(c.execs[r][t]) => c.execs[r][t].status # "none"
      BY DEF Terminal, TerminalStatus
    <3> QED BY <2>3, <2>4, <2>7, <3>1, <3>2 DEF Grows
  <2>10. CenterInv(new)
    BY <2>4, <2>6, <2>8, <2>9, GrownInv
  <2>11. result.answer = "accepted" /\ result.store = new
    BY <1>2, <1>4 DEF Accepted
  <2> QED BY <2>2, <2>4, <2>9, <2>10, <2>11 DEF runs, fresh
<1> QED BY <1>3, <1>4

\* The outcome an execution's artifact reports, and the snapshot that follows it.
LEMMA ExecutionStored ==
  ASSUME NEW c, CenterInv(c), NEW a, WellFormed(a), a.kind = "execution",
         c.execs[a.run][a.target].status # "none"
  PROVE  LET result == IngestExecution(c, a)
             new == result.store
         IN  /\ result.answer \in {"accepted", "invalid"}
             /\ result.answer = "accepted" =>
                  /\ CenterInv(new) /\ Grows(c, new) /\ new.runs = c.runs /\ new.gaps = c.gaps
                  /\ \A r \in RunId, t \in Targets : r # a.run \/ t # a.target =>
                        new.execs[r][t] = c.execs[r][t]
                  /\ new.execs[a.run][a.target].status = a.status
                  /\ new.execs[a.run][a.target].seq = c.execs[a.run][a.target].seq
<1> DEFINE result == IngestExecution(c, a)
           p == a.run
           u == a.target
           old == c.execs[p][u]
           clash == old.status \in TerminalStatus /\ old.status # a.status
           updated == [c EXCEPT !.execs[p][u].status = a.status]
           newer == NewerSnapshot(updated, p, u)
           new == IF a.status = "succeeded" THEN newer ELSE updated
<1>0. c \in History /\ Rows(c) /\ Snapshots(c)
  BY DEF CenterInv
<1>1. /\ p \in RunId /\ u \in Targets /\ p # 0
      /\ a.status \in ({"pending", "running"} \cup TerminalStatus) /\ a.status # "none"
  <2>1. p \in RunId /\ u \in Targets /\ a.status # "none"
    BY DEF WellFormed, ArtifactRecord, RunRecord
  <2>2. a.status \in ({"none", "pending", "running"} \cup TerminalStatus)
    BY DEF WellFormed, ArtifactRecord
  <2> QED BY <2>1, <2>2 DEF RunId
<1>2. result = IF clash THEN Refused(c, "invalid") ELSE Accepted(new)
  BY DEF IngestExecution
<1>3. CASE clash
  <2>1. result.answer = "invalid"
    BY <1>2, <1>3 DEF Refused
  <2> HIDE DEF result
  <2> QED BY <2>1 DEF result
<1>4. CASE ~clash
  <2>0. /\ old \in [status : {"none", "pending", "running"} \cup TerminalStatus, seq : Nat]
        /\ old = c.execs[p][u] /\ old.status # "none"
    BY <1>0, <1>1 DEF History
  <2> HIDE DEF old, p, u
  <2>1. /\ [old EXCEPT !.status = a.status] \in
              [status : {"none", "pending", "running"} \cup TerminalStatus, seq : Nat]
        /\ [old EXCEPT !.status = a.status].seq = old.seq
        /\ [old EXCEPT !.status = a.status].status = a.status
        /\ Terminal(old) => [old EXCEPT !.status = a.status] = old
    BY <1>1, <1>4, <2>0 DEF Terminal
  <2> DEFINE row == [old EXCEPT !.status = a.status]
  <2>2. updated = [c EXCEPT !.execs[p][u] = row]
    BY <1>0, <1>1, <2>0 DEF History
  <2> HIDE DEF row, updated
  <2>3. /\ updated \in History
        /\ updated.gen = c.gen /\ updated.pending = c.pending /\ updated.gaps = c.gaps
        /\ updated.current = c.current /\ updated.next = c.next /\ updated.last = c.last
        /\ updated.changes = c.changes /\ updated.runs = c.runs
        /\ updated.execs[p][u] = row
        /\ \A r \in RunId, t \in Targets : r # p \/ t # u =>
              updated.execs[r][t] = c.execs[r][t]
    <3>1. row \in [status : {"none", "pending", "running"} \cup TerminalStatus, seq : Nat]
      BY <2>1 DEF row
    <3> QED BY <1>0, <1>1, <2>2, <3>1, Zenon DEF History
  <2>4. /\ new \in History
        /\ new.gen = c.gen /\ new.pending = c.pending /\ new.gaps = c.gaps
        /\ new.next = c.next /\ new.last = c.last
        /\ new.changes = c.changes /\ new.runs = c.runs
        /\ new.execs = updated.execs
        /\ \A t \in Targets : t # u => new.current[t] = c.current[t]
        /\ new.current[u] = IF /\ a.status = "succeeded"
                               /\ \/ c.current[u] = 0
                                  \/ row.seq > updated.execs[c.current[u]][u].seq
                            THEN p ELSE c.current[u]
    BY <1>1, <2>3, Zenon DEF NewerSnapshot, History
  <2> HIDE DEF new
  <2>5. row.status = a.status /\ row.seq = old.seq /\ old.seq \in Nat
        /\ (Terminal(old) => row = old)
    BY <2>0, <2>1 DEF row
  <2>12. ASSUME NEW r \in RunId, NEW t \in Targets
         PROVE  \/ new.execs[r][t] = c.execs[r][t]
                \/ /\ r = p /\ t = u /\ ~Terminal(c.execs[r][t])
                   /\ new.execs[r][t].status = a.status
                   /\ new.execs[r][t].seq = c.execs[r][t].seq
                   /\ c.execs[r][t].status # "none"
    BY <2>0, <2>3, <2>4, <2>5
  <2>6. \A r \in RunId, t \in Targets :
          /\ new.execs[r][t].seq = c.execs[r][t].seq
          /\ new.execs[r][t].status # "none" <=> c.execs[r][t].status # "none"
          /\ Terminal(c.execs[r][t]) => new.execs[r][t] = c.execs[r][t]
          /\ c.execs[r][t].status = "succeeded" => new.execs[r][t].status = "succeeded"
          /\ new.execs[r][t].status = "succeeded" =>
                c.execs[r][t].status = "succeeded" \/ (r = p /\ t = u /\ a.status = "succeeded")
    BY <1>1, <2>12 DEF Terminal, TerminalStatus
  <2>7. Rows(new)
    BY <1>0, <2>4, <2>6 DEF Rows
  <2>8. Snapshots(new)
    <3> SUFFICES ASSUME NEW t \in Targets
                 PROVE  /\ new.current[t] # 0 => new.execs[new.current[t]][t].status = "succeeded"
                        /\ \A r \in RunId : new.execs[r][t].status = "succeeded" =>
                              /\ new.current[t] # 0
                              /\ new.execs[r][t].seq <= new.execs[new.current[t]][t].seq
      BY DEF Snapshots
    <3>1. /\ c.current[t] \in RunId \cup {0}
          /\ c.current[t] # 0 => c.execs[c.current[t]][t].status = "succeeded"
          /\ \A r \in RunId : /\ c.execs[r][t].seq \in Nat
                              /\ c.execs[r][t].status = "succeeded" =>
                                   c.current[t] # 0 /\ c.execs[r][t].seq <= c.execs[c.current[t]][t].seq
      BY <1>0, HistoryFields DEF Snapshots
    <3>2. CASE t = u /\ a.status = "succeeded"
      <4>1. CASE new.current[u] = p
        <5>1. c.current[u] = 0 \/ c.execs[c.current[u]][u].seq <= c.execs[p][u].seq
          <6>1. CASE c.current[u] = p
            BY <1>1, <3>1, <3>2, <6>1
          <6>2. CASE c.current[u] # p /\ c.current[u] # 0
            <7>1. row.seq > updated.execs[c.current[u]][u].seq
              BY <2>4, <4>1, <6>2
            <7>2. updated.execs[c.current[u]][u] = c.execs[c.current[u]][u]
              BY <1>1, <2>3, <3>1, <3>2, <6>2
            <7>3. c.execs[c.current[u]][u].seq \in Nat /\ row.seq = c.execs[p][u].seq
              BY <2>0, <2>5, <3>1, <3>2, <6>2
            <7> QED BY <1>1, <2>5, <7>1, <7>2, <7>3
          <6> QED BY <6>1, <6>2
        <5>2. new.execs[p][u].status = "succeeded"
          BY <2>3, <2>4, <2>5, <3>2
        <5>3. \A r \in RunId : new.execs[r][u].status = "succeeded" =>
                 new.execs[r][u].seq <= new.execs[p][u].seq
          <6> SUFFICES ASSUME NEW r \in RunId, new.execs[r][u].status = "succeeded", r # p
                       PROVE  new.execs[r][u].seq <= new.execs[p][u].seq
            BY <1>1, <2>6, <3>1, <3>2
          <6>1. /\ c.execs[r][u].status = "succeeded" /\ c.current[u] \in RunId
                /\ c.execs[r][u].seq <= c.execs[c.current[u]][u].seq
            BY <2>6, <3>1, <3>2
          <6>2. c.current[u] # 0
            BY <3>1, <3>2, <6>1
          <6> QED BY <1>1, <2>6, <3>1, <3>2, <5>1, <6>1, <6>2
        <5> QED BY <1>1, <3>2, <4>1, <5>2, <5>3
      <4>2. CASE new.current[u] # p
        <5>0. /\ new.current[u] = c.current[u] /\ c.current[u] # 0
              /\ ~(row.seq > updated.execs[c.current[u]][u].seq)
          BY <1>1, <2>4, <3>2, <4>2
        <5>1. /\ new.current[u] = c.current[u] /\ c.current[u] # 0
              /\ c.execs[p][u].seq <= c.execs[c.current[u]][u].seq
          <6>1. c.current[u] \in RunId /\ c.execs[c.current[u]][u].seq \in Nat
            BY <1>1, <3>1, <3>2, <5>0
          <6>2. updated.execs[c.current[u]][u].seq = c.execs[c.current[u]][u].seq
                \/ c.current[u] = p
            BY <1>1, <2>3, <6>1
          <6>3. row.seq = c.execs[p][u].seq /\ row.seq \in Nat
            BY <2>0, <2>5
          <6> QED BY <5>0, <6>1, <6>2, <6>3
        <5> QED BY <1>1, <2>6, <3>1, <3>2, <5>1
      <4> QED BY <4>1, <4>2
    <3>3. CASE ~(t = u /\ a.status = "succeeded")
      <4>1. new.current[t] = c.current[t]
        BY <2>4, <3>3
      <4>2. \A r \in RunId : new.execs[r][t].status = "succeeded" => c.execs[r][t].status = "succeeded"
        BY <2>6, <3>3
      <4> QED BY <2>6, <3>1, <4>1, <4>2
    <3> QED BY <3>2, <3>3
  <2>9. Grows(c, new)
    <3>1. \A t \in Targets : \A gap \in c.gaps[t] : gap.first <= gap.first /\ gap.last <= gap.last
      BY <1>0, HistoryFields
    <3> QED BY <2>4, <2>6, <3>1 DEF Grows
  <2>10. CenterInv(new)
    BY <2>4, <2>7, <2>8, <2>9, GrownInv
  <2>11. result.answer = "accepted" /\ result.store = new
    BY <1>2, <1>4 DEF Accepted
  <2> HIDE DEF result
  <2>13. /\ \A r \in RunId, t \in Targets : r # p \/ t # u => new.execs[r][t] = c.execs[r][t]
         /\ new.execs[p][u].status = a.status /\ new.execs[p][u].seq = c.execs[p][u].seq
    BY <1>1, <2>0, <2>3, <2>4, <2>5
  <2> QED BY <2>4, <2>9, <2>10, <2>11, <2>13 DEF result, p, u
<1> QED BY <1>3, <1>4

\* A finished run is closed with the status its executions add up to.
LEMMA SummaryStored ==
  ASSUME NEW c, CenterInv(c), NEW a, WellFormed(a), a.kind \in {"run", "execution"},
         c.runs[a.run] # "none"
  PROVE  LET result == Summarise(c, a)
             new == result.store
         IN  /\ result.answer \in {"accepted", "invalid"}
             /\ result.answer = "accepted" =>
                  /\ CenterInv(new) /\ Grows(c, new) /\ new.execs = c.execs /\ new.gaps = c.gaps
                  /\ \A r \in RunId : r # a.run => new.runs[r] = c.runs[r]
                  /\ new.runs[a.run] \in {c.runs[a.run], a.runRecord.status}
                  /\ \/ new.runs[a.run] = c.runs[a.run]
                     \/ \A t \in a.runRecord.targets : Terminal(new.execs[a.run][t])
<1> DEFINE result == Summarise(c, a)
           claimed == a.runRecord.status
           closed == [c EXCEPT !.runs[a.run] = claimed]
<1>0. c \in History /\ Rows(c) /\ Snapshots(c)
  BY DEF CenterInv
<1>1. a.run \in RunId /\ claimed \in ({"running"} \cup FinalRunStatus)
  BY DEF WellFormed, ArtifactRecord, RunRecord
<1>2. \/ result = Accepted(c)
      \/ result = Refused(c, "invalid")
      \/ /\ result = Accepted(closed)
         /\ c.runs[a.run] \in {"running", claimed} /\ claimed # "running"
         /\ \A t \in a.runRecord.targets : Terminal(c.execs[a.run][t])
  BY Zenon DEF Summarise, Terminal
<1>3. CASE result = Refused(c, "invalid")
  <2>1. result.answer = "invalid"
    BY <1>3 DEF Refused
  <2> HIDE DEF result
  <2> QED BY <2>1 DEF result
<1>4. CASE result = Accepted(c)
  <2>1. result.answer = "accepted" /\ result.store = c
    BY <1>4 DEF Accepted
  <2>2. Grows(c, c)
    BY <1>0, GrowsReflexive
  <2> HIDE DEF result
  <2> QED BY <2>1, <2>2 DEF result
<1>5. CASE /\ result = Accepted(closed)
           /\ c.runs[a.run] \in {"running", claimed} /\ claimed # "running"
           /\ \A t \in a.runRecord.targets : Terminal(c.execs[a.run][t])
  <2>1. claimed \in FinalRunStatus /\ claimed # "none" /\ "running" \notin FinalRunStatus
    BY <1>1, <1>5 DEF FinalRunStatus
  <2> HIDE DEF claimed
  <2>2. /\ closed \in History
        /\ closed.gen = c.gen /\ closed.pending = c.pending /\ closed.gaps = c.gaps
        /\ closed.current = c.current /\ closed.next = c.next /\ closed.last = c.last
        /\ closed.changes = c.changes /\ closed.execs = c.execs
        /\ closed.runs[a.run] = claimed
        /\ \A r \in RunId : r # a.run => closed.runs[r] = c.runs[r]
    BY <1>0, <1>1, <2>1, Zenon DEF History
  <2> HIDE DEF closed
  <2>3. Rows(closed) /\ Snapshots(closed)
    BY <1>0, <2>1, <2>2 DEF Rows, Snapshots
  <2>4. Grows(c, closed)
    <3>1. Grows(c, c)
      BY <1>0, GrowsReflexive
    <3>2. \A r \in RunId : /\ c.runs[r] \in FinalRunStatus => closed.runs[r] = c.runs[r]
                           /\ c.runs[r] # "none" => closed.runs[r] # "none"
      BY <1>5, <2>1, <2>2
    <3> QED BY <2>2, <3>1, <3>2 DEF Grows
  <2>5. CenterInv(closed)
    BY <2>2, <2>3, <2>4, GrownInv
  <2>6. result.answer = "accepted" /\ result.store = closed
    BY <1>5 DEF Accepted
  <2> HIDE DEF result
  <2> QED BY <1>5, <2>2, <2>4, <2>5, <2>6 DEF result, claimed
<1> QED BY <1>2, <1>3, <1>4, <1>5

\* The same of an artifact, of whatever kind.
GapsFrom(c, new, a) ==
    \A t \in Targets : \A x \in new.gaps[t] :
        \/ \E y \in c.gaps[t] : y.id = x.id /\ y.first = x.first
        \/ a.kind = "gap" /\ t = a.target /\ x.id = a.run /\ x.first = a.gap.first

\* What one uploaded artifact does to the history, whatever the artifact.
LEMMA UploadFacts ==
  ASSUME NEW c, CenterInv(c), NEW a, WellFormed(a), a.kind # "none"
  PROVE  LET result == UploadProbeArtifact(c, a)
             new == result.store
         IN  /\ result.answer \in {"accepted", "obsolete", "busy", "error", "invalid"}
             /\ result.answer = "obsolete" => SentGen(a) # c.gen
             /\ result.answer # "accepted" => new = c
             /\ result.answer = "accepted" => SentGen(a) = c.gen /\ c.pending = 0
             /\ CenterInv(new) /\ Grows(c, new) /\ RowsFrom(c, new, a) /\ GapsFrom(c, new, a)
             /\ a.kind = "gap" => new.runs = c.runs /\ new.execs = c.execs
             /\ result.answer = "accepted" /\ a.kind = "execution" =>
                   new.execs[a.run][a.target].status = a.status
             /\ result.answer = "accepted" /\ a.kind = "gap" => \E wide \in new.gaps[a.target] :
                   wide.first <= a.gap.first /\ a.gap.last <= wide.last
<1> DEFINE result == UploadProbeArtifact(c, a)
           new == result.store
           run == IngestRun(c, a)
           execution == IF run.answer = "accepted" /\ a.kind = "execution"
                        THEN IngestExecution(run.store, a) ELSE run
           summary == IF execution.answer = "accepted" THEN Summarise(execution.store, a)
                                                       ELSE execution
           Known == {"accepted", "obsolete", "busy", "error", "invalid"}
<1>0. c \in History /\ Grows(c, c) /\ RowsFrom(c, c, a) /\ GapsFrom(c, c, a)
  BY GrowsReflexive DEF CenterInv, RowsFrom, GapsFrom
<1>1. a.run \in RunId /\ a.kind \in {"run", "execution", "gap"}
  BY DEF WellFormed, ArtifactRecord
<1>2. result = IF SentGen(a) # c.gen THEN Refused(c, "obsolete")
               ELSE IF c.pending # 0 THEN Refused(c, "busy")
               ELSE IF a.kind = "gap" THEN IngestGap(c, a.target, a.gap)
               ELSE IF summary.answer # "accepted" THEN Refused(c, summary.answer)
               ELSE IF a.kind = "execution" THEN Accepted(Advance(summary.store, a.target))
               ELSE summary
  BY DEF UploadProbeArtifact, SentGen
<1> HIDE DEF result
<1>3. CASE result = Refused(c, "obsolete") /\ SentGen(a) # c.gen
  <2>1. result.answer = "obsolete" /\ new = c
    BY <1>3 DEF Refused
  <2> HIDE DEF new
  <2> QED BY <1>0, <1>3, <2>1 DEF new, result
<1>4. CASE result = Refused(c, "busy")
  <2>1. result.answer = "busy" /\ new = c
    BY <1>4 DEF Refused
  <2> HIDE DEF new
  <2> QED BY <1>0, <2>1 DEF new, result
<1>5. CASE /\ SentGen(a) = c.gen /\ c.pending = 0 /\ a.kind = "gap"
           /\ result = IngestGap(c, a.target, a.gap)
  <2>1. /\ a.target \in Targets /\ a.gap \in GapRecord /\ a.gap.id \in RunId
        /\ a.gap.first <= a.gap.last /\ a.gap.last <= MaxRuns
    BY <1>1, <1>5 DEF WellFormed, ArtifactRecord
  <2>6. PICK t \in Targets, gap \in GapRecord :
           /\ t = a.target /\ gap = a.gap /\ gap.id \in RunId
           /\ gap.first <= gap.last /\ gap.last <= MaxRuns
    BY <2>1
  <2>7. result = IngestGap(c, t, gap)
    BY <1>5, <2>6
  <2>2. /\ result.answer \in {"accepted", "invalid"}
        /\ result.answer # "accepted" => new = c
        /\ CenterInv(new) /\ Grows(c, new) /\ new.runs = c.runs /\ new.execs = c.execs
        /\ result.answer = "accepted" => \E wide \in new.gaps[t] :
              wide.first <= gap.first /\ gap.last <= wide.last
    BY <2>6, <2>7, GapGrows
  <2>5. NamesFrom(c, new, t, gap)
    BY <2>6, <2>7, GapGrows
  <2> HIDE DEF new
  <2>3. RowsFrom(c, new, a)
    BY <2>2 DEF RowsFrom
  <2>4. GapsFrom(c, new, a)
    BY <1>5, <2>5, <2>6 DEF GapsFrom, NamesFrom, WellFormed
  <2> QED BY <1>5, <2>2, <2>3, <2>4, <2>6 DEF new, result
<1>6. CASE SentGen(a) = c.gen /\ c.pending = 0 /\ a.kind \in {"run", "execution"}
  <2> DEFINE first == run.store
             second == execution.store
             third == summary.store
  <2>1. /\ run.answer \in {"accepted", "error"}
        /\ run.answer = "accepted" =>
             /\ CenterInv(first) /\ Grows(c, first) /\ first.gaps = c.gaps
             /\ \A r \in RunId : r # a.run =>
                   first.runs[r] = c.runs[r] /\ first.execs[r] = c.execs[r]
             /\ first.runs[a.run] = IF c.runs[a.run] = "none" THEN "running" ELSE c.runs[a.run]
             /\ \A t \in Targets : first.execs[a.run][t] =
                   IF t \in a.runRecord.targets /\ c.execs[a.run][t].status = "none"
                   THEN [status |-> "pending", seq |-> a.manifest[t]]
                   ELSE c.execs[a.run][t]
    BY <1>6, RunStored
  <2> HIDE DEF run, first
  <2>2. a.kind = "execution" => /\ a.target \in Targets /\ a.target \in a.runRecord.targets
                                /\ a.status # "none"
    BY DEF WellFormed, ArtifactRecord, RunRecord
  <2>12. ASSUME run.answer = "accepted", NEW t \in Targets
         PROVE  /\ first.execs[a.run][t] = c.execs[a.run][t] \/
                      /\ first.execs[a.run][t].status = "pending"
                      /\ first.execs[a.run][t].seq = a.manifest[t]
                      /\ c.execs[a.run][t].status = "none"
                /\ t \in a.runRecord.targets => first.execs[a.run][t].status # "none"
    <3>1. first.execs[a.run][t] =
             IF t \in a.runRecord.targets /\ c.execs[a.run][t].status = "none"
             THEN [status |-> "pending", seq |-> a.manifest[t]]
             ELSE c.execs[a.run][t]
      BY <2>1, <2>12
    <3>2. CASE t \in a.runRecord.targets /\ c.execs[a.run][t].status = "none"
      <4>1. first.execs[a.run][t] = [status |-> "pending", seq |-> a.manifest[t]]
        BY <3>1, <3>2
      <4> QED BY <3>2, <4>1
    <3> QED BY <3>1, <3>2
  <2>3. run.answer = "accepted" /\ a.kind = "execution" =>
          first.execs[a.run][a.target].status # "none"
    BY <2>2, <2>12
  <2>4. /\ execution.answer \in {"accepted", "invalid", "error"}
        /\ execution.answer = "accepted" =>
             /\ run.answer = "accepted"
             /\ CenterInv(second) /\ Grows(first, second) /\ second.runs = first.runs
             /\ second.gaps = first.gaps
             /\ \A r \in RunId, t \in Targets :
                   r # a.run \/ t # a.target \/ a.kind = "run" =>
                      second.execs[r][t] = first.execs[r][t]
             /\ a.kind = "execution" =>
                  /\ second.execs[a.run][a.target].status = a.status
                  /\ second.execs[a.run][a.target].seq = first.execs[a.run][a.target].seq
    <3>1. CASE run.answer = "accepted" /\ a.kind = "execution"
      <4>1. execution = IngestExecution(first, a) /\ second = IngestExecution(first, a).store
        BY <3>1 DEF first
      <4>2. CenterInv(first)
        BY <2>1, <3>1
      <4> HIDE DEF execution, second
      <4> QED BY <2>3, <3>1, <4>1, <4>2, ExecutionStored
    <3>2. CASE ~(run.answer = "accepted" /\ a.kind = "execution")
      <4>1. execution = run /\ second = first
        BY <3>2 DEF first
      <4> HIDE DEF execution, second
      <4>2. run.answer = "accepted" => Grows(first, first)
        BY <2>1, GrowsReflexive DEF CenterInv
      <4> QED BY <1>6, <2>1, <3>2, <4>1, <4>2
    <3> QED BY <3>1, <3>2
  <2> HIDE DEF execution, second
  <2>5. execution.answer = "accepted" => second.runs[a.run] # "none"
    <3>1. execution.answer = "accepted" => second.runs[a.run] = first.runs[a.run]
      BY <2>4
    <3> QED BY <2>1, <2>4, <3>1
  <2>6. /\ summary.answer \in {"accepted", "invalid", "error"}
        /\ summary.answer = "accepted" =>
             /\ execution.answer = "accepted"
             /\ CenterInv(third) /\ Grows(second, third) /\ third.execs = second.execs
             /\ third.gaps = second.gaps
             /\ \A r \in RunId : r # a.run => third.runs[r] = second.runs[r]
             /\ third.runs[a.run] \in {second.runs[a.run], a.runRecord.status}
             /\ \/ third.runs[a.run] = second.runs[a.run]
                \/ \A t \in a.runRecord.targets : Terminal(third.execs[a.run][t])
    <3>1. CASE execution.answer = "accepted"
      <4>1. summary = Summarise(second, a) /\ third = Summarise(second, a).store
        BY <3>1 DEF second
      <4>2. CenterInv(second)
        BY <2>4, <3>1
      <4> HIDE DEF summary, third
      <4> QED BY <1>6, <2>5, <3>1, <4>1, <4>2, SummaryStored
    <3>2. CASE execution.answer # "accepted"
      <4>1. summary = execution
        BY <3>2
      <4> HIDE DEF summary, third
      <4> QED BY <2>4, <3>2, <4>1
    <3> QED BY <3>1, <3>2
  <2> HIDE DEF summary, third
  <2>7. ASSUME summary.answer = "accepted"
        PROVE  Grows(c, third) /\ RowsFrom(c, third, a) /\ third.gaps = c.gaps
    <3>1. execution.answer = "accepted" /\ run.answer = "accepted"
      BY <2>4, <2>6, <2>7
    <3>2. first \in History /\ second \in History /\ third \in History
      BY <2>1, <2>4, <2>6, <2>7, <3>1 DEF CenterInv
    <3>3. Grows(c, third)
      <4>1. Grows(c, second)
        BY <1>0, <2>1, <2>4, <3>1, <3>2, GrowsTransitive
      <4> QED BY <1>0, <2>6, <2>7, <3>2, <4>1, GrowsTransitive
    <3>4. \A r \in RunId : r # a.run => third.runs[r] = c.runs[r]
      <4>1. second.runs = first.runs
        BY <2>4, <3>1
      <4> QED BY <2>1, <2>6, <2>7, <3>1, <4>1
    <3>5. \A r \in RunId : r # a.run => third.execs[r] = c.execs[r]
      <4> SUFFICES ASSUME NEW r \in RunId, r # a.run PROVE third.execs[r] = c.execs[r]
        OBVIOUS
      <4>1. \A t \in Targets : third.execs[r][t] = c.execs[r][t]
        BY <2>1, <2>4, <2>6, <2>7, <3>1
      <4>2. third.execs[r] = [t \in Targets |-> third.execs[r][t]]
        BY <3>2 DEF History
      <4>3. c.execs[r] = [t \in Targets |-> c.execs[r][t]]
        BY <1>0 DEF History
      <4> QED BY <4>1, <4>2, <4>3
    <3>6. /\ third.runs[a.run] \in {c.runs[a.run], "running", a.runRecord.status}
          /\ \/ third.runs[a.run] \in {c.runs[a.run], "running"}
             \/ \A t \in a.runRecord.targets : Terminal(third.execs[a.run][t])
      <4>1. second.runs = first.runs
        BY <2>4, <3>1
      <4> QED BY <2>1, <2>6, <2>7, <3>1, <4>1
    <3>7. ASSUME NEW t \in Targets, third.execs[a.run][t] # c.execs[a.run][t]
          PROVE  /\ t \in a.runRecord.targets
                 /\ third.execs[a.run][t].seq = IF c.execs[a.run][t].status = "none"
                       THEN a.manifest[t] ELSE c.execs[a.run][t].seq
                 /\ \/ third.execs[a.run][t].status = "pending"
                    \/ /\ a.kind = "execution" /\ t = a.target
                       /\ third.execs[a.run][t].status = a.status
      <4>1. third.execs[a.run][t] = second.execs[a.run][t]
        BY <2>6, <2>7
      <4>2. CASE a.kind = "execution" /\ t = a.target
        <5>1. /\ second.execs[a.run][t].status = a.status
              /\ second.execs[a.run][t].seq = first.execs[a.run][t].seq
          BY <2>4, <3>1, <4>2
        <5>2. first.execs[a.run][t].seq = IF c.execs[a.run][t].status = "none"
                 THEN a.manifest[t] ELSE c.execs[a.run][t].seq
          BY <2>2, <2>3, <2>12, <3>1, <4>2
        <5> QED BY <2>2, <4>1, <4>2, <5>1, <5>2
      <4>3. CASE a.kind = "run" \/ t # a.target
        <5>1. second.execs[a.run][t] = first.execs[a.run][t]
          BY <1>1, <2>4, <3>1, <4>3
        <5>2. /\ t \in a.runRecord.targets /\ c.execs[a.run][t].status = "none"
              /\ first.execs[a.run][t] = [status |-> "pending", seq |-> a.manifest[t]]
          BY <2>1, <3>1, <3>7, <4>1, <5>1
        <5> QED BY <4>1, <5>1, <5>2
      <4> QED BY <1>6, <4>2, <4>3
    <3>8. third.gaps = c.gaps
      BY <2>1, <2>4, <2>6, <2>7, <3>1
    <3> QED BY <3>3, <3>4, <3>5, <3>6, <3>7, <3>8 DEF RowsFrom
  <2>8. summary.answer = "accepted" /\ a.kind = "execution" =>
          third.execs[a.run][a.target].status = a.status
    BY <2>4, <2>6
  <2>9. CASE summary.answer # "accepted"
    <3>1. result = Refused(c, summary.answer)
      BY <1>2, <1>6, <2>9 DEF summary, execution, run
    <3>2. result.answer = summary.answer /\ new = c
      BY <3>1 DEF Refused
    <3> HIDE DEF new
    <3> QED BY <1>0, <1>6, <2>6, <2>9, <3>2 DEF new, result
  <2>10. CASE summary.answer = "accepted" /\ a.kind = "execution"
    <3> DEFINE last == Advance(third, a.target)
    <3>1. result = Accepted(last)
      BY <1>2, <1>6, <2>10 DEF summary, execution, run, third
    <3>2. /\ CenterInv(last)
          /\ last.gen = third.gen /\ last.pending = third.pending /\ last.runs = third.runs
          /\ last.execs = third.execs /\ last.gaps = third.gaps
      BY <2>2, <2>6, <2>10, AdvanceInv
    <3>3. result.answer = "accepted" /\ new = last
      BY <3>1 DEF Accepted
    <3> HIDE DEF new, last
    <3>4. Grows(c, last) /\ RowsFrom(c, last, a)
      BY <2>7, <2>10, <3>2 DEF Grows, RowsFrom
    <3>5. GapsFrom(c, last, a)
      BY <2>7, <2>10, <3>2 DEF GapsFrom
    <3> QED BY <1>6, <2>8, <2>10, <3>2, <3>3, <3>4, <3>5 DEF new, result
  <2>11. CASE summary.answer = "accepted" /\ a.kind = "run"
    <3>1. result = summary
      BY <1>2, <1>6, <2>11 DEF summary, execution, run
    <3>2. result.answer = "accepted" /\ new = third
      BY <2>11, <3>1 DEF third
    <3> HIDE DEF new
    <3>3. GapsFrom(c, third, a)
      BY <2>7, <2>11 DEF GapsFrom
    <3> QED BY <1>6, <2>6, <2>7, <2>11, <3>2, <3>3 DEF new, result
  <2> QED BY <1>6, <2>9, <2>10, <2>11
<1> QED BY <1>1, <1>2, <1>3, <1>4, <1>5, <1>6

\* An empty history, and ResetHistory's commits.
LEMMA EmptyInv ==
  ASSUME NEW g \in Generation, NEW p \in Generation \cup {0}
  PROVE  CenterInv(EmptyHistory(g, p))
<1> DEFINE c == EmptyHistory(g, p)
<1>1. NoRow.status = "none" /\ NoRow \in
         [status : {"none", "pending", "running"} \cup TerminalStatus, seq : Nat]
  BY DEF NoRow
<1>2. c \in History
  BY <1>1 DEF EmptyHistory, History
<1>3. \A r \in RunId, t \in Targets :
        /\ c.execs[r][t].status = "none" /\ c.gaps[t] = {} /\ c.current[t] = 0
        /\ c.next[t] = 1 /\ c.last[t] = 0 /\ c.changes[t] = {}
  BY <1>1 DEF EmptyHistory
<1>4. \A t \in Targets :
        /\ c.gaps[t] = {} /\ c.current[t] = 0
        /\ c.next[t] = 1 /\ c.last[t] = 0 /\ c.changes[t] = {}
  BY DEF EmptyHistory
<1> HIDE DEF c
<1>5. Rows(c) /\ Snapshots(c)
  BY <1>3, <1>4 DEF Rows, Snapshots
<1>6. Passed(c)
  <2>1. 1 \in 1 .. MaxRuns + 1 /\ 1 .. 1 - 1 = {}
    BY BoundAssumption
  <2> QED BY <1>4, <2>1 DEF Passed
<1>7. Compared(c)
  BY <1>3, <1>4 DEF Compared, Success
<1> QED BY <1>2, <1>5, <1>6, <1>7 DEF CenterInv, c

\* So does a promotion of the pending generation.
LEMMA GenerationInv ==
  ASSUME NEW c, CenterInv(c), NEW g \in Generation, NEW p \in Generation \cup {0}
  PROVE  CenterInv([c EXCEPT !.gen = g, !.pending = p])
<1> DEFINE new == [c EXCEPT !.gen = g, !.pending = p]
<1>1. /\ new \in History
      /\ new.runs = c.runs /\ new.execs = c.execs /\ new.gaps = c.gaps
      /\ new.current = c.current /\ new.next = c.next /\ new.last = c.last
      /\ new.changes = c.changes
  BY Zenon DEF CenterInv, History
<1> HIDE DEF new
<1>2. Rows(new) /\ Snapshots(new)
  BY <1>1 DEF CenterInv, Rows, Snapshots
<1>3. Passed(new)
  BY <1>1 DEF CenterInv, Passed, Decided, Stored, Covering
<1>4. Compared(new)
  BY <1>1 DEF CenterInv, Compared, Success, Covering
<1> QED BY <1>1, <1>2, <1>3, <1>4 DEF CenterInv, new

-----------------------------------------------------------------------------
(* The Agent's records, the artifacts and the Center's rows                *)

\* What an artifact says is what the record it was read from says, as long as there is
\* one: of n runs started, none of a generation the Agent has not reached.
Truthful(st, n, a) ==
    /\ a.kind # "none" => ~(a.run > n) /\ ~(SentGen(a) > st.gen)
    /\ a.kind \in {"run", "execution"} /\ st.runs[a.run] # NoRun =>
         /\ a.runRecord.gen = st.runs[a.run].gen
         /\ a.runRecord.targets = st.runs[a.run].targets
         /\ a.runRecord.status \in FinalRunStatus => a.runRecord.status = st.runs[a.run].status
         /\ \A t \in a.runRecord.targets : a.manifest[t] = st.execs[a.run][t].seq
         /\ a.kind = "execution" /\ Terminal(a) => a.status = st.execs[a.run][a.target].status

\* CenterAgrees and ResetClears, with the sequences: the rows the Center has of a run
\* the Agent still has a record of.
Reflects(st, n, c) ==
    \A r \in RunId :
        /\ r > n => c.runs[r] = "none"
        /\ st.runs[r] # NoRun =>
             /\ c.runs[r] # "none" => st.runs[r].gen = c.gen
             /\ c.runs[r] \in FinalRunStatus => c.runs[r] = st.runs[r].status
             /\ \A t \in Targets : c.execs[r][t].status # "none" =>
                  /\ c.execs[r][t].seq = st.execs[r][t].seq
                  /\ Terminal(c.execs[r][t]) => c.execs[r][t].status = st.execs[r][t].status

\* What is not there says nothing.
LEMMA NoArtifactFacts ==
  ASSUME NEW st, NEW n
  PROVE  WellFormed(NoArtifact) /\ Truthful(st, n, NoArtifact)
<1>1. NoArtifact.kind = "none"
  BY DEF NoArtifact
<1> QED BY <1>1, NoArtifactType DEF WellFormed, Truthful

\* NextProbeArtifact reads a truthful artifact of a consistent store, whose sequences
\* do not outrun the runs started.
LEMMA ArtifactFacts ==
  ASSUME NEW st \in Store, NEW n \in 0 .. MaxRuns, QueueInv(st, n), NEW k \in QueuedKeys(st),
         NEW a, a = Artifact(st, k)
  PROVE  WellFormed(a) /\ Truthful(st, n, a)
<1>0. /\ a \in ArtifactRecord /\ NamedKey(a) /\ a.kind = k.kind /\ a.run = k.run /\ a.target = k.target
      /\ Records(st, n) /\ Sequences(st) /\ Gaps(st, n)
      /\ n \in Nat /\ n <= MaxRuns /\ MaxRuns \in Nat
  BY ArtifactType, BoundAssumption DEF Artifact, QueueInv
<1>1. \A r \in RunId : r \in Nat
  BY RunIdFinite
<1>2. ASSUME NEW r \in RunId, st.runs[r].gen = st.gen
      PROVE  /\ st.runs[r].status # "none" /\ st.runs[r].gen # 0 /\ ~(r > n)
             /\ \A t \in st.runs[r].targets : st.execs[r][t].seq \in 1 .. MaxRuns
  <2>1. st.runs[r] # NoRun /\ ~(r > n) /\ st.runs[r].status # "none" /\ st.gen \in Nat \ {0}
    BY <1>0, <1>2, Exists, Fields DEF Records
  <2>2. \A t \in st.runs[r].targets :
          /\ t \in Targets /\ st.execs[r][t].seq \in Nat /\ st.seqs[t] \in Nat
          /\ st.execs[r][t].seq # 0 /\ st.execs[r][t].seq <= st.seqs[t] /\ st.seqs[t] <= n
    BY <1>0, <1>2, Fields DEF Records, Sequences, Gaps
  <2> QED BY <1>0, <1>2, <2>1, <2>2
<1>3. CASE k.kind \in {"run", "execution"}
  <2>1. /\ k.run \in RunId /\ st.runs[k.run].gen = st.gen
        /\ k.kind = "execution" => k.target \in Targets /\ st.execQ[k.run][k.target] # 0
    BY <1>0, <1>3 DEF QueuedKeys, AllExecutions, Records
  <2>2. /\ a.runRecord = st.runs[k.run]
        /\ \A t \in Targets : a.manifest[t] = st.execs[k.run][t].seq
        /\ k.kind = "execution" => a.status = st.execs[k.run][k.target].status
    BY <1>3 DEF Artifact
  <2>3. st.runs[k.run].targets \in SUBSET Targets
    BY <2>1, Fields
  <2>4. k.kind = "execution" =>
           k.target \in st.runs[k.run].targets /\ st.execs[k.run][k.target].status # "none"
    BY <1>0, <2>1, Exists DEF Records
  <2>5. WellFormed(a)
    BY <1>0, <1>2, <1>3, <2>1, <2>2, <2>3, <2>4 DEF WellFormed
  <2>6. ~(SentGen(a) > st.gen)
    BY <1>0, <1>3, <2>1, <2>2, Fields DEF SentGen
  <2> QED BY <1>0, <1>2, <2>1, <2>2, <2>3, <2>5, <2>6 DEF Truthful
<1>4. CASE k.kind = "gap"
  <2>1. PICK u \in Targets : st.gapQ[u] # 0 /\ k = [kind |-> "gap", run |-> st.gaps[u].id, target |-> u]
    BY <1>4 DEF QueuedKeys
  <2>2. k.run = st.gaps[u].id /\ k.target = u /\ a.gap = st.gaps[u]
    BY <1>4, <2>1 DEF Artifact
  <2>3. st.gaps[u] # NoGap
    BY <1>0, <2>1 DEF Gaps, NoGap
  <2>4. /\ st.gaps[u].gen = st.gen /\ st.gaps[u].id # 0 /\ st.gaps[u].id <= n
        /\ st.gaps[u].first <= st.gaps[u].last /\ st.gaps[u].last <= st.seqs[u]
        /\ st.seqs[u] <= n
    BY <1>0, <2>3 DEF Gaps
  <2>5. /\ st.gaps[u].id \in RunId /\ st.gaps[u].last \in Nat /\ st.seqs[u] \in Nat
        /\ st.gen \in Nat
    BY <2>4, Fields, Zenon DEF Store, GapRecord
  <2>6. st.gaps[u].last <= MaxRuns
    BY <1>0, <2>4, <2>5
  <2>7. WellFormed(a)
    BY <1>0, <1>4, <2>2, <2>4, <2>5, <2>6 DEF WellFormed
  <2>8. ~(a.run > n) /\ ~(SentGen(a) > st.gen)
    BY <1>0, <1>1, <1>4, <2>2, <2>4, <2>5 DEF SentGen
  <2> QED BY <1>0, <1>4, <2>7, <2>8 DEF Truthful
<1> QED BY <1>3, <1>4 DEF QueuedKeys

\* An artifact stays truthful and the Center's rows stay true while the store evolves:
\* what an outcome says is final.
LEMMA TruthfulEvolves ==
  ASSUME NEW st \in Store, NEW new \in Store, NEW n \in Nat, NEW m \in Nat, n <= m,
         RunsEvolve(st, new, n), NEW a, WellFormed(a), Truthful(st, n, a)
  PROVE  Truthful(new, m, a)
<1>1. CASE a.kind = "none"
  BY <1>1 DEF Truthful
<1>2. CASE a.kind # "none"
  <2>0. a.run \in RunId /\ a.run \in Nat /\ a.kind \in {"run", "execution", "gap"}
        /\ SentGen(a) \in Nat /\ st.gen \in Nat /\ new.gen \in Nat
    <3>1. (\A g \in Generation : g \in Nat) /\ \A r \in RunId : r \in Nat
      BY BoundAssumption, RunIdFinite DEF Generation
    <3>2. a.gap.gen \in Generation \cup {0} /\ a.runRecord.gen \in Generation \cup {0}
      BY DEF WellFormed, ArtifactRecord, GapRecord, RunRecord
    <3> QED BY <1>2, <3>1, <3>2, Fields DEF WellFormed, ArtifactRecord, SentGen
  <2>1. ~(a.run > n) /\ ~(a.run > m) /\ ~(SentGen(a) > new.gen)
    BY <1>2, <2>0 DEF Truthful, RunsEvolve
  <2>2. RunEvolves(st, new, a.run)
    BY <2>0, <2>1 DEF RunsEvolve
  <2>3. CASE a.kind \in {"run", "execution"} /\ new.runs[a.run] # NoRun
    <3>1. /\ a.runRecord.targets \in SUBSET Targets
          /\ a.kind = "execution" => a.target \in Targets
      BY DEF WellFormed, ArtifactRecord, RunRecord
    <3>2. /\ st.runs[a.run] # NoRun
          /\ new.runs[a.run].gen = st.runs[a.run].gen
          /\ new.runs[a.run].targets = st.runs[a.run].targets
          /\ st.runs[a.run].status \in FinalRunStatus => new.runs[a.run] = st.runs[a.run]
          /\ \A t \in Targets :
               /\ new.execs[a.run][t].seq = st.execs[a.run][t].seq
               /\ Terminal(st.execs[a.run][t]) =>
                    new.execs[a.run][t].status = st.execs[a.run][t].status
      BY <2>2, <2>3 DEF RunEvolves
    <3>3. /\ a.runRecord.gen = st.runs[a.run].gen
          /\ a.runRecord.targets = st.runs[a.run].targets
          /\ a.runRecord.status \in FinalRunStatus => a.runRecord.status = st.runs[a.run].status
          /\ \A t \in a.runRecord.targets : a.manifest[t] = st.execs[a.run][t].seq
          /\ a.kind = "execution" /\ Terminal(a) => a.status = st.execs[a.run][a.target].status
      BY <2>3, <3>2 DEF Truthful
    <3>4. /\ a.runRecord.gen = new.runs[a.run].gen
          /\ a.runRecord.targets = new.runs[a.run].targets
          /\ a.runRecord.status \in FinalRunStatus => a.runRecord.status = new.runs[a.run].status
          /\ \A t \in a.runRecord.targets : a.manifest[t] = new.execs[a.run][t].seq
      BY <3>1, <3>2, <3>3
    <3>5. a.kind = "execution" /\ Terminal(a) => a.status = new.execs[a.run][a.target].status
      BY <3>1, <3>2, <3>3 DEF Terminal
    <3> QED BY <2>1, <3>4, <3>5 DEF Truthful
  <2> QED BY <2>0, <2>1, <2>3 DEF Truthful
<1> QED BY <1>1, <1>2

\* The rows of the Center still say what the records say after the store evolves.
LEMMA ReflectsEvolves ==
  ASSUME NEW st \in Store, NEW new \in Store, NEW n \in Nat, NEW m \in Nat, n <= m,
         RunsEvolve(st, new, n), NEW c \in History, Rows(c), Reflects(st, n, c)
  PROVE  Reflects(new, m, c)
<1> SUFFICES ASSUME NEW r \in RunId
             PROVE  /\ r > m => c.runs[r] = "none"
                    /\ new.runs[r] # NoRun =>
                         /\ c.runs[r] # "none" => new.runs[r].gen = c.gen
                         /\ c.runs[r] \in FinalRunStatus => c.runs[r] = new.runs[r].status
                         /\ \A t \in Targets : c.execs[r][t].status # "none" =>
                              /\ c.execs[r][t].seq = new.execs[r][t].seq
                              /\ Terminal(c.execs[r][t]) =>
                                   c.execs[r][t].status = new.execs[r][t].status
  BY DEF Reflects
<1>1. r \in Nat
  BY RunIdFinite
<1>2. CASE r > n
  <2>1. c.runs[r] = "none" /\ \A t \in Targets : c.execs[r][t].status = "none"
    BY <1>2 DEF Reflects, Rows
  <2>2. c.runs[r] \notin FinalRunStatus
    BY <2>1 DEF FinalRunStatus
  <2> QED BY <2>1, <2>2
<1>3. CASE ~(r > n)
  <2>1. ~(r > m)
    BY <1>1, <1>3
  <2>2. CASE new.runs[r] # NoRun
    <3>1. /\ st.runs[r] # NoRun
          /\ new.runs[r].gen = st.runs[r].gen
          /\ st.runs[r].status \in FinalRunStatus => new.runs[r] = st.runs[r]
          /\ \A t \in Targets :
               /\ new.execs[r][t].seq = st.execs[r][t].seq
               /\ Terminal(st.execs[r][t]) => new.execs[r][t].status = st.execs[r][t].status
      BY <1>3, <2>2 DEF RunsEvolve, RunEvolves
    <3> QED BY <2>1, <3>1 DEF Reflects, Terminal
  <2> QED BY <2>1, <2>2
<1> QED BY <1>2, <1>3

\* The Center stores what a truthful artifact says.
LEMMA ReflectsUpload ==
  ASSUME NEW st \in Store, NEW n \in Nat, NEW c, CenterInv(c), Reflects(st, n, c),
         NEW a, WellFormed(a), a.kind # "none", Truthful(st, n, a)
  PROVE  Reflects(st, n, UploadProbeArtifact(c, a).store)
<1> DEFINE new == UploadProbeArtifact(c, a).store
           result == UploadProbeArtifact(c, a)
<1>1. /\ result.answer # "accepted" => new = c
      /\ result.answer = "accepted" => SentGen(a) = c.gen
      /\ CenterInv(new) /\ Grows(c, new) /\ RowsFrom(c, new, a)
      /\ a.kind = "gap" => new.runs = c.runs /\ new.execs = c.execs
  BY UploadFacts
<1> HIDE DEF new, result
<1>2. CASE result.answer # "accepted"
  BY <1>1, <1>2 DEF new
<1>3. CASE result.answer = "accepted" /\ a.kind = "gap"
  <2>1. new.runs = c.runs /\ new.execs = c.execs /\ new.gen = c.gen
    BY <1>1, <1>3 DEF Grows
  <2> QED BY <2>1 DEF new, Reflects
<1>4. CASE result.answer = "accepted" /\ a.kind \in {"run", "execution"}
  <2>0. a.run \in RunId /\ a.runRecord.gen = c.gen /\ new.gen = c.gen
        /\ ~(a.run > n) /\ a.runRecord.targets \in SUBSET Targets
    BY <1>1, <1>4 DEF WellFormed, ArtifactRecord, RunRecord, SentGen, Grows, Truthful
  <2> SUFFICES ASSUME NEW r \in RunId
               PROVE  /\ r > n => new.runs[r] = "none"
                      /\ st.runs[r] # NoRun =>
                           /\ new.runs[r] # "none" => st.runs[r].gen = new.gen
                           /\ new.runs[r] \in FinalRunStatus => new.runs[r] = st.runs[r].status
                           /\ \A t \in Targets : new.execs[r][t].status # "none" =>
                                /\ new.execs[r][t].seq = st.execs[r][t].seq
                                /\ Terminal(new.execs[r][t]) =>
                                     new.execs[r][t].status = st.execs[r][t].status
    BY DEF new, Reflects
  <2>1. CASE r # a.run
    <3>1. new.runs[r] = c.runs[r] /\ new.execs[r] = c.execs[r]
      BY <1>1, <2>1 DEF RowsFrom
    <3> QED BY <2>0, <3>1 DEF Reflects
  <2>2. CASE r = a.run /\ st.runs[r] # NoRun
    <3>1. /\ a.runRecord.gen = st.runs[r].gen
          /\ a.runRecord.status \in FinalRunStatus => a.runRecord.status = st.runs[r].status
          /\ \A t \in a.runRecord.targets : a.manifest[t] = st.execs[r][t].seq
          /\ a.kind = "execution" /\ Terminal(a) => a.status = st.execs[r][a.target].status
      BY <1>4, <2>2 DEF Truthful
    <3>2. new.runs[r] \in FinalRunStatus => new.runs[r] = st.runs[r].status
      <4>1. new.runs[r] \in {c.runs[r], "running", a.runRecord.status}
        BY <1>1, <2>2 DEF RowsFrom
      <4> QED BY <2>2, <3>1, <4>1 DEF Reflects, FinalRunStatus
    <3>3. ASSUME NEW t \in Targets, new.execs[r][t].status # "none"
          PROVE  /\ new.execs[r][t].seq = st.execs[r][t].seq
                 /\ Terminal(new.execs[r][t]) => new.execs[r][t].status = st.execs[r][t].status
      <4>1. CASE new.execs[r][t] = c.execs[r][t]
        BY <2>2, <3>3, <4>1 DEF Reflects
      <4>2. CASE new.execs[r][t] # c.execs[r][t]
        <5>1. /\ t \in a.runRecord.targets
              /\ new.execs[r][t].seq = IF c.execs[r][t].status = "none" THEN a.manifest[t]
                                       ELSE c.execs[r][t].seq
              /\ \/ new.execs[r][t].status = "pending"
                 \/ a.kind = "execution" /\ t = a.target /\ new.execs[r][t].status = a.status
          BY <1>1, <2>2, <4>2 DEF RowsFrom
        <5>2. new.execs[r][t].seq = st.execs[r][t].seq
          BY <2>2, <3>1, <5>1 DEF Reflects
        <5> QED BY <3>1, <5>1, <5>2 DEF Terminal, TerminalStatus
      <4> QED BY <4>1, <4>2
    <3> QED BY <2>0, <2>2, <3>1, <3>2, <3>3
  <2>3. CASE r = a.run /\ st.runs[r] = NoRun
    BY <2>0, <2>3
  <2> QED BY <2>1, <2>2, <2>3
<1> QED BY <1>2, <1>3, <1>4 DEF WellFormed, ArtifactRecord

-----------------------------------------------------------------------------
(* The invariant                                                           *)

\* A pending generation is the next one, a running ResetHistory has recorded one, and
\* a cleared history has no runs.  The Agent never has a generation the Center does not.
ResetInv ==
    /\ resetting \in {"no", "pending", "cleared"}
    /\ center.pending # 0 => center.pending = center.gen + 1
    /\ resetting # "no" => center.pending # 0
    /\ resetting = "cleared" => \A r \in RunId : center.runs[r] = "none"
    /\ ~(db.gen > center.gen)

\* What is in flight, or was given up, says what the Agent's records say.
FlightInv ==
    /\ answer \in {"none", "accepted", "obsolete", "busy", "error", "invalid"}
    /\ WellFormed(sent) /\ Truthful(db, issued, sent)
    /\ WellFormed(late) /\ Truthful(db, issued, late)

HistoryInv ==
    /\ ProbeInv /\ CenterInv(center) /\ ResetInv /\ FlightInv
    /\ Reflects(db, issued, center)

\* A step of the Agent, with whatever it leaves behind on the network.
LEMMA AgentSide ==
  ASSUME HistoryInv, [Next]_vars, UNCHANGED centerVars, late' \in {late, sent},
         answer' \in {"none", answer}, ~(db'.gen > center.gen)
  PROVE  HistoryInv'
<1>1. ProbeInv' /\ Kept
  BY ProbeStep DEF HistoryInv
<1>2. /\ db \in Store /\ db' \in Store /\ issued \in Nat /\ issued' \in Nat /\ issued <= issued'
      /\ issued \in 0 .. MaxRuns /\ QueueInv(db, issued)
      /\ Evolves(db, db', issued)
  BY <1>1, SentChanges DEF HistoryInv, ProbeInv, TypeInv, TypeOK, Kept
<1>9. RunsEvolve(db, db', issued)
  BY <1>2 DEF Evolves, RunsEvolve
<1>3. center' = center /\ resetting' = resetting
  BY DEF centerVars
<1>4. \A a \in {sent, late} : WellFormed(a) /\ Truthful(db', issued', a)
  BY <1>2, <1>9, TruthfulEvolves DEF HistoryInv, FlightInv
<1>5. WellFormed(sent') /\ Truthful(db', issued', sent')
  <2>1. CASE sent' = sent
    BY <1>4, <2>1
  <2>2. CASE sent' = NoArtifact
    BY <2>2, NoArtifactFacts
  <2>3. CASE db' = db /\ issued' = issued /\ \E k \in QueuedKeys(db) : sent' = Artifact(db, k)
    BY <1>2, <2>3, ArtifactFacts
  <2> QED BY <2>1, <2>2, <2>3, SentChanges DEF HistoryInv, ProbeInv
<1>6. FlightInv'
  BY <1>4, <1>5 DEF HistoryInv, FlightInv
<1>7. Reflects(db', issued', center)
  BY <1>2, <1>9, ReflectsEvolves DEF HistoryInv, CenterInv
<1>8. ResetInv'
  BY <1>3 DEF HistoryInv, ResetInv
<1> QED BY <1>1, <1>3, <1>6, <1>7, <1>8 DEF HistoryInv

\* A node recovered on a new disk: nothing the Center has contradicts an empty store.
LEMMA ReinstallSide ==
  ASSUME HistoryInv, Reinstall
  PROVE  HistoryInv'
<1>0. /\ center \in History /\ center.gen \in Generation /\ issued \in 0 .. MaxRuns
      /\ issued \in Nat /\ db \in Store
  BY BoundAssumption DEF HistoryInv, CenterInv, History, ProbeInv, TypeInv, TypeOK
<1>1. /\ db' = [EmptyStore EXCEPT !.gen = center.gen] /\ files' = {}
      /\ resultDir' = resultDir /\ removing' = removing /\ up' = up /\ ~up
      /\ stopping' = stopping /\ reconciled' = reconciled /\ worker' = worker
      /\ sent' = sent /\ issued' = issued /\ restarts < MaxRestarts /\ restarts' = restarts + 1
      /\ center' = center /\ resetting' = resetting /\ answer' = answer /\ late' = late
  BY DEF Reinstall, centerVars, networkVars
<1>2. /\ db' \in Store /\ QueueInv(db', issued)
  BY <1>0, <1>1, NewQueue
<1>3. /\ db'.gen = center.gen /\ db'.active = 0
      /\ \A r \in RunId : db'.runs[r] = NoRun /\ \A t \in Targets : db'.execs[r][t] = NoExec
      /\ \A t \in Targets : db'.gaps[t] = NoGap /\ db'.seqs[t] = 0
  BY <1>1 DEF EmptyStore
<1>4. NoRun.status = "none" /\ NoRun.gen = 0 /\ ~IsOpen(NoExec) /\ ~NoExec.file /\ NoGap.id = 0
  BY DEF NoRun, NoExec, IsOpen, NoGap
<1>5. worker = IdleWorker /\ removing = Nothing
  BY <1>1 DEF HistoryInv, ProbeInv, FilesInv
<1>6. TypeInv'
  <2>1. restarts' \in 0 .. MaxRestarts
    BY <1>1, RestartAssumption DEF HistoryInv, ProbeInv, TypeInv, TypeOK
  <2> QED BY <1>1, <1>2, <2>1 DEF HistoryInv, ProbeInv, TypeInv, TypeOK, Named
<1>7. RunInv'
  <2>1. \A r \in RunId : r # 0
    BY DEF RunId
  <2> QED BY <1>1, <1>3, <1>4, <1>5, <2>1 DEF RunInv, Consistent, WorkerHolds, IdleWorker
<1>8. FilesInv'
  <2>1. Referenced(db') = {}
    BY <1>3, <1>4 DEF Referenced, AllExecutions, Exec
  <2> QED BY <1>1, <1>5, <2>1 DEF HistoryInv, ProbeInv, FilesInv, IdleWorker, Nothing
<1>9. SentInv'
  <2>1. sent # NoArtifact => NamedKey(sent)
    BY DEF HistoryInv, ProbeInv, TypeInv, Named
  <2>2. sent.kind \in {"run", "execution", "gap"} => NamedKey(sent)
    BY <2>1 DEF NoArtifact
  <2>3. sent.kind = "gap" => sent.run \in RunId
    BY DEF HistoryInv, FlightInv, WellFormed
  <2>4. NoRun.gen # db'.gen
    BY <1>2, <1>4, Fields
  <2> QED BY <1>1, <1>3, <1>4, <2>2, <2>3, <2>4 DEF HistoryInv, ProbeInv, SentInv, NamedKey, Live
<1>10. FlightInv'
  <2>1. \A a \in {sent, late} : WellFormed(a) /\ Truthful(db, issued, a)
    BY DEF HistoryInv, FlightInv
  <2>2. db.gen \in Nat /\ center.gen \in Nat /\ ~(db.gen > center.gen)
    BY <1>0, Fields, BoundAssumption DEF HistoryInv, ResetInv, Generation
  <2>3. ASSUME NEW a \in {sent, late} PROVE Truthful(db', issued, a)
    <3>1. a.kind # "none" => a.run \in RunId /\ SentGen(a) \in Nat
      <4>1. \A g \in Generation : g \in Nat
        BY BoundAssumption DEF Generation
      <4>2. a.gap.gen \in Generation \cup {0} /\ a.runRecord.gen \in Generation \cup {0}
        BY <2>1 DEF WellFormed, ArtifactRecord, GapRecord, RunRecord
      <4> QED BY <2>1, <4>1, <4>2 DEF WellFormed, SentGen
    <3>2. a.kind # "none" => ~(a.run > issued) /\ ~(SentGen(a) > db'.gen)
      BY <1>3, <2>1, <2>2, <3>1 DEF Truthful
    <3>3. a.kind \in {"run", "execution"} => a.kind # "none"
      OBVIOUS
    <3> QED BY <1>3, <3>1, <3>2, <3>3 DEF Truthful
  <2> QED BY <1>1, <2>1, <2>3 DEF HistoryInv, FlightInv
<1>11. Reflects(db', issued', center')
  BY <1>1, <1>3 DEF HistoryInv, Reflects
<1>12. ResetInv'
  <2>1. ~(center.gen > center.gen)
    BY <1>0, BoundAssumption DEF Generation
  <2> QED BY <1>1, <1>3, <2>1 DEF HistoryInv, ResetInv
<1> QED BY <1>1, <1>2, <1>6, <1>7, <1>8, <1>9, <1>10, <1>11, <1>12 DEF HistoryInv, ProbeInv

\* The Center takes an artifact in: the one in flight or the one that was given up.
LEMMA UploadSide ==
  ASSUME HistoryInv, NEW a \in {sent, late}, a # NoArtifact, HistoryFree,
         center' = UploadProbeArtifact(center, a).store, UNCHANGED <<agentVars, resetting>>,
         answer' \in {answer, UploadProbeArtifact(center, a).answer}, late' \in {late, NoArtifact}
  PROVE  HistoryInv' /\ Grows(center, center')
<1> DEFINE result == UploadProbeArtifact(center, a)
<1>1. WellFormed(a) /\ Truthful(db, issued, a) /\ CenterInv(center)
  BY DEF HistoryInv, FlightInv
<1>2. a.kind # "none"
  BY <1>1 DEF WellFormed
<1>3. /\ result.answer \in {"accepted", "obsolete", "busy", "error", "invalid"}
      /\ CenterInv(center') /\ Grows(center, center')
  BY <1>1, <1>2, UploadFacts
<1>4. Reflects(db, issued, center')
  BY <1>1, <1>2, ReflectsUpload DEF HistoryInv, ProbeInv, TypeInv, TypeOK
<1> HIDE DEF result
<1>5. /\ db' = db /\ issued' = issued /\ sent' = sent /\ resetting' = resetting /\ resetting = "no"
      /\ UNCHANGED vars
  BY DEF agentVars, vars, HistoryFree
<1>6. ResetInv'
  BY <1>3, <1>5 DEF HistoryInv, ResetInv, Grows
<1>7. FlightInv'
  BY <1>3, <1>5, NoArtifactFacts DEF HistoryInv, FlightInv, result
<1>8. ProbeInv'
  BY <1>5, ProbeStep DEF HistoryInv
<1> QED BY <1>3, <1>4, <1>5, <1>6, <1>7, <1>8 DEF HistoryInv

\* The commits of ResetHistory.
LEMMA ResetSide ==
  ASSUME HistoryInv, Reset
  PROVE  HistoryInv'
<1>0. /\ center \in History /\ center.gen \in Generation /\ center.pending \in Generation \cup {0}
      /\ CenterInv(center) /\ db \in Store /\ MaxGeneration \in Nat
      /\ \A g \in Generation : g \in Nat /\ g # 0
      /\ \A g \in Nat : 0 < g /\ g <= MaxGeneration => g \in Generation
  BY BoundAssumption DEF HistoryInv, CenterInv, History, ProbeInv, TypeInv, TypeOK, Generation
<1>1. UNCHANGED vars /\ UNCHANGED networkVars
  BY DEF Reset, BeginReset, ClearObservedHistory, FinishReset, AbortReset, agentVars
<1>2. ProbeInv' /\ FlightInv' /\ db' = db /\ issued' = issued
  <2>1. ProbeInv'
    BY <1>1, ProbeStep DEF HistoryInv
  <2> QED BY <1>1, <2>1 DEF HistoryInv, FlightInv, vars, networkVars
<1>3. CASE BeginReset
  <2>1. center' = SetPendingGeneration(center) /\ resetting' = "pending"
        /\ center.gen < MaxGeneration
    BY <1>3 DEF BeginReset
  <2>2. center.gen + 1 \in Generation
    BY <1>0, <2>1
  <2>3. PICK p \in Generation : center' = [center EXCEPT !.pending = p] /\ p = center.gen + 1
    <3>1. CASE center.pending = 0
      BY <2>1, <2>2, <3>1 DEF SetPendingGeneration
    <3>2. CASE center.pending # 0
      <4>1. center = [center EXCEPT !.pending = center.pending]
        BY <1>0 DEF History
      <4> QED BY <1>0, <2>1, <3>2, <4>1 DEF SetPendingGeneration, HistoryInv, ResetInv
    <3> QED BY <3>1, <3>2
  <2>4. /\ center'.gen = center.gen /\ center'.pending = p
        /\ center'.runs = center.runs /\ center'.execs = center.execs
    BY <1>0, <2>3 DEF History
  <2>5. CenterInv(center')
    <3>1. center' = [center EXCEPT !.gen = center.gen, !.pending = p]
      BY <1>0, <2>3, Zenon DEF History
    <3> QED BY <1>0, <3>1, GenerationInv, Zenon
  <2>6. Reflects(db, issued, center')
    BY <2>4 DEF HistoryInv, Reflects
  <2>7. ResetInv'
    BY <1>0, <1>2, <2>1, <2>3, <2>4 DEF HistoryInv, ResetInv
  <2> QED BY <1>2, <2>5, <2>6, <2>7 DEF HistoryInv
<1>4. CASE ClearObservedHistory
  <2>1. /\ center' = EmptyHistory(center.gen, center.pending) /\ resetting' = "cleared"
        /\ resetting = "pending"
    BY <1>4 DEF ClearObservedHistory, ClearHistory
  <2>2. CenterInv(center')
    BY <1>0, <2>1, EmptyInv
  <2>3. /\ center'.gen = center.gen /\ center'.pending = center.pending
        /\ \A r \in RunId : center'.runs[r] = "none"
        /\ \A r \in RunId, t \in Targets : center'.execs[r][t].status = "none"
    BY <2>1 DEF EmptyHistory, NoRow
  <2>4. Reflects(db, issued, center')
    BY <2>3 DEF Reflects, FinalRunStatus
  <2>5. ResetInv'
    BY <1>2, <2>1, <2>3 DEF HistoryInv, ResetInv
  <2> QED BY <1>2, <2>2, <2>4, <2>5 DEF HistoryInv
<1>5. CASE FinishReset
  <2>1. /\ center' = [center EXCEPT !.gen = center.pending, !.pending = 0] /\ resetting' = "no"
        /\ resetting = "cleared"
    BY <1>5 DEF FinishReset, PromoteGeneration
  <2>2. center.pending \in Generation /\ center.pending = center.gen + 1
    BY <1>0, <2>1 DEF HistoryInv, ResetInv
  <2>3. CenterInv(center')
    BY <1>0, <2>1, <2>2, GenerationInv, Zenon
  <2>4. /\ center'.gen = center.pending /\ center'.pending = 0
        /\ center'.runs = center.runs /\ center'.execs = center.execs
    BY <1>0, <2>1 DEF History
  <2>5. Reflects(db, issued, center')
    <3>1. \A r \in RunId : center.runs[r] = "none"
      BY <2>1 DEF HistoryInv, ResetInv
    <3> QED BY <2>4, <3>1 DEF HistoryInv, Reflects, FinalRunStatus
  <2>6. ~(db.gen > center.pending)
    <3>1. db.gen \in Nat /\ center.gen \in Nat /\ ~(db.gen > center.gen)
      BY <1>0, Fields DEF HistoryInv, ResetInv
    <3> QED BY <2>2, <3>1
  <2>7. ResetInv'
    BY <1>2, <2>1, <2>4, <2>6 DEF HistoryInv, ResetInv
  <2> QED BY <1>2, <2>3, <2>5, <2>7 DEF HistoryInv
<1>6. CASE AbortReset
  <2>1. center' = center /\ resetting' = "no"
    BY <1>6 DEF AbortReset
  <2>2. ResetInv'
    BY <1>2, <2>1 DEF HistoryInv, ResetInv
  <2> QED BY <1>2, <2>1, <2>2 DEF HistoryInv
<1> QED BY <1>3, <1>4, <1>5, <1>6 DEF Reset

\* Each step of the Agent, of the Center and of the network keeps HistoryInv.
LEMMA HistoryStep ==
  ASSUME HistoryInv, [DeliveryNext]_deliveryVars
  PROVE  HistoryInv'
<1>0. ProbeInv /\ db \in Store /\ ~(db.gen > center.gen)
  BY DEF HistoryInv, ProbeInv, TypeInv, TypeOK, ResetInv
<1>1. CASE AgentStep
  <2>1. Local /\ Network /\ UNCHANGED centerVars /\ [Next]_vars
    BY <1>1 DEF AgentStep, Next
  <2>2. late' \in {late, sent} /\ answer' \in {"none", answer}
    BY <2>1 DEF Network, networkVars
  <2>3. ~(db'.gen > center.gen)
    BY <1>0, <2>1, GenerationStep
  <2> QED BY <2>1, <2>2, <2>3, AgentSide
<1>2. CASE ReceiveConfiguration
  <2>1. PICK g \in Generation : db.gen < g /\ g <= center.gen /\ ApplyConfiguration(g)
    BY <1>2 DEF ReceiveConfiguration
  <2>2. g \in Nat /\ db.gen \in Nat /\ center.gen \in Nat
    BY <1>0, Fields, BoundAssumption DEF Generation, HistoryInv, CenterInv, History
  <2>3. [Next]_vars
    BY <2>1, <2>2 DEF Next
  <2>4. db'.gen = g
    BY <1>0, <2>1, Zenon DEF ApplyConfiguration, ChangeGeneration, Store
  <2>5. UNCHANGED centerVars /\ late' = late /\ answer' = answer
    BY <1>2 DEF ReceiveConfiguration, networkVars
  <2> QED BY <2>1, <2>2, <2>3, <2>4, <2>5, AgentSide
<1>3. CASE ReceiveAnswer
  <2>1. /\ UploadRefused \/ AcknowledgeProbeArtifact
        /\ UNCHANGED centerVars /\ late' = late /\ answer' = "none"
    BY <1>3 DEF ReceiveAnswer
  <2>2. [Next]_vars
    BY <2>1 DEF Next
  <2>3. ~(db'.gen > center.gen)
    BY <1>0, <2>1, GenerationStep
  <2> QED BY <2>1, <2>2, <2>3, AgentSide
<1>4. CASE Reinstall
  BY <1>4, ReinstallSide
<1>5. CASE AnswerRequest
  BY <1>5, UploadSide DEF AnswerRequest
<1>6. CASE AnswerLateRequest
  BY <1>6, UploadSide DEF AnswerLateRequest
<1>7. CASE Reset
  BY <1>7, ResetSide
<1>8. CASE UNCHANGED deliveryVars
  <2>1. /\ UNCHANGED vars /\ UNCHANGED centerVars /\ UNCHANGED networkVars
    BY <1>8 DEF deliveryVars
  <2>2. db' = db
    BY <2>1 DEF vars
  <2> QED BY <1>0, <2>1, <2>2, AgentSide DEF networkVars
<1> QED BY <1>1, <1>2, <1>3, <1>4, <1>5, <1>6, <1>7, <1>8 DEF DeliveryNext, Answer

\* An Agent that never uploaded, and a Center that has nothing of it.
LEMMA HistoryStart ==
  ASSUME DeliveryInit
  PROVE  HistoryInv
<1>1. ProbeInv
  BY ProbeStart DEF DeliveryInit
<1>2. /\ CenterInv(center) /\ center.gen = 1 /\ center.pending = 0
      /\ \A r \in RunId : center.runs[r] = "none"
      /\ \A r \in RunId, t \in Targets : center.execs[r][t].status = "none"
  <2>1. 1 \in Generation
    BY BoundAssumption DEF Generation
  <2>2. CenterInv(center)
    BY <2>1, EmptyInv DEF DeliveryInit
  <2> QED BY <2>2 DEF DeliveryInit, EmptyHistory, NoRow
<1>3. db.gen = 1
  BY DEF DeliveryInit, Init, EmptyStore
<1>4. FlightInv
  BY NoArtifactFacts DEF DeliveryInit, Init, FlightInv
<1>5. Reflects(db, issued, center)
  BY <1>2 DEF Reflects, FinalRunStatus
<1>6. ResetInv
  BY <1>2, <1>3 DEF DeliveryInit, ResetInv
<1> QED BY <1>1, <1>2, <1>4, <1>5, <1>6 DEF HistoryInv

\* What the Center keeps is well formed and agrees with the Agent's records and with
\* what is in flight, whatever is lost, late or repeated, through resets that are
\* aborted anywhere and reinstalled nodes.
THEOREM HistoryInvariant == DeliverySpec => []HistoryInv
<1>1. DeliveryInit => HistoryInv
  BY HistoryStart
<1>2. HistoryInv /\ [DeliveryNext]_deliveryVars => HistoryInv'
  BY HistoryStep
<1> QED BY <1>1, <1>2, PTL DEF DeliverySpec

\* The current snapshot is the newest success in whatever order reports arrive.
THEOREM SnapshotNewest == DeliverySpec => []CurrentIsNewest
<1>1. HistoryInv => CurrentIsNewest
  BY DEF HistoryInv, CenterInv, Snapshots, CurrentIsNewest
<1> QED BY <1>1, HistoryInvariant, PTL

\* Advance compares reports once and in the order of their sequences.
THEOREM ComparisonOrdered == DeliverySpec => []ComparedInOrder
<1>1. HistoryInv => ComparedInOrder
  <2> SUFFICES ASSUME HistoryInv, NEW t \in Targets
               PROVE  LET seq(r) == center.execs[r][t].seq
                      IN  /\ \A x \in center.changes[t] :
                               /\ seq(x[1]) < center.next[t]
                               /\ x[2] # 0 => seq(x[2]) < seq(x[1])
                               /\ \A y \in center.changes[t] \ {x} : x[1] # y[1] /\ x[2] # y[2]
                          /\ \A r \in RunId :
                               center.execs[r][t].status = "succeeded" /\ seq(r) < center.next[t]
                                  => \/ \E x \in center.changes[t] : x[1] = r
                                     \/ \E gap \in center.gaps[t] :
                                           gap.first <= seq(r) /\ seq(r) <= gap.last
    BY DEF ComparedInOrder
  <2>1. Compared(center)
    BY DEF HistoryInv, CenterInv
  <2> QED BY <2>1 DEF Compared, Success, Covering
<1> QED BY <1>1, HistoryInvariant, PTL

\* The Center never reports another outcome than the Agent's record, nor one the Agent
\* has not reached.
THEOREM OutcomesAgree == DeliverySpec => []CenterAgrees
<1>1. ASSUME HistoryInv, NEW r \in RunId
      PROVE  /\ center.runs[r] \in FinalRunStatus /\ db.runs[r].status # "none"
                   => center.runs[r] = db.runs[r].status
             /\ \A t \in Targets :
                   Terminal(center.execs[r][t]) /\ db.execs[r][t].status # "none"
                      => center.execs[r][t].status = db.execs[r][t].status
  <2>1. Reflects(db, issued, center) /\ Records(db, issued)
    BY <1>1 DEF HistoryInv, ProbeInv, QueueInv
  <2>2. NoRun.status = "none" /\ NoRun.targets = {} /\ NoExec.status = "none"
    BY DEF NoRun, NoExec
  <2>3. \A t \in Targets : db.execs[r][t].status # "none" => db.runs[r] # NoRun
    BY <2>1, <2>2 DEF Records
  <2>4. \A t \in Targets : Terminal(center.execs[r][t]) => center.execs[r][t].status # "none"
    BY DEF Terminal, TerminalStatus
  <2> QED BY <2>1, <2>2, <2>3, <2>4 DEF Reflects
<1>2. HistoryInv => CenterAgrees
  BY <1>1 DEF CenterAgrees
<1> QED BY <1>2, HistoryInvariant, PTL

\* A promoted reset leaves nothing of an old generation.
THEOREM OldGenerationCleared == DeliverySpec => []ResetClears
<1>1. HistoryInv => ResetClears
  <2>1. NoRun.status = "none"
    BY DEF NoRun
  <2> QED BY <2>1 DEF HistoryInv, Reflects, ResetClears
<1> QED BY <1>1, HistoryInvariant, PTL

\* An outcome the Center shows is taken back by a reset only.
THEOREM OutcomesKept == DeliverySpec => CenterOutcomesFinal
<1> DEFINE Final == \/ resetting' = "cleared"
                    \/ \A r \in RunId :
                         /\ center.runs[r] \in FinalRunStatus => center'.runs[r] = center.runs[r]
                         /\ \A t \in Targets :
                              Terminal(center.execs[r][t]) => center'.execs[r][t] = center.execs[r][t]
<1>1. ASSUME HistoryInv, [DeliveryNext]_deliveryVars PROVE Final
  <2>0. center \in History
    BY <1>1 DEF HistoryInv, CenterInv
  <2>1. CASE AgentStep \/ ReceiveConfiguration \/ ReceiveAnswer \/ Reinstall \/ AbortReset
             \/ UNCHANGED deliveryVars
    <3>1. center' = center
      BY <2>1 DEF AgentStep, ReceiveConfiguration, ReceiveAnswer, Reinstall, AbortReset, centerVars,
                  deliveryVars
    <3> QED BY <3>1
  <2>2. CASE Answer
    <3>1. Grows(center, center')
      BY <1>1, <2>2, UploadSide DEF Answer, AnswerRequest, AnswerLateRequest
    <3> QED BY <3>1 DEF Grows
  <2>3. CASE BeginReset \/ FinishReset
    <3>1. center'.runs = center.runs /\ center'.execs = center.execs
      BY <2>0, <2>3, Zenon
         DEF BeginReset, FinishReset, SetPendingGeneration, PromoteGeneration, History
    <3> QED BY <3>1
  <2>4. CASE ClearObservedHistory
    BY <2>4 DEF ClearObservedHistory
  <2> QED BY <1>1, <2>1, <2>2, <2>3, <2>4 DEF DeliveryNext, Reset
<1>2. HistoryInv /\ [DeliveryNext]_deliveryVars => [Final]_deliveryVars
  BY <1>1
<1> QED BY <1>2, HistoryInvariant, PTL DEF DeliverySpec, CenterOutcomesFinal

-----------------------------------------------------------------------------
(* What waits for upload                                                   *)

\* Sequence s of target t lies in the queued gap, or is that of an execution which is
\* queued or open.
Waits(st, t, s) ==
    \/ st.gapQ[t] # 0 /\ st.gaps[t].first <= s /\ s <= st.gaps[t].last
    \/ \E r \in RunId : Live(st, r, t) /\ st.execs[r][t].seq = s

Retains(st, new) ==
    /\ new.gen = st.gen /\ new.seqs = st.seqs
    /\ \A t \in Targets, s \in Nat : Waits(st, t, s) => Waits(new, t, s)

\* Open executions belong to running runs (Consistent, said of intermediate stores too).
OpenRunning(st) ==
    \A r \in RunId, t \in Targets : IsOpen(st.execs[r][t]) => st.runs[r].status = "running"

\* A run that is deleted has nothing queued and nothing open.
LEMMA CleanupRetains ==
  ASSUME NEW st \in Store, NEW R, NEW n \in Nat, Records(st, n), OpenRunning(st)
  PROVE  Retains(st, Cleanup(st, R)) /\ OpenRunning(Cleanup(st, R))
<1> DEFINE new == Cleanup(st, R)
<1>1. /\ new.gen = st.gen /\ new.gaps = st.gaps /\ new.gapQ = st.gapQ /\ new.execQ = st.execQ
      /\ new.seqs = st.seqs
      /\ \A r \in RunId :
           \/ new.runs[r] = st.runs[r] /\ new.execs[r] = st.execs[r]
           \/ /\ st.runs[r].status # "running"
              /\ \A t \in st.runs[r].targets : st.execQ[r][t] = 0
              /\ new.execs[r] = [t \in Targets |-> NoExec]
  BY CleanupRows
<1> HIDE DEF new
<1>2. ~IsOpen(NoExec)
  BY DEF NoExec, IsOpen
<1>3. ASSUME NEW r \in RunId, NEW t \in Targets, Live(st, r, t)
      PROVE  Live(new, r, t) /\ new.execs[r][t].seq = st.execs[r][t].seq
  <2>1. st.execQ[r][t] # 0 \/ IsOpen(st.execs[r][t])
    BY <1>3 DEF Live
  <2>2. ~(st.runs[r].status # "running" /\ \A u \in st.runs[r].targets : st.execQ[r][u] = 0)
    BY <2>1, Exists DEF OpenRunning
  <2>3. new.runs[r] = st.runs[r] /\ new.execs[r] = st.execs[r]
    BY <1>1, <2>2
  <2> QED BY <1>1, <1>3, <2>3 DEF Live
<1>4. Retains(st, new)
  BY <1>1, <1>3 DEF Retains, Waits
<1>5. OpenRunning(new)
  BY <1>1, <1>2 DEF OpenRunning
<1> QED BY <1>4, <1>5 DEF new

\* What is dropped from the queue lies in the gap of its target.
LEMMA DropRetains ==
  ASSUME NEW st \in Store, NEW n \in Nat, Records(st, n), Sequences(st), Gaps(st, n),
         OpenRunning(st), NEW D \in SUBSET AllExecutions,
         \A r \in RunId, t \in Targets :
            <<r, t>> \in D => st.execQ[r][t] # 0 /\ Terminal(st.execs[r][t])
  PROVE  Retains(st, DropExecutions(st, D)) /\ OpenRunning(DropExecutions(st, D))
<1> DEFINE mid == Dropped(st, D)
           new == DropExecutions(st, D)
<1>1. mid \in Store /\ DropRows(st, mid, D)
  BY DroppedRows
<1>2. Records(mid, n)
  BY DroppedQueue
<1>3. new = Cleanup(mid, {r \in RunId : \E t \in Targets : <<r, t>> \in D})
  BY DEF DropExecutions, Dropped
<1> HIDE DEF mid, new
<1>4. OpenRunning(mid)
  <2> SUFFICES ASSUME NEW r \in RunId, NEW t \in Targets, IsOpen(mid.execs[r][t])
               PROVE  mid.runs[r].status = "running"
    BY DEF OpenRunning
  <2>1. /\ mid.runs = st.runs
        /\ <<r, t>> \in D => mid.execs[r][t].status = st.execs[r][t].status
        /\ <<r, t>> \notin D => mid.execs[r][t] = st.execs[r][t]
    BY <1>1 DEF DropRows
  <2>2. IsOpen(st.execs[r][t])
    BY <2>1 DEF IsOpen
  <2> QED BY <2>1, <2>2 DEF OpenRunning
<1>5. ASSUME NEW t \in Targets, NEW s \in Nat, Waits(st, t, s) PROVE Waits(mid, t, s)
  <2> DEFINE X == RunsOf(D, t)
  <2>1. X \in SUBSET RunId /\ IsFiniteSet(X) /\ Cardinality(X) \in Nat
    BY RunIdFinite, FS_Subset, FS_CardinalityType, Zenon DEF RunsOf
  <2>2. /\ st.gaps[t].rev \in Nat /\ st.gaps[t].first \in Nat /\ st.gaps[t].last \in Nat
        /\ st.gapQ[t] = st.gaps[t].rev
    BY Fields DEF Gaps
  <2>3. X = {} => mid.gaps[t] = st.gaps[t] /\ mid.gapQ[t] = st.gapQ[t]
    BY <1>1 DEF DropRows
  <2> DEFINE gap == ExtendGap(st, t, X)
  <2>4. X # {} => /\ mid.gaps[t] = gap /\ mid.gapQ[t] = gap.rev
                  /\ gap.rev = st.gaps[t].rev + Cardinality(X)
                  /\ \A r \in X : gap.first <= st.execs[r][t].seq /\ st.execs[r][t].seq <= gap.last
                  /\ st.gaps[t] # NoGap => gap.first <= st.gaps[t].first /\ st.gaps[t].last <= gap.last
    BY <1>1, <2>1, ExtendGapFields DEF DropRows
  <2>5. X # {} => Cardinality(X) # 0 /\ gap \in GapRecord
    BY <2>1, ExtendGapType, FS_EmptySet
  <2>6. gap \in GapRecord => gap.first \in Nat /\ gap.last \in Nat
    BY DEF GapRecord
  <2> HIDE DEF X, gap
  <2>7. X # {} => mid.gapQ[t] # 0
    BY <2>1, <2>2, <2>4, <2>5
  <2>8. CASE st.gapQ[t] # 0 /\ st.gaps[t].first <= s /\ s <= st.gaps[t].last
    <3>1. st.gaps[t] # NoGap
      BY <2>2, <2>8 DEF NoGap
    <3>2. CASE X = {}
      BY <2>3, <2>8, <3>2 DEF Waits
    <3>3. CASE X # {}
      <4>1. gap.first <= s /\ s <= gap.last
        BY <2>2, <2>4, <2>5, <2>6, <2>8, <3>1, <3>3
      <4> QED BY <2>4, <2>7, <3>3, <4>1 DEF Waits
    <3> QED BY <3>2, <3>3
  <2>9. ASSUME NEW r \in RunId, Live(st, r, t), st.execs[r][t].seq = s PROVE Waits(mid, t, s)
    <3>1. CASE r \in X
      BY <2>4, <2>7, <2>9, <3>1 DEF Waits
    <3>2. CASE r \notin X
      <4>1. /\ mid.execs[r][t] = st.execs[r][t] /\ mid.execQ[r][t] = st.execQ[r][t]
            /\ mid.runs = st.runs /\ mid.gen = st.gen
        BY <1>1, <3>2 DEF DropRows, X, RunsOf
      <4> QED BY <2>9, <4>1 DEF Waits, Live
    <3> QED BY <3>1, <3>2
  <2> QED BY <1>5, <2>8, <2>9 DEF Waits
<1>6. Retains(mid, new) /\ OpenRunning(new)
  BY <1>1, <1>2, <1>3, <1>4, CleanupRetains
<1>7. Retains(st, new)
  BY <1>1, <1>5, <1>6 DEF Retains, DropRows
<1> QED BY <1>6, <1>7 DEF new

\* Executions that begin or are closed stay in the queue, or enter it.
LEMMA MovesRetain ==
  ASSUME NEW st \in Store, NEW new \in Store, NEW n \in Nat, Records(st, n), OpenRunning(st),
         NEW r \in RunId, NEW T \in SUBSET Targets, Moves(st, new, r, T)
  PROVE  Retains(st, new) /\ OpenRunning(new)
<1>1. ASSUME NEW q \in RunId, NEW t \in Targets, Live(st, q, t)
      PROVE  Live(new, q, t) /\ new.execs[q][t].seq = st.execs[q][t].seq
  <2>1. CASE q # r \/ t \notin T
    BY <1>1, <2>1 DEF Moves, Live
  <2>2. CASE q = r /\ t \in T
    <3>1. IsCurrent(st, r) /\ st.execs[r][t].rev \in Nat
      BY <1>1, <2>2, Fields DEF Live, IsCurrent
    <3>2. /\ new.execQ[r][t] = new.execs[r][t].rev /\ new.execs[r][t].rev = st.execs[r][t].rev + 1
          /\ new.execs[r][t].seq = st.execs[r][t].seq /\ new.runs = st.runs /\ new.gen = st.gen
      BY <2>2, <3>1 DEF Moves
    <3>3. new.execQ[r][t] # 0
      BY <3>1, <3>2
    <3> QED BY <1>1, <2>2, <3>2, <3>3 DEF Live
  <2> QED BY <2>1, <2>2
<1>2. /\ new.gaps = st.gaps /\ new.gapQ = st.gapQ /\ new.runs = st.runs
      /\ new.gen = st.gen /\ new.seqs = st.seqs
  BY DEF Moves
<1>3. Retains(st, new)
  BY <1>1, <1>2 DEF Retains, Waits
<1>4. \A q \in RunId, t \in Targets : IsOpen(new.execs[q][t]) => IsOpen(st.execs[q][t])
  BY DEF Moves
<1> QED BY <1>2, <1>3, <1>4 DEF OpenRunning

\* With the limit, which may drop some of them.
LEMMA LimitRetains ==
  ASSUME NEW st \in Store, NEW closed \in Store, NEW n \in Nat, QueueInv(st, n),
         OpenRunning(st), NEW r \in RunId, NEW T \in SUBSET Targets, Moves(st, closed, r, T)
  PROVE  LET new == IF IsCurrent(st, r) THEN EnforceLimit(closed, T) ELSE closed
         IN  Retains(st, new) /\ OpenRunning(new)
<1> DEFINE new == IF IsCurrent(st, r) THEN EnforceLimit(closed, T) ELSE closed
<1>1. Records(closed, n) /\ Sequences(closed) /\ Gaps(closed, n)
  BY ExecutionMoves DEF QueueInv
<1>2. Retains(st, closed) /\ OpenRunning(closed)
  BY MovesRetain DEF QueueInv
<1>3. /\ OverLimit(closed, T) \in SUBSET AllExecutions
      /\ \A q \in RunId, t \in Targets :
           <<q, t>> \in OverLimit(closed, T) => closed.execQ[q][t] # 0 /\ Terminal(closed.execs[q][t])
  BY OverLimitQueued
<1>4. /\ Retains(closed, EnforceLimit(closed, T)) /\ OpenRunning(EnforceLimit(closed, T))
  BY <1>1, <1>2, <1>3, DropRetains DEF EnforceLimit
<1>5. Retains(st, EnforceLimit(closed, T))
  BY <1>2, <1>4 DEF Retains
<1> QED BY <1>2, <1>4, <1>5

\* A run is finished once none of its executions is open.
LEMMA FinishRetains ==
  ASSUME NEW st \in Store, NEW n \in Nat, QueueInv(st, n), OpenRunning(st),
         NEW r \in RunId, st.runs[r].status = "running",
         \A t \in Targets : ~IsOpen(st.execs[r][t])
  PROVE  Retains(st, FinishRun(st, r))
<1> DEFINE rev == st.runs[r].rev + 1
           done == [st EXCEPT !.runs[r].status = FinalStatus(st, r), !.runs[r].rev = rev,
                              !.active = 0]
           queued == [done EXCEPT !.runQ[r] = rev]
<1>1. done \in Store
  BY FinishedType, Zenon
<1>2. /\ done.gen = st.gen /\ done.gaps = st.gaps /\ done.gapQ = st.gapQ /\ done.seqs = st.seqs
      /\ done.execs = st.execs /\ done.execQ = st.execQ /\ done.runQ = st.runQ
      /\ \A q \in RunId : q # r => done.runs[q] = st.runs[q]
      /\ done.runs[r] = [st.runs[r] EXCEPT !.status = FinalStatus(st, r), !.rev = rev]
  BY Zenon DEF Store
<1>3. /\ done.runs[r].gen = st.runs[r].gen /\ done.runs[r].targets = st.runs[r].targets
      /\ done.runs[r].rev = rev /\ done.runs[r].status \in FinalRunStatus
  <2>1. FinalStatus(st, r) \in FinalRunStatus /\ st.runs[r] \in RunRecord
    BY Fields DEF FinalStatus, FinalRunStatus
  <2> HIDE DEF done, rev
  <2> QED BY <1>2, <2>1 DEF RunRecord
<1>4. /\ queued.gen = done.gen /\ queued.gaps = done.gaps /\ queued.gapQ = done.gapQ
      /\ queued.seqs = done.seqs
      /\ queued.execs = done.execs /\ queued.execQ = done.execQ /\ queued.runs = done.runs
  BY <1>1 DEF Store
<1>5. FinishRun(st, r) = IF IsCurrent(st, r) THEN queued ELSE Cleanup(done, {r})
  BY DEF FinishRun
<1> HIDE DEF done, queued
<1>6. \A q \in RunId, t \in Targets : Live(done, q, t) <=> Live(st, q, t)
  BY <1>2, <1>3, Zenon DEF Live
<1>7. Retains(st, done)
  BY <1>2, <1>6 DEF Retains, Waits
<1>8. CASE IsCurrent(st, r)
  <2>1. Retains(done, queued)
    BY <1>4 DEF Retains, Waits, Live
  <2> QED BY <1>5, <1>7, <1>8, <2>1 DEF Retains
<1>9. CASE ~IsCurrent(st, r)
  <2>1. OpenRunning(done)
    BY <1>2 DEF OpenRunning
  <2>2. Records(done, n)
    <3>1. st.runQ[r] = 0 /\ ~(r > n)
      BY <1>9 DEF QueueInv, Records, IsCurrent, NoRun
    <3>2. done.runs[r].status # "none"
      BY <1>3 DEF FinalRunStatus
    <3>3. ASSUME NEW q \in RunId
          PROVE  /\ q > n => done.runs[q] = NoRun
                 /\ done.runs[q].status = "none" => done.runs[q] = NoRun
                 /\ done.runs[q].gen <= done.gen
                 /\ done.runQ[q] # 0 => done.runs[q].rev = done.runQ[q] /\ done.runs[q].gen = done.gen
                 /\ done.runs[q].gen = st.runs[q].gen /\ done.runs[q].targets = st.runs[q].targets
      <4>1. CASE q = r
        BY <1>2, <1>3, <3>1, <3>2, <4>1, Zenon DEF QueueInv, Records
      <4>2. CASE q # r
        BY <1>2, <4>2 DEF QueueInv, Records
      <4> QED BY <4>1, <4>2
    <3> QED BY <1>2, <3>3 DEF QueueInv, Records
  <2>3. Retains(done, Cleanup(done, {r}))
    BY <1>1, <2>1, <2>2, CleanupRetains
  <2> QED BY <1>5, <1>7, <1>9, <2>3 DEF Retains
<1> QED BY <1>8, <1>9

\* ReconcileProbeRun: everything of the run is closed, the limit is enforced, the run
\* is finished.
LEMMA ReconcileRetains ==
  ASSUME NEW st \in Store, NEW n \in Nat, QueueInv(st, n), OpenRunning(st),
         st.active # 0, st.runs[st.active].status = "running"
  PROVE  Retains(st, ReconcileRun(st))
<1> DEFINE r == st.active
           closed == CloseOpenExecutions(st, r)
           open == OpenTargets(st, r)
           limited == IF IsCurrent(st, r) THEN EnforceLimit(closed, open) ELSE closed
<1>1. r \in RunId
  BY DEF Store
<1>2. /\ closed \in Store /\ Moves(st, closed, r, open) /\ open \in SUBSET Targets
      /\ \A t \in open : Terminal(closed.execs[r][t]) /\ ~closed.execs[r][t].file
  BY <1>1, CloseOpenExecutionsType, CloseOpenMoves DEF QueueInv
<1>3. ReconcileRun(st) = FinishRun(limited, r)
  BY DEF ReconcileRun
<1>4. \A t \in Targets : ~IsOpen(closed.execs[r][t])
  <2>1. \A t \in open : ~IsOpen(closed.execs[r][t])
    BY <1>2 DEF Terminal, TerminalStatus, IsOpen
  <2>2. \A t \in Targets : t \notin open => ~IsOpen(st.execs[r][t])
    <3>1. \A t \in Targets : IsOpen(st.execs[r][t]) =>
             t \in st.runs[r].targets /\ ~Terminal(st.execs[r][t])
      BY <1>1, Exists DEF QueueInv, Terminal, TerminalStatus, IsOpen
    <3> QED BY <3>1 DEF OpenTargets
  <2>3. \A t \in Targets : t \notin open => closed.execs[r][t] = st.execs[r][t]
    BY <1>1, <1>2 DEF Moves
  <2> QED BY <2>1, <2>2, <2>3
<1> HIDE DEF closed, open
<1>5. Retains(st, limited) /\ OpenRunning(limited)
  BY <1>1, <1>2, LimitRetains
<1>6. /\ limited \in Store /\ QueueInv(limited, n)
      /\ \A q \in RunId : st.runs[q].status = "running" => limited.runs[q] = st.runs[q]
  BY <1>1, <1>2, MovesLimited
<1>7. \A t \in Targets : ~IsOpen(limited.execs[r][t])
  <2>1. CASE ~IsCurrent(st, r)
    BY <1>4, <2>1
  <2>2. CASE IsCurrent(st, r)
    <3>1. limited = DropExecutions(closed, OverLimit(closed, open))
      BY <2>2 DEF EnforceLimit
    <3> DEFINE D == OverLimit(closed, open)
               mid == Dropped(closed, D)
    <3>2. mid \in Store /\ DropRows(closed, mid, D)
      BY <1>2, DroppedRows
    <3>3. limited = Cleanup(mid, {q \in RunId : \E t \in Targets : <<q, t>> \in D})
      BY <3>1 DEF DropExecutions, Dropped
    <3> HIDE DEF D, mid, limited
    <3>4. \A t \in Targets : mid.execs[r][t].status = closed.execs[r][t].status
      BY <1>1, <3>2, Zenon DEF DropRows
    <3>5. limited.execs[r] = mid.execs[r] \/ limited.execs[r] = [t \in Targets |-> NoExec]
      BY <1>1, <3>2, <3>3, CleanupRows
    <3> QED BY <1>4, <3>4, <3>5 DEF IsOpen, NoExec
  <2> QED BY <2>1, <2>2
<1> HIDE DEF limited
<1>8. Retains(limited, FinishRun(limited, r))
  BY <1>1, <1>5, <1>6, <1>7, FinishRetains
<1> QED BY <1>3, <1>5, <1>8 DEF Retains, r

\* A new run takes the next sequence of each target, and its executions wait.
LEMMA StartRetains ==
  ASSUME NEW st \in Store, NEW n \in Nat, n + 1 \in RunId, QueueInv(st, n),
         NEW S \in SUBSET Targets
  PROVE  LET new == StartRun(st, n + 1, S)
         IN  /\ \A t \in Targets, s \in Nat : Waits(st, t, s) => Waits(new, t, s)
             /\ \A t \in Targets : \/ new.seqs[t] = st.seqs[t]
                                   \/ /\ new.seqs[t] = st.seqs[t] + 1
                                      /\ Waits(new, t, new.seqs[t])
<1> DEFINE r == n + 1
           new == StartRun(st, r, S)
           row == [t \in Targets |-> IF t \in S THEN [NoExec EXCEPT !.status = "pending", !.seq = st.seqs[t] + 1]
                                                ELSE NoExec]
<1>1. /\ new.gen = st.gen /\ new.gaps = st.gaps /\ new.gapQ = st.gapQ /\ new.execQ = st.execQ
      /\ new.seqs = [t \in Targets |-> IF t \in S THEN st.seqs[t] + 1 ELSE st.seqs[t]]
      /\ \A q \in RunId : q # r => new.runs[q] = st.runs[q] /\ new.execs[q] = st.execs[q]
      /\ new.runs[r] = [status |-> "running", gen |-> st.gen, rev |-> 1, targets |-> S]
      /\ new.execs[r] = row
  BY Zenon DEF StartRun, NextSequence, Store
<1> HIDE DEF new
<1>2. r \in RunId /\ r > n
  OBVIOUS
<1>3. \A t \in Targets : ~Live(st, r, t)
  BY <1>2, Exists DEF QueueInv, Live
<1> HIDE DEF r
<1>4. ASSUME NEW t \in Targets, NEW s \in Nat, Waits(st, t, s) PROVE Waits(new, t, s)
  BY <1>1, <1>3, <1>4, Zenon DEF Waits, Live
<1>5. ASSUME NEW t \in Targets
      PROVE  \/ new.seqs[t] = st.seqs[t]
             \/ new.seqs[t] = st.seqs[t] + 1 /\ Waits(new, t, new.seqs[t])
  <2>1. CASE t \notin S
    BY <1>1, <2>1, Zenon
  <2>2. CASE t \in S
    <3>1. row[t] = [NoExec EXCEPT !.status = "pending", !.seq = st.seqs[t] + 1]
      BY <2>2
    <3>2. row[t].seq = st.seqs[t] + 1 /\ IsOpen(row[t])
      BY <3>1, Zenon DEF NoExec, IsOpen
    <3> HIDE DEF row
    <3>3. new.seqs[t] = st.seqs[t] + 1 /\ new.execs[r][t] = row[t] /\ new.runs[r].gen = new.gen
      BY <1>1, <2>2
    <3>4. Live(new, r, t)
      BY <3>2, <3>3 DEF Live
    <3> QED BY <1>2, <3>2, <3>3, <3>4 DEF Waits
  <2> QED BY <2>1, <2>2
<1> QED BY <1>4, <1>5 DEF new, r

\* What an acknowledgement takes: the closed execution it names, or the gap.
LEMMA AcknowledgeLoses ==
  ASSUME NEW st \in Store, NEW n \in Nat, QueueInv(st, n), OpenRunning(st),
         NEW k, NamedKey(k), NEW rev, ~Superseded(st, k, rev)
  PROVE  LET new == Acknowledge(st, k, rev)
         IN  /\ new.gen = st.gen /\ new.seqs = st.seqs
             /\ \A t \in Targets, s \in Nat : Waits(st, t, s) =>
                  \/ Waits(new, t, s)
                  \/ /\ k.kind = "execution" /\ t = k.target /\ Live(st, k.run, t)
                     /\ ~IsOpen(st.execs[k.run][t]) /\ st.execs[k.run][t].seq = s
                  \/ /\ k.kind = "gap" /\ t = k.target /\ st.gapQ[t] # 0
                     /\ st.gaps[t].first <= s /\ s <= st.gaps[t].last
<1> DEFINE new == Acknowledge(st, k, rev)
<1>1. CASE k.kind = "run"
  <2> DEFINE mid == [st EXCEPT !.runQ[k.run] = 0]
  <2>1. mid \in Store
    BY <1>1, Zenon DEF NamedKey, Store
  <2>2. /\ mid.gen = st.gen /\ mid.gaps = st.gaps /\ mid.gapQ = st.gapQ /\ mid.seqs = st.seqs
        /\ mid.runs = st.runs /\ mid.execs = st.execs /\ mid.execQ = st.execQ
        /\ \A q \in RunId : mid.runQ[q] \in {0, st.runQ[q]}
    BY DEF Store
  <2>3. new = Cleanup(mid, {k.run})
    BY <1>1 DEF Acknowledge
  <2> HIDE DEF mid, new
  <2>4. Records(mid, n) /\ OpenRunning(mid)
    BY <2>2 DEF QueueInv, Records, OpenRunning
  <2>5. Retains(mid, new)
    BY <2>1, <2>3, <2>4, CleanupRetains
  <2>6. Retains(st, mid)
    BY <2>2 DEF Retains, Waits, Live
  <2> QED BY <2>5, <2>6 DEF Retains, new
<1>2. CASE k.kind = "execution"
  <2> DEFINE mid == [st EXCEPT !.execQ[k.run][k.target] = 0,
                               !.execs[k.run][k.target].file = FALSE]
             e == st.execs[k.run][k.target]
  <2>1. k.run \in RunId /\ k.target \in Targets
    BY <1>2 DEF NamedKey
  <2>2. mid \in Store
    BY <2>1, TakenType, Zenon
  <2>3. /\ mid.gen = st.gen /\ mid.gaps = st.gaps /\ mid.gapQ = st.gapQ /\ mid.seqs = st.seqs
        /\ mid.runs = st.runs /\ mid.runQ = st.runQ
        /\ \A q \in RunId, u \in Targets : q # k.run \/ u # k.target =>
             mid.execs[q][u] = st.execs[q][u] /\ mid.execQ[q][u] = st.execQ[q][u]
        /\ mid.execQ[k.run][k.target] = 0
        /\ mid.execs[k.run][k.target] = [e EXCEPT !.file = FALSE]
    BY <2>1, Zenon DEF Store
  <2>4. new = Cleanup(mid, {k.run})
    BY <1>2 DEF Acknowledge
  <2>5. e \in ExecRecord /\ (e.file => k.target \in st.runs[k.run].targets)
    BY <2>1, Exists, Fields DEF QueueInv, Records
  <2> HIDE DEF mid, new, e
  <2>6. LET f == [e EXCEPT !.file = FALSE]
        IN  /\ f.status = e.status /\ f.seq = e.seq /\ f.rev = e.rev /\ ~f.file
            /\ ~e.file => f = e
    BY <2>5 DEF ExecRecord
  <2>7. \A q \in RunId, u \in Targets :
          /\ mid.execs[q][u].status = st.execs[q][u].status
          /\ mid.execs[q][u].seq = st.execs[q][u].seq
          /\ mid.execs[q][u].rev = st.execs[q][u].rev
          /\ \/ mid.execs[q][u] = st.execs[q][u] /\ mid.execQ[q][u] = st.execQ[q][u]
             \/ /\ mid.execQ[q][u] = 0 /\ ~mid.execs[q][u].file
                /\ u \in st.runs[q].targets \/ mid.execs[q][u] = st.execs[q][u]
    <3> SUFFICES ASSUME NEW q \in RunId, NEW u \in Targets
                 PROVE  /\ mid.execs[q][u].status = st.execs[q][u].status
                        /\ mid.execs[q][u].seq = st.execs[q][u].seq
                        /\ mid.execs[q][u].rev = st.execs[q][u].rev
                        /\ \/ mid.execs[q][u] = st.execs[q][u] /\ mid.execQ[q][u] = st.execQ[q][u]
                           \/ /\ mid.execQ[q][u] = 0 /\ ~mid.execs[q][u].file
                              /\ u \in st.runs[q].targets \/ mid.execs[q][u] = st.execs[q][u]
      OBVIOUS
    <3>1. CASE q = k.run /\ u = k.target
      <4>1. st.execs[q][u] = e /\ mid.execs[q][u] = [e EXCEPT !.file = FALSE] /\ mid.execQ[q][u] = 0
        BY <2>3, <3>1 DEF e
      <4> QED BY <2>5, <2>6, <3>1, <4>1
    <3>2. CASE ~(q = k.run /\ u = k.target)
      BY <2>3, <3>2
    <3> QED BY <3>1, <3>2
  <2>8. Records(mid, n)
    <3>1. \A q \in RunId : mid.runQ[q] = st.runQ[q]
      BY <2>3
    <3> QED BY <2>3, <2>7, <3>1 DEF QueueInv, Records, Terminal
  <2>9. OpenRunning(mid)
    BY <2>3, <2>7 DEF OpenRunning, IsOpen
  <2>10. Retains(mid, new)
    BY <2>2, <2>4, <2>8, <2>9, CleanupRetains
  <2>11. ASSUME NEW t \in Targets, NEW s \in Nat, Waits(st, t, s)
         PROVE  \/ Waits(mid, t, s)
                \/ /\ t = k.target /\ Live(st, k.run, t)
                   /\ ~IsOpen(st.execs[k.run][t]) /\ st.execs[k.run][t].seq = s
    <3>1. CASE st.gapQ[t] # 0 /\ st.gaps[t].first <= s /\ s <= st.gaps[t].last
      BY <2>3, <3>1 DEF Waits
    <3>2. ASSUME NEW q \in RunId, Live(st, q, t), st.execs[q][t].seq = s
          PROVE  \/ Waits(mid, t, s)
                 \/ /\ t = k.target /\ Live(st, k.run, t)
                    /\ ~IsOpen(st.execs[k.run][t]) /\ st.execs[k.run][t].seq = s
      <4>1. CASE q = k.run /\ t = k.target /\ ~IsOpen(st.execs[q][t])
        BY <3>2, <4>1
      <4>2. CASE IsOpen(st.execs[q][t])
        <5>1. Live(mid, q, t) /\ mid.execs[q][t].seq = s
          BY <2>3, <2>7, <3>2, <4>2 DEF Live, IsOpen
        <5> QED BY <5>1 DEF Waits
      <4>3. CASE q # k.run \/ t # k.target
        <5>1. Live(mid, q, t) /\ mid.execs[q][t].seq = s
          BY <2>3, <3>2, <4>3 DEF Live
        <5> QED BY <5>1 DEF Waits
      <4> QED BY <4>1, <4>2, <4>3
    <3> QED BY <2>11, <3>1, <3>2 DEF Waits
  <2> QED BY <1>2, <2>3, <2>10, <2>11 DEF Retains, new
<1>3. CASE k.kind = "gap"
  <2>1. k.target \in Targets
    BY <1>3 DEF NamedKey
  <2>2. new = [st EXCEPT !.gapQ[k.target] = 0, !.gaps[k.target] = NoGap]
    BY <1>3 DEF Acknowledge
  <2>3. /\ new.gen = st.gen /\ new.seqs = st.seqs /\ new.runs = st.runs /\ new.execs = st.execs
        /\ new.execQ = st.execQ
        /\ \A u \in Targets : u # k.target => new.gaps[u] = st.gaps[u] /\ new.gapQ[u] = st.gapQ[u]
    BY <2>1, <2>2 DEF Store
  <2> HIDE DEF new
  <2>4. \A q \in RunId, u \in Targets : Live(new, q, u) <=> Live(st, q, u)
    BY <2>3 DEF Live
  <2>5. ASSUME NEW t \in Targets, NEW s \in Nat, Waits(st, t, s)
        PROVE  \/ Waits(new, t, s)
               \/ /\ t = k.target /\ st.gapQ[t] # 0
                  /\ st.gaps[t].first <= s /\ s <= st.gaps[t].last
    BY <2>3, <2>4, <2>5 DEF Waits
  <2> QED BY <1>3, <2>3, <2>5 DEF new
<1> QED BY <1>1, <1>2, <1>3 DEF NamedKey

-----------------------------------------------------------------------------
(* The steps of the Agent                                                  *)

\* Nothing that waits is lost, and a new sequence waits.
Accounts ==
    /\ \A t \in Targets, s \in Nat : Waits(db, t, s) => Waits(db', t, s)
    /\ \A t \in Targets : \/ db'.seqs[t] = db.seqs[t]
                          \/ db'.seqs[t] = db.seqs[t] + 1 /\ Waits(db', t, db'.seqs[t])

\* A consistent store has open executions in running runs only.
LEMMA ConsistentOpen ==
  ASSUME NEW st \in Store, Consistent(st)
  PROVE  OpenRunning(st)
BY DEF Consistent, OpenRunning

\* Every step the Agent makes on its own accounts for what waits.
LEMMA StoreAccounts ==
  ASSUME ProbeInv, Local
  PROVE  Accounts
<1>0. /\ db \in Store /\ Consistent(db) /\ OpenRunning(db) /\ WorkerHolds(db, worker)
      /\ issued \in Nat /\ QueueInv(db, issued) /\ Records(db, issued)
  BY ConsistentOpen DEF ProbeInv, TypeInv, TypeOK, RunInv, QueueInv
<1>a. ASSUME db' = db PROVE Accounts
  BY <1>a DEF Accounts
<1>b. ASSUME Retains(db, db') PROVE Accounts
  BY <1>b DEF Accounts, Retains
<1>c. ASSUME Reconcile PROVE Accounts
  <2>1. CASE db.active = 0
    BY <1>a, <1>c, <2>1 DEF Reconcile
  <2>2. CASE db.active # 0
    <3>1. db' = ReconcileRun(db) /\ db.active \in RunId
      BY <1>0, <1>c, <2>2 DEF Reconcile, Store
    <3>2. db.runs[db.active].status = "running"
      BY <1>0, <3>1 DEF Consistent
    <3> QED BY <1>0, <1>b, <2>2, <3>1, <3>2, ReconcileRetains
  <2> QED BY <2>1, <2>2
<1>d. ASSUME NEW o \in TerminalStatus, Commit(o), worker.pc \in {"probing", "commit"}, MayComplete
      PROVE  Accounts
  <2> DEFINE r == worker.run
             t == worker.target
             closed == CloseExecution(db, r, t, o)
  <2>1. r \in RunId /\ t \in Targets /\ IsOpen(db.execs[r][t])
    BY <1>d DEF ProbeInv, TypeInv, Named, MayComplete, IsOpen
  <2>2. db' = IF IsCurrent(db, r) THEN EnforceLimit(closed, {t}) ELSE closed
    BY <1>d DEF Commit, CompleteExecution
  <2>3. closed \in Store /\ Moves(db, closed, r, {t}) /\ {t} \in SUBSET Targets
    BY <1>0, <2>1, CloseExecutionType, CloseMoves
  <2> HIDE DEF closed
  <2>4. Retains(db, db')
    BY <1>0, <2>1, <2>2, <2>3, LimitRetains
  <2> QED BY <1>b, <2>4
<1>1. ASSUME NEW S \in (SUBSET Targets) \ {{}}, StartProbeRun(S) PROVE Accounts
  <2>1. issued + 1 \in RunId /\ db' = StartRun(db, issued + 1, S)
    BY <1>0, <1>1, BoundAssumption DEF StartProbeRun, RunId
  <2> QED BY <1>0, <2>1, StartRetains DEF Accounts
<1>2. CASE ReconcileProbeRun \/ AbandonRun
  BY <1>2, <1>c DEF ReconcileProbeRun, AbandonRun
<1>3. ASSUME NEW t \in Targets, StartProbeExecution(t) PROVE Accounts
  <2>1. CASE db' = BeginExecution(db, worker.run, t) /\ db.execs[worker.run][t].status = "pending"
    <3>1. worker.run \in RunId /\ IsOpen(db.execs[worker.run][t])
      BY <1>3, <2>1 DEF ProbeInv, TypeInv, Named, StartProbeExecution, IsOpen
    <3>2. ~db.execs[worker.run][t].file
      BY <1>0, <3>1 DEF Records, Terminal, IsOpen, TerminalStatus
    <3>3. db' \in Store /\ Moves(db, db', worker.run, {t}) /\ {t} \in SUBSET Targets
      BY <1>0, <2>1, <3>1, <3>2, BeginMoves, BeginExecutionType
    <3> QED BY <1>0, <1>b, <3>1, <3>3, MovesRetain
  <2>2. CASE db' = db
    BY <1>a, <2>2
  <2> QED BY <1>3, <2>1, <2>2 DEF StartProbeExecution
<1>4. ASSUME NEW o \in TerminalStatus, RecordOutcome(o) PROVE Accounts
  BY <1>4, <1>d DEF RecordOutcome
<1>5. CASE OutcomeRefused \/ WriteProbeResult \/ RemoveObsolete \/ UploadFails
           \/ Crash \/ Stop \/ RequestStop
  BY <1>5, <1>a, Zenon DEF OutcomeRefused, WriteProbeResult, RemoveObsolete, UploadFails,
                    Crash, Stop, RequestStop
<1>6. CASE CommitProbeResult
  BY <1>6, <1>d DEF CommitProbeResult, TerminalStatus, ProbeInv, FilesInv
<1>7. CASE FinishProbeRun
  <2>1. CASE db.active = worker.run /\ db' = FinishRun(db, worker.run)
    <3>1. worker.run \in RunId /\ worker.pc = "next" /\ worker.left = {}
      BY <1>7 DEF ProbeInv, TypeInv, Named, FinishProbeRun
    <3>2. db.runs[worker.run].status = "running"
      BY <1>0, <2>1, <3>1 DEF Consistent
    <3>3. \A t \in Targets : ~IsOpen(db.execs[worker.run][t])
      BY <1>0, <2>1, <3>1 DEF WorkerHolds
    <3> QED BY <1>0, <1>b, <2>1, <3>1, <3>2, <3>3, FinishRetains
  <2>2. CASE db' = db
    BY <1>a, <2>2
  <2> QED BY <1>7, <2>1, <2>2 DEF FinishProbeRun
<1>8. ASSUME NEW k \in QueuedKeys(db), NextProbeArtifact(k) PROVE Accounts
  BY <1>8, <1>a DEF NextProbeArtifact
<1>9. ASSUME NEW x \in files, LoseResultFile(x) PROVE Accounts
  BY <1>9, <1>a DEF LoseResultFile
<1>10. CASE Open
  <2> DEFINE D == Unreadable(db, files)
  <2>1. db' = DropExecutions(db, D)
    BY <1>10 DEF Open, ReconcileArtifacts
  <2>2. /\ D \in SUBSET AllExecutions
        /\ \A q \in RunId, u \in Targets : <<q, u>> \in D =>
              db.execs[q][u].file /\ db.execQ[q][u] # 0
    BY DEF Unreadable, Referenced, AllExecutions, Exec
  <2> HIDE DEF D
  <2>3. \A q \in RunId, u \in Targets : <<q, u>> \in D =>
           db.execQ[q][u] # 0 /\ Terminal(db.execs[q][u])
    BY <1>0, <2>2 DEF Records
  <2> QED BY <1>0, <1>b, <2>1, <2>2, <2>3, DropRetains DEF QueueInv
<1> QED
  BY <1>1, <1>2, <1>3, <1>4, <1>5, <1>6, <1>7, <1>8, <1>9, <1>10 DEF Local, Execute

-----------------------------------------------------------------------------
(* Every attempt is accounted for                                          *)

\* The artifact in flight is what is queued, unless that has a newer revision.
SentSound ==
    /\ sent.kind = "execution" /\ db.runs[sent.run] # NoRun
         /\ db.execs[sent.run][sent.target].rev = sent.rev =>
            db.execs[sent.run][sent.target].status = sent.status
    /\ sent.kind = "gap" =>
         /\ sent.rev # 0
         /\ db.gaps[sent.target].id = sent.run =>
              /\ db.gaps[sent.target].gen = sent.gap.gen
              /\ db.gapQ[sent.target] = sent.rev => db.gaps[sent.target] = sent.gap

\* The Center has what artifact a reports.
Received(c, a) ==
    /\ a.kind = "execution" /\ Terminal(a) => Terminal(c.execs[a.run][a.target])
    /\ a.kind = "gap" => \E gap \in c.gaps[a.target] :
                            gap.first <= a.gap.first /\ a.gap.last <= gap.last

\* What was accepted is there, unless a reset has begun since; what is obsolete is of a
\* generation before the Center's.
AnswerSound ==
    /\ answer = "obsolete" => SentGen(sent) < center.gen
    /\ answer = "accepted" /\ SentGen(sent) = center.gen /\ center.pending = 0 =>
         Received(center, sent)

Known(c, t, s) ==
    \/ \E r \in Stored(c, t, s) : Terminal(c.execs[r][t])
    \/ \E gap \in c.gaps[t] : gap.first <= s /\ s <= gap.last

Accounted ==
    db.gen = center.gen /\ center.pending = 0 =>
        \A t \in Targets : \A s \in 1 .. db.seqs[t] : Known(center, t, s) \/ Waits(db, t, s)

\* No step lets the queue say something else at the revision that was sent.
LEMMA SentSoundStep ==
  ASSUME HistoryInv, SentSound, [Next]_vars
  PROVE  SentSound'
<1>0. /\ db \in Store /\ issued \in Nat /\ Evolves(db, db', issued) /\ db' \in Store
      /\ SentInv /\ WellFormed(sent) /\ Gaps(db, issued)
  BY ProbeStep DEF HistoryInv, ProbeInv, TypeInv, TypeOK, Kept, FlightInv, QueueInv
<1>1. CASE sent' = sent
  <2>1. ASSUME sent.kind = "execution", db'.runs[sent.run] # NoRun,
               db'.execs[sent.run][sent.target].rev = sent.rev
        PROVE  db'.execs[sent.run][sent.target].status = sent.status
    <3>1. /\ sent.run \in RunId /\ sent.target \in Targets /\ sent.rev \in Nat
          /\ sent.run \in Nat /\ ~(sent.run > issued)
      <4>1. sent.run \in RunId /\ sent.runRecord \in RunRecord /\ sent.rev \in Nat
            /\ sent.target \in sent.runRecord.targets /\ sent.run <= issued
        BY <1>0, <2>1 DEF WellFormed, ArtifactRecord, SentInv
      <4>2. sent.target \in Targets
        BY <4>1 DEF RunRecord
      <4>3. sent.run \in Nat
        BY <4>1 DEF RunId
      <4> QED BY <1>0, <4>1, <4>2, <4>3
    <3> DEFINE e == db.execs[sent.run][sent.target]
               f == db'.execs[sent.run][sent.target]
    <3>2. /\ db.runs[sent.run] # NoRun /\ f.rev >= e.rev
          /\ f.rev = e.rev => f.status = e.status
      BY <1>0, <2>1, <3>1 DEF Evolves, RunEvolves
    <3>3. e.rev >= sent.rev
      BY <1>0, <2>1, <3>2 DEF SentInv
    <3>4. e.rev \in Nat /\ f.rev \in Nat
      BY <1>0, <3>1, Fields
    <3>5. e.rev = sent.rev
      BY <2>1, <3>1, <3>2, <3>3, <3>4
    <3> QED BY <2>1, <3>2, <3>5 DEF SentSound
  <2>2. ASSUME sent.kind = "gap", db'.gaps[sent.target].id = sent.run
        PROVE  /\ db'.gaps[sent.target].gen = sent.gap.gen
               /\ db'.gapQ[sent.target] = sent.rev => db'.gaps[sent.target] = sent.gap
    <3> DEFINE t == sent.target
    <3>1. /\ t \in Targets /\ sent.run # 0 /\ ~Live(db, sent.run, t) /\ sent.rev \in Nat
          /\ db.gaps[t].id = sent.run => db.gapQ[t] >= sent.rev
      BY <1>0, <2>2 DEF WellFormed, ArtifactRecord, SentInv
    <3>2. GapEvolves(db, db', t)
      BY <1>0, <3>1 DEF Evolves
    <3>3. CASE db'.gaps[t] = db.gaps[t] /\ db'.gapQ[t] = db.gapQ[t]
      BY <2>2, <3>3 DEF SentSound
    <3>4. CASE /\ db'.gaps[t].id = db.gaps[t].id /\ db'.gaps[t].gen = db.gaps[t].gen
               /\ db'.gapQ[t] > db.gapQ[t]
      <4>1. db.gaps[t].gen = sent.gap.gen
        BY <2>2, <3>4 DEF SentSound
      <4>2. db.gapQ[t] \in Nat /\ db'.gapQ[t] \in Nat
        BY <1>0, <3>1 DEF Store
      <4>3. db'.gapQ[t] # sent.rev
        BY <2>2, <3>1, <3>4, <4>2
      <4> QED BY <3>4, <4>1, <4>3
    <3> QED BY <2>2, <3>1, <3>2, <3>3, <3>4 DEF GapEvolves
  <2> QED BY <1>1, <2>1, <2>2 DEF SentSound
<1>2. CASE sent' = NoArtifact
  BY <1>2 DEF SentSound, NoArtifact
<1>3. ASSUME db' = db, NEW k \in QueuedKeys(db), sent' = Artifact(db, k) PROVE SentSound'
  <2> DEFINE a == Artifact(db, k)
  <2>1. /\ a.kind = k.kind /\ a.run = k.run /\ a.target = k.target
        /\ k.kind = "execution" => a.status = db.execs[k.run][k.target].status
        /\ k.kind = "gap" => /\ a.gap = db.gaps[k.target]
                             /\ a.rev = IF db.gaps[k.target].id = k.run THEN db.gapQ[k.target] ELSE 0
    BY DEF Artifact, QueuedRevision
  <2>2. k.kind = "gap" => db.gapQ[k.target] # 0 /\ db.gaps[k.target].id = k.run
    BY DEF QueuedKeys
  <2> HIDE DEF a
  <2> QED BY <1>3, <2>1, <2>2 DEF SentSound, a
<1> QED BY <1>1, <1>2, <1>3, SentChanges DEF HistoryInv, ProbeInv

\* What the Center knows it does not forget without a reset.
LEMMA KnownGrows ==
  ASSUME NEW c \in History, NEW new \in History, Rows(c), Rows(new), Grows(c, new)
  PROVE  /\ \A t \in Targets, s \in Nat : Known(c, t, s) => Known(new, t, s)
         /\ \A a : WellFormed(a) /\ Received(c, a) => Received(new, a)
<1>1. ASSUME NEW t \in Targets, NEW gap \in c.gaps[t], NEW f \in Nat, NEW l \in Nat,
             gap.first <= f, l <= gap.last
      PROVE  \E wide \in new.gaps[t] : wide.first <= f /\ l <= wide.last
  <2>1. PICK wide \in new.gaps[t] : wide.first <= gap.first /\ gap.last <= wide.last
    BY DEF Grows
  <2>2. gap.first \in Nat /\ gap.last \in Nat /\ wide.first \in Nat /\ wide.last \in Nat
    BY DEF History
  <2>3. wide.first <= f /\ l <= wide.last
    BY <1>1, <2>1, <2>2
  <2> QED BY <2>3
<1>2. ASSUME NEW t \in Targets, NEW s \in Nat, Known(c, t, s) PROVE Known(new, t, s)
  <2>1. ASSUME NEW r \in Stored(c, t, s), Terminal(c.execs[r][t]) PROVE Known(new, t, s)
    <3>1. r \in RunId /\ new.execs[r][t] = c.execs[r][t] /\ r \in Stored(new, t, s)
      BY <2>1 DEF Stored, Grows
    <3> QED BY <2>1, <3>1 DEF Known
  <2>2. ASSUME NEW gap \in c.gaps[t], gap.first <= s, s <= gap.last PROVE Known(new, t, s)
    BY <1>1, <2>2 DEF Known
  <2> QED BY <1>2, <2>1, <2>2 DEF Known
<1>3. ASSUME NEW a, WellFormed(a), Received(c, a) PROVE Received(new, a)
  <2>1. ASSUME a.kind = "execution", Terminal(a) PROVE Terminal(new.execs[a.run][a.target])
    <3>1. a.run \in RunId /\ a.target \in a.runRecord.targets /\ a.runRecord \in RunRecord
      BY <1>3, <2>1 DEF WellFormed, ArtifactRecord
    <3>2. a.target \in Targets
      BY <3>1 DEF RunRecord
    <3> QED BY <1>3, <2>1, <3>1, <3>2 DEF Received, Grows
  <2>2. ASSUME a.kind = "gap"
        PROVE  \E gap \in new.gaps[a.target] : gap.first <= a.gap.first /\ a.gap.last <= gap.last
    <3>1. a.target \in Targets /\ a.gap \in GapRecord
      BY <1>3, <2>2 DEF WellFormed, ArtifactRecord
    <3>2. a.gap.first \in Nat /\ a.gap.last \in Nat
      BY <3>1 DEF GapRecord
    <3>3. PICK gap \in c.gaps[a.target] : gap.first <= a.gap.first /\ a.gap.last <= gap.last
      BY <1>3, <2>2 DEF Received
    <3> QED BY <1>1, <3>1, <3>2, <3>3
  <2> QED BY <2>1, <2>2 DEF Received
<1> QED BY <1>2, <1>3

\* The generation of an artifact.
LEMMA SentGenType ==
  ASSUME NEW a, WellFormed(a)
  PROVE  SentGen(a) \in Nat
<1>1. a.gap \in GapRecord /\ a.runRecord \in RunRecord
  BY DEF WellFormed, ArtifactRecord
<1>2. \A g \in Generation \cup {0} : g \in Nat
  BY BoundAssumption DEF Generation
<1> QED BY <1>1, <1>2 DEF SentGen, GapRecord, RunRecord

\* An answered artifact takes from the queue what the Center knows.
LEMMA AnswerAccounts ==
  ASSUME HistoryInv, SentSound, AnswerSound, answer \in {"accepted", "obsolete"},
         NEW t \in Targets, NEW s \in Nat, Waits(db, t, s),
         db.gen = center.gen, center.pending = 0, ~Superseded(db, sent, sent.rev), NamedKey(sent)
  PROVE  Known(center, t, s) \/ Waits(Acknowledge(db, sent, sent.rev), t, s)
<1>0. /\ db \in Store /\ issued \in Nat /\ QueueInv(db, issued) /\ OpenRunning(db)
      /\ center \in History /\ WellFormed(sent) /\ Truthful(db, issued, sent)
      /\ Reflects(db, issued, center) /\ SentGen(sent) \in Nat /\ center.gen \in Nat
  BY ConsistentOpen, SentGenType, BoundAssumption
     DEF HistoryInv, ProbeInv, TypeInv, TypeOK, RunInv, FlightInv, CenterInv, History, Generation
<1>1. \/ Waits(Acknowledge(db, sent, sent.rev), t, s)
      \/ /\ sent.kind = "execution" /\ t = sent.target /\ Live(db, sent.run, t)
         /\ ~IsOpen(db.execs[sent.run][t]) /\ db.execs[sent.run][t].seq = s
      \/ /\ sent.kind = "gap" /\ t = sent.target /\ db.gapQ[t] # 0
         /\ db.gaps[t].first <= s /\ s <= db.gaps[t].last
  BY <1>0, AcknowledgeLoses
<1>2. ASSUME sent.kind = "execution", t = sent.target, Live(db, sent.run, t),
             ~IsOpen(db.execs[sent.run][t]), db.execs[sent.run][t].seq = s
      PROVE  Known(center, t, s)
  <2> DEFINE r == sent.run
  <2>1. r \in RunId /\ db.runs[r].gen = db.gen /\ db.runs[r] # NoRun /\ db.execQ[r][t] # 0
    BY <1>0, <1>2, Exists DEF WellFormed, Live, QueueInv
  <2>2. SentGen(sent) = db.gen
    BY <1>0, <1>2, <2>1 DEF Truthful, SentGen
  <2>3. answer = "accepted" /\ Received(center, sent)
    BY <1>0, <2>2 DEF AnswerSound
  <2>4. db.execs[r][t].rev = sent.rev
    BY <1>0, <1>2, <2>1 DEF Superseded, QueuedRevision, QueueInv, Records
  <2>5. db.execs[r][t].status = sent.status
    BY <1>2, <2>1, <2>4 DEF SentSound
  <2>6. Terminal(sent)
    <3>1. sent.status # "none" /\ db.execs[r][t] \in ExecRecord
      BY <1>0, <1>2, <2>1, Fields DEF WellFormed
    <3> QED BY <1>2, <2>5, <3>1 DEF ExecRecord, IsOpen, Terminal
  <2>7. Terminal(center.execs[r][t])
    BY <1>2, <2>3, <2>6 DEF Received
  <2>8. center.execs[r][t].status # "none"
    BY <2>7 DEF Terminal, TerminalStatus
  <2>9. center.execs[r][t].seq = s
    BY <1>0, <1>2, <2>1, <2>8 DEF Reflects
  <2> QED BY <2>1, <2>7, <2>8, <2>9 DEF Known, Stored
<1>3. ASSUME sent.kind = "gap", t = sent.target, db.gapQ[t] # 0,
             db.gaps[t].first <= s, s <= db.gaps[t].last
      PROVE  Known(center, t, s)
  <2>1. sent.rev # 0
    BY <1>3 DEF SentSound
  <2>2. db.gaps[t].id = sent.run /\ db.gapQ[t] = sent.rev
    BY <1>3, <2>1 DEF Superseded, QueuedRevision
  <2>3. db.gaps[t].gen = sent.gap.gen /\ db.gaps[t] = sent.gap
    BY <1>3, <2>2 DEF SentSound
  <2>4. db.gaps[t].gen = db.gen
    <3>1. db.gapQ[t] = db.gaps[t].rev
      BY <1>0 DEF QueueInv, Gaps
    <3>2. db.gaps[t] # NoGap
      BY <1>3, <3>1 DEF NoGap
    <3> QED BY <1>0, <3>2 DEF QueueInv, Gaps
  <2>5. SentGen(sent) = center.gen
    BY <1>3, <2>3, <2>4 DEF SentGen
  <2>6. Received(center, sent)
    BY <1>0, <2>5 DEF AnswerSound
  <2>7. PICK gap \in center.gaps[t] : gap.first <= sent.gap.first /\ sent.gap.last <= gap.last
    BY <1>3, <2>6 DEF Received
  <2>8. gap.first \in Nat /\ gap.last \in Nat /\ db.gaps[t].first \in Nat /\ db.gaps[t].last \in Nat
    BY <1>0, Fields DEF History
  <2>9. gap.first <= s /\ s <= gap.last
    BY <1>3, <2>3, <2>7, <2>8
  <2> QED BY <2>9 DEF Known
<1> QED BY <1>1, <1>2, <1>3

\* A step the Agent makes on its own, whatever the Center is at.
LEMMA LocalAccounts ==
  ASSUME HistoryInv, Accounted, Local, center' = center
  PROVE  Accounted'
<1>0. db \in Store /\ Accounts /\ db'.gen = db.gen
  BY StoreAccounts, GenerationStep DEF HistoryInv, ProbeInv, TypeInv, TypeOK
<1> SUFFICES ASSUME db'.gen = center'.gen, center'.pending = 0, NEW t \in Targets,
                    NEW s \in 1 .. db'.seqs[t]
             PROVE  Known(center, t, s) \/ Waits(db', t, s)
  BY DEF Accounted
<1>1. db.seqs[t] \in Nat /\ s \in Nat
  BY <1>0 DEF Store, Accounts
<1>2. CASE s \in 1 .. db.seqs[t]
  BY <1>0, <1>1, <1>2 DEF Accounted, Accounts
<1>3. CASE s \notin 1 .. db.seqs[t]
  BY <1>0, <1>1, <1>3 DEF Accounts
<1> QED BY <1>2, <1>3

\* The acknowledgement of an artifact the Center accepted or called obsolete.
LEMMA AcknowledgeAccounts ==
  ASSUME HistoryInv, SentSound, AnswerSound, Accounted, AcknowledgeProbeArtifact,
         answer \in {"accepted", "obsolete"}, center' = center
  PROVE  Accounted'
<1>0. db \in Store /\ issued \in Nat /\ QueueInv(db, issued)
  BY DEF HistoryInv, ProbeInv, TypeInv, TypeOK
<1>1. /\ db' = Acknowledge(db, sent, sent.rev) /\ NamedKey(sent)
      /\ OpenRunning(db)
  BY <1>0, ConsistentOpen DEF AcknowledgeProbeArtifact, HistoryInv, ProbeInv, TypeInv, Named, RunInv
<1>2. CASE Superseded(db, sent, sent.rev)
  BY <1>1, <1>2 DEF Accounted, Acknowledge
<1>3. CASE ~Superseded(db, sent, sent.rev)
  <2>1. db'.gen = db.gen /\ db'.seqs = db.seqs
    BY <1>0, <1>1, <1>3, AcknowledgeLoses
  <2> SUFFICES ASSUME db.gen = center.gen, center.pending = 0, NEW t \in Targets,
                      NEW s \in 1 .. db.seqs[t]
               PROVE  Known(center, t, s) \/ Waits(db', t, s)
    BY <2>1 DEF Accounted
  <2>2. Known(center, t, s) \/ Waits(db, t, s)
    BY DEF Accounted
  <2>3. s \in Nat
    OBVIOUS
  <2> QED BY <1>1, <1>3, <2>2, <2>3, AnswerAccounts
<1> QED BY <1>2, <1>3

\* EveryAttemptAccounted is not inductive: what is acknowledged has to be at the Center,
\* hence what was answered, and what was sent has to be what is still queued.
AccountInv == HistoryInv /\ SentSound /\ AnswerSound /\ Accounted

\* A generation starts with no sequence.
LEMMA NoSequence ==
  ASSUME \A t \in Targets : db.seqs[t] = 0
  PROVE  Accounted
BY DEF Accounted

\* A step of the Agent that leaves what it sent, and the answer, or has no answer.
LEMMA AnswerStays ==
  ASSUME AnswerSound, center' = center, (sent' = sent /\ answer' = answer) \/ answer' = "none"
  PROVE  AnswerSound'
BY DEF AnswerSound

\* The Center answers what is in flight, or takes in what was given up.
LEMMA UploadAccounts ==
  ASSUME AccountInv, NEW a \in {sent, late}, a # NoArtifact, HistoryFree,
         center' = UploadProbeArtifact(center, a).store, UNCHANGED vars, UNCHANGED resetting,
         late' \in {late, NoArtifact},
         \/ a = sent /\ answer = "none" /\ answer' = UploadProbeArtifact(center, a).answer
         \/ answer' = answer
  PROVE  AnswerSound' /\ Accounted'
<1> DEFINE result == UploadProbeArtifact(center, a)
<1>0. /\ WellFormed(sent) /\ WellFormed(a) /\ CenterInv(center) /\ a.kind # "none"
      /\ Truthful(db, issued, a) /\ ~(db.gen > center.gen)
      /\ db \in Store /\ center \in History /\ Rows(center)
  BY DEF AccountInv, HistoryInv, FlightInv, WellFormed, ProbeInv, TypeInv, TypeOK, CenterInv, ResetInv
<1>1. /\ result.answer = "obsolete" => SentGen(a) # center.gen
      /\ CenterInv(result.store) /\ Grows(center, result.store)
      /\ result.answer = "accepted" /\ a.kind = "execution" =>
            result.store.execs[a.run][a.target].status = a.status
      /\ result.answer = "accepted" /\ a.kind = "gap" => \E wide \in result.store.gaps[a.target] :
            wide.first <= a.gap.first /\ a.gap.last <= wide.last
  BY <1>0, UploadFacts
<1>2. /\ center' = result.store /\ (answer' = answer \/ (a = sent /\ answer' = result.answer))
      /\ db' = db /\ sent' = sent
  BY DEF vars
<1> HIDE DEF result
<1>3. center' \in History /\ Rows(center') /\ Grows(center, center')
  BY <1>1, <1>2 DEF CenterInv
<1>4. /\ \A t \in Targets, s \in Nat : Known(center, t, s) => Known(center', t, s)
      /\ Received(center, sent) => Received(center', sent)
      /\ center'.gen = center.gen /\ center'.pending = center.pending
  BY <1>0, <1>3, KnownGrows DEF Grows
<1>5. Accounted'
  <2> SUFFICES ASSUME db.gen = center.gen, center.pending = 0, NEW t \in Targets,
                      NEW s \in 1 .. db.seqs[t]
               PROVE  Known(center', t, s) \/ Waits(db, t, s)
    BY <1>2, <1>4 DEF Accounted
  <2>1. Known(center, t, s) \/ Waits(db, t, s)
    BY DEF AccountInv, Accounted
  <2>2. s \in Nat
    OBVIOUS
  <2> QED BY <1>4, <2>1, <2>2
<1>6. ASSUME answer' = answer PROVE AnswerSound'
  <2>1. SentGen(sent') = SentGen(sent) /\ AnswerSound
    BY <1>2 DEF AccountInv
  <2> QED BY <1>2, <1>4, <1>6, <2>1 DEF AnswerSound
<1>7. ASSUME a = sent, answer' = result.answer PROVE AnswerSound'
  <2>1. ASSUME answer' = "obsolete" PROVE SentGen(sent) < center.gen
    <3>1. SentGen(sent) \in Nat /\ db.gen \in Nat /\ center.gen \in Nat
      BY <1>0, SentGenType, Fields, BoundAssumption DEF History, Generation
    <3>2. SentGen(sent) # center.gen /\ ~(SentGen(sent) > db.gen)
      BY <1>0, <1>1, <1>7, <2>1 DEF Truthful
    <3> QED BY <1>0, <3>1, <3>2
  <2>2. ASSUME answer' = "accepted" PROVE Received(center', sent)
    <3>1. result.answer = "accepted" /\ center' = result.store
      BY <1>2, <1>7, <2>2
    <3>2. sent.kind = "execution" => center'.execs[sent.run][sent.target].status = sent.status
      BY <1>1, <1>7, <3>1
    <3>3. sent.kind = "gap" => \E wide \in center'.gaps[sent.target] :
            wide.first <= sent.gap.first /\ sent.gap.last <= wide.last
      BY <1>1, <1>7, <3>1
    <3> QED BY <3>2, <3>3 DEF Received, Terminal
  <2>3. SentGen(sent') = SentGen(sent)
    BY <1>2
  <2>4. Received(center', sent') <=> Received(center', sent)
    BY <1>2
  <2> QED BY <1>2, <1>4, <2>1, <2>2, <2>3, <2>4 DEF AnswerSound
<1> QED BY <1>2, <1>5, <1>6, <1>7

\* The commits of ResetHistory: nothing is to be accounted for while one is under way,
\* and the generation it promotes is one the Agent does not have.
LEMMA ResetAccounts ==
  ASSUME AccountInv, Reset
  PROVE  AnswerSound' /\ Accounted'
<1>0. /\ db' = db /\ sent' = sent /\ answer' = answer
  BY DEF Reset, BeginReset, ClearObservedHistory, FinishReset, AbortReset, agentVars, vars, networkVars
<1>1. /\ center \in History /\ center.gen \in Nat /\ db.gen \in Nat /\ ~(db.gen > center.gen)
      /\ SentGen(sent) \in Nat /\ (~(SentGen(sent) > db.gen) \/ sent.kind = "none")
      /\ db \in Store /\ WellFormed(sent)
  BY SentGenType, Fields, BoundAssumption
     DEF AccountInv, HistoryInv, FlightInv, Truthful, CenterInv, ResetInv, History, Generation,
         ProbeInv, TypeInv, TypeOK
<1>2. CASE BeginReset
  <2>1. center'.gen = center.gen /\ center'.pending # 0
    BY <1>1, <1>2 DEF BeginReset, SetPendingGeneration, History
  <2> QED BY <1>0, <2>1 DEF AccountInv, AnswerSound, Accounted
<1>3. CASE ClearObservedHistory
  <2>1. center'.gen = center.gen /\ center'.pending # 0
    BY <1>3 DEF ClearObservedHistory, ClearHistory, EmptyHistory, AccountInv, HistoryInv, ResetInv
  <2> QED BY <1>0, <2>1 DEF AccountInv, AnswerSound, Accounted
<1>4. CASE FinishReset
  <2>1. center'.gen = center.gen + 1
    BY <1>1, <1>4 DEF FinishReset, PromoteGeneration, AccountInv, HistoryInv, ResetInv, History
  <2>2. db.gen # center'.gen /\ (SentGen(sent) # center'.gen \/ sent.kind = "none")
    BY <1>1, <2>1
  <2>3. Accounted'
    BY <1>0, <2>2 DEF Accounted
  <2>4. sent.kind = "none" => Received(center', sent)
    BY DEF Received
  <2>5. SentGen(sent) < center.gen => SentGen(sent) < center'.gen
    BY <1>1, <2>1, SentGenType
  <2>6. AnswerSound'
    BY <1>0, <2>2, <2>4, <2>5 DEF AccountInv, AnswerSound
  <2> QED BY <2>3, <2>6
<1>5. CASE AbortReset
  BY <1>0, <1>5 DEF AbortReset, AccountInv, AnswerSound, Accounted
<1> QED BY <1>2, <1>3, <1>4, <1>5 DEF Reset

\* Each step of the Agent, of the Center and of the network keeps AccountInv.
LEMMA AccountStep ==
  ASSUME AccountInv, [DeliveryNext]_deliveryVars
  PROVE  AccountInv'
<1>1. HistoryInv'
  BY HistoryStep DEF AccountInv
<1>2. CASE AgentStep
  <2>1. Local /\ Network /\ [Next]_vars /\ center' = center
    BY <1>2 DEF AgentStep, Next, centerVars
  <2>2. (sent' = sent /\ answer' = answer) \/ answer' = "none"
    BY <2>1 DEF Network, networkVars
  <2>3. SentSound'
    BY <2>1, SentSoundStep DEF AccountInv
  <2>4. AnswerSound'
    BY <2>1, <2>2, AnswerStays DEF AccountInv
  <2>5. Accounted'
    BY <2>1, LocalAccounts DEF AccountInv
  <2> QED BY <1>1, <2>3, <2>4, <2>5 DEF AccountInv
<1>3. CASE ReceiveConfiguration
  <2>1. PICK g \in Generation : db.gen < g /\ g <= center.gen /\ ApplyConfiguration(g)
    BY <1>3 DEF ReceiveConfiguration
  <2>2. g \in Nat /\ db.gen \in Nat /\ db \in Store
    BY Fields, BoundAssumption DEF Generation, AccountInv, HistoryInv, ProbeInv, TypeInv, TypeOK
  <2>3. [Next]_vars
    BY <2>1, <2>2 DEF Next
  <2>4. \A t \in Targets : db'.seqs[t] = 0
    BY <2>1, <2>2, Zenon DEF ApplyConfiguration, ChangeGeneration, Store
  <2>5. center' = center /\ sent' = sent /\ answer' = answer
    BY <1>3, <2>1 DEF ReceiveConfiguration, centerVars, networkVars, ApplyConfiguration
  <2>6. SentSound' /\ AnswerSound'
    BY <2>3, <2>5, SentSoundStep, AnswerStays DEF AccountInv
  <2>7. Accounted'
    BY <2>4 DEF Accounted
  <2> QED BY <1>1, <2>6, <2>7 DEF AccountInv
<1>4. CASE ReceiveAnswer
  <2>1. center' = center /\ answer' = "none"
    BY <1>4 DEF ReceiveAnswer, centerVars
  <2>2. [Next]_vars
    BY <1>4 DEF ReceiveAnswer, Next
  <2>3. SentSound' /\ AnswerSound'
    BY <2>1, <2>2, SentSoundStep, AnswerStays DEF AccountInv
  <2>4. CASE answer = "invalid"
    <3>1. db' = db
      BY <1>4, <2>4 DEF ReceiveAnswer, UploadRefused
    <3> QED BY <1>1, <2>1, <2>3, <3>1 DEF AccountInv, Accounted
  <2>5. CASE answer # "invalid"
    <3>1. answer \in {"accepted", "obsolete"} /\ AcknowledgeProbeArtifact
      BY <1>4, <2>5 DEF ReceiveAnswer
    <3>2. Accounted'
      BY <2>1, <3>1, AcknowledgeAccounts DEF AccountInv
    <3> QED BY <1>1, <2>3, <3>2 DEF AccountInv
  <2> QED BY <2>4, <2>5
<1>5. CASE Reinstall
  <2>1. /\ db' = [EmptyStore EXCEPT !.gen = center.gen]
        /\ center' = center /\ sent' = sent /\ answer' = answer
    BY <1>5 DEF Reinstall, centerVars, networkVars
  <2>2. /\ \A t \in Targets : db'.seqs[t] = 0 /\ db'.gaps[t] = NoGap
        /\ \A r \in RunId : db'.runs[r] = NoRun
    BY <2>1 DEF EmptyStore
  <2>3. Accounted'
    BY <2>2 DEF Accounted
  <2>4. SentSound'
    <3>1. WellFormed(sent) /\ (sent.kind = "gap" => sent.rev # 0)
      BY DEF AccountInv, HistoryInv, FlightInv, SentSound
    <3>2. sent.kind # "none" => sent.run \in RunId /\ sent.run # 0
      BY <3>1 DEF WellFormed, RunId
    <3>3. sent.kind = "gap" => sent.target \in Targets
      BY <3>1 DEF WellFormed
    <3>4. NoGap.id = 0
      BY DEF NoGap
    <3>5. sent.kind = "gap" => db'.gaps[sent.target].id # sent.run
      BY <2>2, <3>2, <3>3, <3>4
    <3> QED BY <2>1, <2>2, <3>1, <3>2, <3>5 DEF SentSound
  <2>5. AnswerSound'
    BY <2>1, AnswerStays DEF AccountInv
  <2> QED BY <1>1, <2>3, <2>4, <2>5 DEF AccountInv
<1>6. CASE Answer
  <2>1. UNCHANGED vars /\ UNCHANGED resetting /\ HistoryFree
    BY <1>6 DEF Answer, AnswerRequest, AnswerLateRequest, agentVars
  <2>2. AnswerSound' /\ Accounted'
    <3>1. CASE AnswerRequest
      BY <2>1, <3>1, UploadAccounts DEF AnswerRequest
    <3>2. CASE AnswerLateRequest
      BY <2>1, <3>2, UploadAccounts DEF AnswerLateRequest
    <3> QED BY <1>6, <3>1, <3>2 DEF Answer
  <2>3. SentSound'
    BY <2>1, SentSoundStep DEF AccountInv
  <2> QED BY <1>1, <2>2, <2>3 DEF AccountInv
<1>7. CASE Reset
  <2>1. UNCHANGED vars
    BY <1>7 DEF Reset, BeginReset, ClearObservedHistory, FinishReset, AbortReset, agentVars
  <2> QED BY <1>1, <1>7, <2>1, ResetAccounts, SentSoundStep DEF AccountInv
<1>8. CASE UNCHANGED deliveryVars
  <2>1. UNCHANGED vars /\ db' = db /\ sent' = sent /\ center' = center /\ answer' = answer
    BY <1>8 DEF deliveryVars, centerVars, networkVars, vars
  <2>2. SentSound' /\ AnswerSound'
    BY <2>1, SentSoundStep, AnswerStays DEF AccountInv
  <2> QED BY <1>1, <2>1, <2>2 DEF AccountInv, Accounted
<1> QED BY <1>2, <1>3, <1>4, <1>5, <1>6, <1>7, <1>8 DEF DeliveryNext

\* Every attempt of the current generation is at the Center, queued, open, or covered by
\* an explicit gap: no crash, loss, eviction, late request or reset loses one.
THEOREM AttemptsAccounted == DeliverySpec => []EveryAttemptAccounted
<1>1. DeliveryInit => AccountInv
  <2> SUFFICES ASSUME DeliveryInit, HistoryInv PROVE AccountInv
    BY HistoryStart
  <2>1. /\ \A t \in Targets : db.seqs[t] = 0
        /\ sent = NoArtifact /\ answer = "none"
    BY DEF DeliveryInit, Init, EmptyStore
  <2>2. Accounted
    BY <2>1, NoSequence
  <2>3. SentSound /\ AnswerSound
    BY <2>1 DEF SentSound, AnswerSound, NoArtifact
  <2> QED BY <2>2, <2>3 DEF AccountInv
<1>2. AccountInv /\ [DeliveryNext]_deliveryVars => AccountInv'
  BY AccountStep
<1>3. AccountInv => EveryAttemptAccounted
  <2> SUFFICES ASSUME AccountInv PROVE EveryAttemptAccounted
    OBVIOUS
  <2>1. DeliveryTypeOK
    BY DEF AccountInv, HistoryInv, CenterInv, ResetInv, FlightInv, WellFormed, DeliveryTypeOK
  <2>2. ASSUME db.gen = center.gen, center.pending = 0, NEW t \in Targets,
               NEW s \in 1 .. db.seqs[t]
        PROVE  \/ \E r \in Stored(center, t, s) : Terminal(center.execs[r][t])
               \/ \E gap \in center.gaps[t] : gap.first <= s /\ s <= gap.last
               \/ db.gapQ[t] # 0 /\ db.gaps[t].first <= s /\ s <= db.gaps[t].last
               \/ \E r \in RunId : /\ db.runs[r].gen = db.gen /\ db.execs[r][t].seq = s
                                   /\ db.execQ[r][t] # 0 \/ r = db.active
    <3>1. Known(center, t, s) \/ Waits(db, t, s)
      BY <2>2 DEF AccountInv, Accounted
    <3>2. \A r \in RunId : IsOpen(db.execs[r][t]) => r = db.active
      BY DEF AccountInv, HistoryInv, ProbeInv, RunInv, Consistent
    <3> QED BY <3>1, <3>2 DEF Known, Waits, Live
  <2> QED BY <2>1, <2>2 DEF EveryAttemptAccounted
<1> QED BY <1>1, <1>2, <1>3, PTL DEF DeliverySpec

-----------------------------------------------------------------------------
(* What the Center would refuse: gaps and outcomes                         *)

\* A gap of target t is known by id i and first sequence f: the Agent keeps it, sends
\* it or gave up sending it, or the Center stores it.
GapName(t, i, f) ==
    \/ i # 0 /\ db.gaps[t].id = i /\ db.gaps[t].first = f
    \/ \E a \in {sent, late} : a.kind = "gap" /\ a.target = t /\ a.run = i /\ a.gap.first = f
    \/ \E gap \in center.gaps[t] : gap.id = i /\ gap.first = f

\* A gap has one first sequence, wherever it is known, and the execution that names it
\* cannot name another one.
GapsAgree ==
    \A t \in Targets, i \in RunId : \A f, g :
        GapName(t, i, f) => /\ ~(i > issued) /\ ~Live(db, i, t)
                            /\ GapName(t, i, g) => f = g

\* The outcome of an execution has not overtaken what is sent of it.
NotOvertaken ==
    sent.kind = "execution" /\ ~Terminal(sent) =>
        /\ ~Terminal(center.execs[sent.run][sent.target])
        /\ ~(/\ late.kind = "execution" /\ late.run = sent.run /\ late.target = sent.target
             /\ Terminal(late))

\* A step of the Agent brings no gap but one that no execution has named yet.
LEMMA AgentGaps ==
  ASSUME HistoryInv, StoreInv, GapsAgree, [Next]_vars, ~\E x \in files : LoseResultFile(x),
         UNCHANGED centerVars, late' \in {late, sent}
  PROVE  GapsAgree'
<1>0. /\ db \in Store /\ db' \in Store /\ issued \in Nat /\ issued' \in Nat /\ issued <= issued'
      /\ Records(db, issued) /\ Gaps(db, issued) /\ Gaps(db', issued')
      /\ Evolves(db, db', issued) /\ center' = center
  BY ProbeStep, SentChanges
     DEF HistoryInv, ProbeInv, TypeInv, TypeOK, Kept, centerVars, QueueInv
<1>1. GapStays(db, db')
  BY StoreStep DEF HistoryInv
<1>2. \A r \in RunId : r \in Nat /\ r # 0
  BY RunIdFinite DEF RunId
<1>3. ASSUME NEW t \in Targets, NEW i \in RunId, NEW f, GapName(t, i, f)'
      PROVE  GapName(t, i, f) \/ (Live(db, i, t) /\ db'.gaps[t].id = i /\ db'.gaps[t].first = f)
  <2>1. CASE i # 0 /\ db'.gaps[t].id = i /\ db'.gaps[t].first = f
    <3>1. GapEvolves(db, db', t)
      BY <1>0 DEF Evolves
    <3>2. db.gaps[t].id = i => db'.gaps[t].first = db.gaps[t].first
      BY <1>1, <2>1 DEF GapStays
    <3>3. db.gaps[t].id = i \/ Live(db, i, t)
      BY <2>1, <3>1 DEF GapEvolves
    <3> QED BY <2>1, <3>2, <3>3 DEF GapName
  <2>2. CASE sent'.kind = "gap" /\ sent'.target = t /\ sent'.run = i /\ sent'.gap.first = f
    <3>1. CASE sent' = sent
      BY <2>2, <3>1 DEF GapName
    <3>2. CASE sent' = NoArtifact
      BY <2>2, <3>2 DEF NoArtifact
    <3>3. ASSUME NEW k \in QueuedKeys(db), sent' = Artifact(db, k) PROVE GapName(t, i, f)
      <4>1. /\ sent'.kind = k.kind /\ sent'.target = k.target /\ sent'.run = k.run
            /\ k.kind = "gap" => sent'.gap = db.gaps[k.target]
        BY <3>3 DEF Artifact
      <4>2. k.kind = "gap" => k.run = db.gaps[k.target].id
        BY DEF QueuedKeys
      <4> QED BY <1>2, <2>2, <4>1, <4>2 DEF GapName
    <3> QED BY <3>1, <3>2, <3>3, SentChanges DEF HistoryInv, ProbeInv
  <2>3. CASE late'.kind = "gap" /\ late'.target = t /\ late'.run = i /\ late'.gap.first = f
    BY <2>3 DEF GapName
  <2>4. CASE \E gap \in center'.gaps[t] : gap.id = i /\ gap.first = f
    BY <1>0, <2>4 DEF GapName
  <2> QED BY <1>3, <2>1, <2>2, <2>3, <2>4 DEF GapName
<1> SUFFICES ASSUME NEW t \in Targets, NEW i \in RunId, NEW f, NEW g, GapName(t, i, f)'
             PROVE  /\ ~(i > issued') /\ ~Live(db', i, t)
                    /\ GapName(t, i, g)' => f = g
  BY DEF GapsAgree
<1>4. Live(db, i, t) => ~(i > issued)
  BY <1>0, Exists DEF Live
<1>5. ~(i > issued)
  BY <1>3, <1>4 DEF GapsAgree
<1>6. ~(i > issued')
  BY <1>0, <1>2, <1>5
<1>7. ~Live(db', i, t)
  <2>1. CASE GapName(t, i, f)
    BY <1>0, <1>5, <2>1 DEF GapsAgree, Evolves
  <2>2. CASE db'.gaps[t].id = i
    BY <1>0, <1>2, <2>2 DEF Gaps
  <2> QED BY <1>3, <2>1, <2>2
<1>8. ASSUME GapName(t, i, g)' PROVE f = g
  BY <1>3, <1>8 DEF GapsAgree
<1> QED BY <1>6, <1>7, <1>8

\* Nor does the Center; what it forgets is no loss.
LEMMA CenterGaps ==
  ASSUME GapsAgree, UNCHANGED vars, sent' = sent, late' \in {late, NoArtifact},
         \A t \in Targets : \A x \in center'.gaps[t] : GapName(t, x.id, x.first)
  PROVE  GapsAgree'
<1>1. db' = db /\ issued' = issued
  BY DEF vars
<1>2. NoArtifact.kind # "gap"
  BY DEF NoArtifact
<1>3. ASSUME NEW t \in Targets, NEW i, NEW f, GapName(t, i, f)' PROVE GapName(t, i, f)
  BY <1>1, <1>2, <1>3 DEF GapName
<1> QED BY <1>1, <1>3 DEF GapsAgree

\* The Agent sends an execution as it is, and never takes an outcome back.
LEMMA AgentOvertakes ==
  ASSUME HistoryInv, NotOvertaken, [Next]_vars, UNCHANGED centerVars, late' \in {late, sent},
         sent' = sent => late' = late
  PROVE  NotOvertaken'
<1>0. center' = center
  BY DEF centerVars
<1>1. CASE sent' = sent
  BY <1>0, <1>1 DEF NotOvertaken
<1>2. CASE sent' = NoArtifact
  BY <1>2 DEF NoArtifact, NotOvertaken
<1>3. ASSUME NEW k \in QueuedKeys(db), sent' = Artifact(db, k), sent'.kind = "execution",
             ~Terminal(sent')
      PROVE  /\ ~Terminal(center'.execs[sent'.run][sent'.target])
             /\ ~(/\ late'.kind = "execution" /\ late'.run = sent'.run
                  /\ late'.target = sent'.target /\ Terminal(late'))
  <2>1. /\ sent'.kind = k.kind /\ sent'.run = k.run /\ sent'.target = k.target
        /\ k.kind = "execution" => sent'.status = db.execs[k.run][k.target].status
    BY <1>3 DEF Artifact
  <2>2. k.run \in RunId /\ k.target \in Targets /\ db.execQ[k.run][k.target] # 0
    BY <1>3, <2>1 DEF QueuedKeys, AllExecutions
  <2>3. db.runs[k.run] # NoRun
    BY <2>2, Exists DEF HistoryInv, ProbeInv, TypeInv, TypeOK, QueueInv, Records
  <2>4. db.execs[k.run][k.target].status \notin TerminalStatus
    BY <1>3, <2>1 DEF Terminal
  <2>5. ~Terminal(center.execs[k.run][k.target])
    <3>1. Terminal(center.execs[k.run][k.target]) => center.execs[k.run][k.target].status # "none"
      BY DEF Terminal, TerminalStatus
    <3> QED BY <2>2, <2>3, <2>4, <3>1 DEF HistoryInv, Reflects, Terminal
  <2>6. ASSUME NEW a \in {sent, late}, a.kind = "execution", a.run = k.run, a.target = k.target,
               Terminal(a)
        PROVE  FALSE
    <3>1. a.status = db.execs[k.run][k.target].status
      BY <2>3, <2>6 DEF HistoryInv, FlightInv, Truthful
    <3> QED BY <2>4, <2>6, <3>1 DEF Terminal
  <2> QED BY <1>0, <2>1, <2>5, <2>6
<1> QED BY <1>1, <1>2, <1>3, SentChanges DEF HistoryInv, ProbeInv, NotOvertaken

\* The Center takes an outcome from nothing but an artifact that says so.
LEMMA CenterOvertakes ==
  ASSUME NotOvertaken, sent' = sent, late' \in {late, NoArtifact},
         \A r \in RunId, t \in Targets : Terminal(center'.execs[r][t]) =>
            \/ Terminal(center.execs[r][t])
            \/ \E a \in {sent, late} : /\ a.kind = "execution" /\ a.run = r /\ a.target = t
                                       /\ Terminal(a),
         WellFormed(sent)
  PROVE  NotOvertaken'
<1>1. sent.kind = "execution" => sent.run \in RunId /\ sent.target \in Targets
  BY DEF WellFormed, ArtifactRecord, RunRecord
<1>2. NoArtifact.kind # "execution"
  BY DEF NoArtifact
<1> QED BY <1>1, <1>2 DEF NotOvertaken

\* The Center closes no run with an execution it still waits for.
Closed(w, c) ==
    \A r \in RunId : c.runs[r] \in FinalRunStatus =>
        \A t \in w.runs[r].targets : Terminal(c.execs[r][t])

\* A log that agrees with artifacts a and b and with the rows of history c.
Logged(w, st, n, c, a, b) ==
    /\ IsLog(w, st, n) /\ Truthful(w, n, a) /\ Truthful(w, n, b)
    /\ Reflects(w, n, c) /\ Closed(w, c)

\* There has been a run for everything the Center knows and everything in flight.
HistoryLogged == \E w \in Store : Logged(w, db, issued, center, sent, late)

\* A step of the store is a step of the log.
LEMMA LoggedEvolves ==
  ASSUME NEW st \in Store, NEW new \in Store, NEW n \in Nat, NEW m \in Nat, n <= m,
         Records(new, m), Evolves(st, new, n), Advances(st, new, n, m), AddsUp(new),
         NEW c \in History, Rows(c), NEW a, WellFormed(a), NEW b, WellFormed(b),
         NEW w \in Store, Logged(w, st, n, c, a, b)
  PROVE  \E x \in Store : Logged(x, new, m, c, a, b)
<1>1. PICK x : x = Log(new, w)
  OBVIOUS
<1>2. /\ x \in Store /\ RunsEvolve(w, x, n) /\ Remembers(x, new)
      /\ \A r \in RunId : ~(r > n) => x.runs[r].targets = w.runs[r].targets
  BY <1>1, LogRows DEF Logged
<1>3. Numbered(x, m)
  BY <1>1, LogNumbered DEF Logged
<1>4. AddsUp(x)
  BY <1>1, LogAddsUp DEF Logged, IsLog
<1>5. Truthful(x, m, a) /\ Truthful(x, m, b)
  BY <1>2, TruthfulEvolves DEF Logged
<1>6. Reflects(x, m, c)
  BY <1>2, ReflectsEvolves DEF Logged
<1>7. Closed(x, c)
  <2>1. ASSUME NEW r \in RunId, c.runs[r] \in FinalRunStatus PROVE ~(r > n)
    BY <2>1 DEF Logged, Reflects, FinalRunStatus
  <2> QED BY <1>2, <2>1 DEF Logged, Closed
<1> QED BY <1>2, <1>3, <1>4, <1>5, <1>6, <1>7 DEF Logged, IsLog

\* An artifact that is read from the store agrees with the log.
LEMMA TruthfulLogged ==
  ASSUME NEW st \in Store, NEW n, NEW a, WellFormed(a), Truthful(st, n, a),
         a.kind \in {"run", "execution"} => st.runs[a.run] # NoRun,
         NEW w, Remembers(w, st)
  PROVE  Truthful(w, n, a)
<1>1. w.gen = st.gen
  BY DEF Remembers
<1>2. CASE a.kind \in {"run", "execution"}
  <2>1. a.run \in RunId /\ st.runs[a.run] # NoRun
    BY <1>2 DEF WellFormed
  <2>2. w.runs[a.run] = st.runs[a.run] /\ w.execs[a.run] = st.execs[a.run]
    BY <2>1 DEF Remembers
  <2> QED BY <1>1, <1>2, <2>1, <2>2 DEF Truthful
<1> QED BY <1>1, <1>2 DEF Truthful

\* The log goes on in a step of the Agent.
LEMMA AgentLogs ==
  ASSUME HistoryInv, HistoryInv', StoreInv', HistoryLogged, [Next]_vars, UNCHANGED centerVars,
         late' \in {late, sent}
  PROVE  HistoryLogged'
<1>0. /\ db \in Store /\ db' \in Store /\ issued \in Nat /\ issued' \in Nat /\ issued <= issued'
      /\ Records(db', issued') /\ Records(db, issued) /\ Evolves(db, db', issued)
      /\ center' = center /\ CenterInv(center)
      /\ WellFormed(sent) /\ WellFormed(late) /\ WellFormed(sent')
      /\ Truthful(db', issued', sent')
  BY ProbeStep, SentChanges
     DEF HistoryInv, ProbeInv, TypeInv, TypeOK, Kept, centerVars, QueueInv, FlightInv
<1>1. Advances(db, db', issued, issued')
  BY AgentAdvances DEF HistoryInv
<1>2. PICK w \in Store : Logged(w, db, issued, center, sent, late)
  BY DEF HistoryLogged
<1>3. PICK x \in Store : Logged(x, db', issued', center, sent, late)
  BY <1>0, <1>1, <1>2, LoggedEvolves DEF StoreInv, CenterInv
<1>4. Truthful(x, issued', sent')
  <2>1. CASE sent' = sent
    BY <1>3, <2>1 DEF Logged
  <2>2. CASE sent' = NoArtifact
    BY <2>2, NoArtifactFacts
  <2>3. ASSUME db' = db, issued' = issued, NEW k \in QueuedKeys(db), sent' = Artifact(db, k),
               sent'.kind \in {"run", "execution"}
        PROVE  db'.runs[sent'.run] # NoRun
    <3>1. sent'.kind = k.kind /\ sent'.run = k.run
      BY <2>3 DEF Artifact
    <3>2. k.run \in RunId /\ db.runs[k.run].gen = db.gen
      BY <1>0, <2>3, <3>1 DEF QueuedKeys, AllExecutions, Records
    <3> QED BY <1>0, <2>3, <3>1, <3>2, Exists
  <2>4. CASE db' = db /\ issued' = issued /\ \E k \in QueuedKeys(db) : sent' = Artifact(db, k)
    BY <1>0, <1>3, <2>3, <2>4, TruthfulLogged DEF Logged, IsLog
  <2> QED BY <2>1, <2>2, <2>4, SentChanges DEF HistoryInv, ProbeInv
<1>5. Truthful(x, issued', late')
  BY <1>3 DEF Logged
<1> QED BY <1>0, <1>3, <1>4, <1>5 DEF Logged, HistoryLogged

-----------------------------------------------------------------------------
(* The Center's side of the log                                            *)

\* An upload is a row of the log.
LEMMA UploadLogs ==
  ASSUME HistoryInv, HistoryLogged, NEW a \in {sent, late}, a # NoArtifact,
         center' = UploadProbeArtifact(center, a).store, UNCHANGED vars,
         late' \in {late, NoArtifact}
  PROVE  HistoryLogged'
<1>1. WellFormed(a) /\ CenterInv(center) /\ center \in History
  BY DEF HistoryInv, FlightInv, CenterInv
<1>2. a.kind \in {"run", "execution", "gap"} /\ a.run \in RunId
  BY <1>1 DEF WellFormed, ArtifactRecord
<1>3. PICK w \in Store : Logged(w, db, issued, center, sent, late)
  BY DEF HistoryLogged
<1>4. Truthful(w, issued, a) /\ issued \in Nat
  BY <1>3 DEF Logged, HistoryInv, ProbeInv, TypeInv, TypeOK
<1>5. PICK result : result = UploadProbeArtifact(center, a)
  OBVIOUS
<1>6. /\ result.answer # "accepted" => center' = center
      /\ Grows(center, center') /\ RowsFrom(center, center', a)
      /\ a.kind = "gap" => center'.runs = center.runs /\ center'.execs = center.execs
  BY <1>1, <1>2, <1>5, UploadFacts
<1>7. Reflects(w, issued, center')
  BY <1>1, <1>2, <1>3, <1>4, ReflectsUpload DEF Logged
<1>8. ASSUME NEW r \in RunId, center'.runs[r] \in FinalRunStatus, NEW t \in w.runs[r].targets
      PROVE  Terminal(center'.execs[r][t])
  <2>0. t \in Targets
    BY <1>8, Fields
  <2>1. CASE center.runs[r] = center'.runs[r]
    <3>1. Terminal(center.execs[r][t])
      BY <1>3, <1>8, <2>1 DEF Logged, Closed
    <3> QED BY <1>6, <2>0, <3>1 DEF Grows
  <2>2. CASE center.runs[r] # center'.runs[r]
    <3>1. r = a.run /\ a.kind \in {"run", "execution"}
      BY <1>2, <1>6, <2>2 DEF RowsFrom
    <3>2. \A u \in a.runRecord.targets : Terminal(center'.execs[r][u])
      BY <1>6, <1>8, <2>2, <3>1 DEF RowsFrom, FinalRunStatus
    <3>3. w.runs[r] # NoRun
      BY <1>3, <1>4, <3>1 DEF Logged, IsLog, Numbered, Truthful
    <3>4. a.runRecord.targets = w.runs[r].targets
      BY <1>4, <3>1, <3>3 DEF Truthful
    <3> QED BY <1>8, <3>2, <3>4
  <2> QED BY <2>1, <2>2
<1>9. Closed(w, center')
  BY <1>8 DEF Closed
<1>10. Truthful(w, issued, late')
  BY <1>3, NoArtifactFacts DEF Logged
<1>11. sent' = sent /\ db' = db /\ issued' = issued
  BY DEF vars
<1> QED BY <1>3, <1>7, <1>9, <1>10, <1>11 DEF Logged, HistoryLogged

\* ResetHistory changes no row it does not remove.
LEMMA ResetRows ==
  ASSUME HistoryInv, Reset
  PROVE  /\ UNCHANGED vars /\ UNCHANGED networkVars
         /\ \A t \in Targets : center'.gaps[t] \subseteq center.gaps[t]
         /\ \/ /\ center'.runs = center.runs /\ center'.execs = center.execs
               /\ center'.gen = center.gen
            \/ \A r \in RunId : /\ center'.runs[r] = "none"
                                /\ \A t \in Targets : center'.execs[r][t].status = "none"
<1>0. center \in History /\ Rows(center)
  BY DEF HistoryInv, CenterInv
<1>1. UNCHANGED vars /\ UNCHANGED networkVars
  BY DEF Reset, BeginReset, ClearObservedHistory, FinishReset, AbortReset, agentVars
<1>2. CASE BeginReset
  <2>1. center' = center \/ center' = [center EXCEPT !.pending = center.gen + 1]
    BY <1>2 DEF BeginReset, SetPendingGeneration
  <2>2. /\ center'.runs = center.runs /\ center'.execs = center.execs
        /\ center'.gen = center.gen /\ center'.gaps = center.gaps
    BY <1>0, <2>1 DEF History
  <2> QED BY <1>1, <2>2
<1>3. CASE ClearObservedHistory
  <2>1. center' = EmptyHistory(center.gen, center.pending)
    BY <1>3 DEF ClearObservedHistory, ClearHistory
  <2>2. /\ \A t \in Targets : center'.gaps[t] = {}
        /\ \A r \in RunId : /\ center'.runs[r] = "none"
                            /\ \A t \in Targets : center'.execs[r][t].status = "none"
    BY <2>1 DEF EmptyHistory, NoRow
  <2> QED BY <1>1, <2>2
<1>4. CASE FinishReset
  <2>1. /\ center' = [center EXCEPT !.gen = center.pending, !.pending = 0]
        /\ resetting = "cleared"
    BY <1>4 DEF FinishReset, PromoteGeneration
  <2>2. /\ center'.runs = center.runs /\ center'.execs = center.execs
        /\ center'.gaps = center.gaps
    BY <1>0, <2>1 DEF History
  <2>3. \A r \in RunId : center.runs[r] = "none"
    BY <2>1 DEF HistoryInv, ResetInv
  <2>4. \A r \in RunId, t \in Targets : center.execs[r][t].status = "none"
    BY <1>0, <2>3 DEF Rows
  <2> QED BY <1>1, <2>2, <2>3, <2>4
<1>5. CASE AbortReset
  <2>1. center' = center
    BY <1>5 DEF AbortReset
  <2> QED BY <1>1, <2>1
<1> QED BY <1>2, <1>3, <1>4, <1>5 DEF Reset

\* Nor does it contradict the log.
LEMMA ResetLogs ==
  ASSUME HistoryInv, HistoryLogged, Reset
  PROVE  HistoryLogged'
<1>1. /\ UNCHANGED vars /\ UNCHANGED networkVars
      /\ \/ /\ center'.runs = center.runs /\ center'.execs = center.execs
            /\ center'.gen = center.gen
         \/ \A r \in RunId : /\ center'.runs[r] = "none"
                             /\ \A t \in Targets : center'.execs[r][t].status = "none"
  BY ResetRows
<1>2. PICK w \in Store : Logged(w, db, issued, center, sent, late)
  BY DEF HistoryLogged
<1>3. Reflects(w, issued, center') /\ Closed(w, center')
  <2>1. CASE /\ center'.runs = center.runs /\ center'.execs = center.execs
             /\ center'.gen = center.gen
    BY <1>2, <2>1 DEF Logged, Reflects, Closed
  <2>2. CASE \A r \in RunId : /\ center'.runs[r] = "none"
                              /\ \A t \in Targets : center'.execs[r][t].status = "none"
    BY <2>2 DEF Reflects, Closed, FinalRunStatus
  <2> QED BY <1>1, <2>1, <2>2
<1>4. sent' = sent /\ db' = db /\ issued' = issued /\ late' = late
  BY <1>1 DEF vars, networkVars
<1> QED BY <1>2, <1>3, <1>4 DEF Logged, HistoryLogged

\* The log of an Agent that has started no run.
LEMMA StartLogged ==
  ASSUME DeliveryInit
  PROVE  HistoryLogged
<1>1. /\ db = EmptyStore /\ issued = 0 /\ sent = NoArtifact /\ late = NoArtifact
      /\ db.gen = 1 /\ \A r \in RunId : db.runs[r] = NoRun
  BY DEF DeliveryInit, Init, EmptyStore
<1>2. HistoryInv /\ db \in Store /\ AddsUp(db)
  BY HistoryStart, StoreStart DEF DeliveryInit, HistoryInv, ProbeInv, TypeInv, TypeOK, StoreInv
<1>3. \A r \in RunId : r > 0
  <2>1. \A r \in RunId : r \in Nat /\ r # 0
    BY RunIdFinite DEF RunId
  <2> QED BY <2>1
<1>4. IsLog(db, db, issued)
  BY <1>1, <1>2, <1>3 DEF IsLog, Remembers, Numbered
<1>5. Closed(db, center)
  <2>1. \A r \in RunId : center.runs[r] = "none"
    BY DEF DeliveryInit, EmptyHistory
  <2> QED BY <2>1 DEF Closed, FinalRunStatus
<1> QED BY <1>1, <1>2, <1>4, <1>5 DEF HistoryInv, FlightInv, Logged, HistoryLogged

-----------------------------------------------------------------------------
(* What the Center accepts                                                 *)

\* What the log has of the run of an artifact.
LEMMA ArtifactLogged ==
  ASSUME NEW w \in Store, NEW n, Numbered(w, n), NEW a, WellFormed(a), Truthful(w, n, a),
         a.kind \in {"run", "execution"}
  PROVE  /\ a.run \in RunId /\ w.runs[a.run] # NoRun /\ NumberedRun(w, a.run)
         /\ a.runRecord.gen = w.runs[a.run].gen
         /\ a.runRecord.targets = w.runs[a.run].targets
         /\ a.runRecord.targets \in SUBSET Targets /\ a.runRecord.targets # {}
         /\ a.runRecord.status \in FinalRunStatus \cup {"running"}
         /\ a.runRecord.status \in FinalRunStatus => a.runRecord.status = w.runs[a.run].status
         /\ \A t \in a.runRecord.targets : a.manifest[t] = w.execs[a.run][t].seq
         /\ a.kind = "execution" =>
              /\ a.target \in a.runRecord.targets
              /\ Terminal(a) => a.status = w.execs[a.run][a.target].status
<1>1. a.run \in RunId /\ ~(a.run > n)
  BY DEF WellFormed, Truthful
<1>2. w.runs[a.run] # NoRun /\ NumberedRun(w, a.run)
  BY <1>1 DEF Numbered
<1>3. /\ a.runRecord.gen = w.runs[a.run].gen
      /\ a.runRecord.targets = w.runs[a.run].targets
      /\ a.runRecord.status \in FinalRunStatus => a.runRecord.status = w.runs[a.run].status
      /\ \A t \in a.runRecord.targets : a.manifest[t] = w.execs[a.run][t].seq
      /\ a.kind = "execution" /\ Terminal(a) => a.status = w.execs[a.run][a.target].status
  BY <1>2 DEF Truthful
<1>4. /\ a.runRecord.targets \in SUBSET Targets
      /\ a.runRecord.status \in FinalRunStatus \cup {"running"}
      /\ a.kind = "execution" => a.target \in a.runRecord.targets
  BY DEF WellFormed, ArtifactRecord, RunRecord
<1>5. a.runRecord.targets # {}
  BY <1>2, <1>3 DEF NumberedRun
<1> QED BY <1>1, <1>2, <1>3, <1>4, <1>5

\* The sequence of a new execution is taken by no other execution.
LEMMA RunAccepted ==
  ASSUME NEW c, CenterInv(c), NEW w \in Store, NEW n, Numbered(w, n), Reflects(w, n, c),
         NEW a, WellFormed(a), Truthful(w, n, a), a.kind \in {"run", "execution"},
         a.runRecord.gen = c.gen
  PROVE  IngestRun(c, a).answer = "accepted"
<1>1. /\ a.run \in RunId /\ w.runs[a.run] # NoRun /\ NumberedRun(w, a.run)
      /\ c.gen = w.runs[a.run].gen
      /\ a.runRecord.targets = w.runs[a.run].targets
      /\ a.runRecord.targets \in SUBSET Targets
      /\ \A t \in a.runRecord.targets : a.manifest[t] = w.execs[a.run][t].seq
  BY ArtifactLogged
<1>2. ASSUME NEW t \in a.runRecord.targets, c.execs[a.run][t].status = "none",
             NEW q \in Stored(c, t, a.manifest[t])
      PROVE  FALSE
  <2>0. t \in Targets
    BY <1>1
  <2>1. /\ q \in RunId /\ q # a.run /\ c.execs[q][t].status # "none"
        /\ c.execs[q][t].seq = w.execs[a.run][t].seq
    BY <1>1, <1>2 DEF Stored
  <2>2. c.runs[q] # "none"
    BY <2>0, <2>1 DEF CenterInv, Rows
  <2>3. w.runs[q] # NoRun
    BY <2>1, <2>2 DEF Reflects, Numbered
  <2>4. w.runs[q].gen = w.runs[a.run].gen /\ c.execs[q][t].seq = w.execs[q][t].seq
    BY <1>1, <2>0, <2>1, <2>2, <2>3 DEF Reflects
  <2>5. w.execs[a.run][t].seq # 0
    BY <1>1, <2>0 DEF NumberedRun
  <2> QED BY <1>1, <2>0, <2>1, <2>3, <2>4, <2>5, Zenon DEF NumberedRun
<1>3. ~ \E t \in {u \in a.runRecord.targets : c.execs[a.run][u].status = "none"} :
          Stored(c, t, a.manifest[t]) # {}
  BY <1>2
<1> QED BY <1>3 DEF IngestRun, Accepted

\* An outcome the Center has is the one that is sent again.
LEMMA ExecutionAccepted ==
  ASSUME NEW c, NEW w \in Store, NEW n, Numbered(w, n), Reflects(w, n, c),
         NEW a, WellFormed(a), Truthful(w, n, a), a.kind = "execution",
         ~Terminal(a) => ~Terminal(c.execs[a.run][a.target]),
         NEW first, \/ first.execs[a.run][a.target] = c.execs[a.run][a.target]
                    \/ first.execs[a.run][a.target].status = "pending"
  PROVE  IngestExecution(first, a).answer = "accepted"
<1>1. /\ a.run \in RunId /\ w.runs[a.run] # NoRun /\ a.target \in Targets
      /\ Terminal(a) => a.status = w.execs[a.run][a.target].status
  BY ArtifactLogged
<1>2. Terminal(first.execs[a.run][a.target]) => first.execs[a.run][a.target].status = a.status
  <2>1. "pending" \notin TerminalStatus /\ "none" \notin TerminalStatus
    BY DEF TerminalStatus
  <2> QED BY <1>1, <2>1 DEF Terminal, Reflects
<1> QED BY <1>2 DEF IngestExecution, Accepted, Terminal

\* A run adds up to the same status at both ends.
LEMMA SummaryAccepted ==
  ASSUME NEW c \in History, NEW w \in Store, NEW n, Numbered(w, n), AddsUp(w),
         Reflects(w, n, c), Closed(w, c),
         NEW a, WellFormed(a), Truthful(w, n, a), a.kind \in {"run", "execution"},
         NEW second,
         second.runs[a.run] = IF c.runs[a.run] = "none" THEN "running" ELSE c.runs[a.run],
         \A t \in a.runRecord.targets :
            /\ Terminal(c.execs[a.run][t]) => Terminal(second.execs[a.run][t])
            /\ Terminal(second.execs[a.run][t]) =>
                  second.execs[a.run][t].status = w.execs[a.run][t].status
  PROVE  Summarise(second, a).answer = "accepted"
<1> DEFINE statuses == {second.execs[a.run][t].status : t \in a.runRecord.targets}
           expected == IF statuses = {"succeeded"} THEN "succeeded"
                       ELSE IF "succeeded" \in statuses THEN "partial" ELSE "failed"
           claimed == a.runRecord.status
<1>1. /\ a.run \in RunId /\ w.runs[a.run] # NoRun
      /\ a.runRecord.targets = w.runs[a.run].targets /\ a.runRecord.targets # {}
      /\ claimed \in FinalRunStatus \cup {"running"}
      /\ claimed \in FinalRunStatus => claimed = w.runs[a.run].status
  BY ArtifactLogged
<1>2. second.runs[a.run] \in {"running"} \cup FinalRunStatus
  BY <1>1 DEF History
<1>3. second.runs[a.run] \in FinalRunStatus =>
        /\ second.runs[a.run] = w.runs[a.run].status
        /\ \A t \in a.runRecord.targets : Terminal(second.execs[a.run][t])
  <2>1. second.runs[a.run] \in FinalRunStatus => second.runs[a.run] = c.runs[a.run]
    BY DEF FinalRunStatus
  <2> QED BY <1>1, <2>1 DEF Reflects, Closed
<1>4. Summarise(second, a).answer =
        IF claimed = "running" THEN "accepted"
        ELSE IF ~(statuses \subseteq TerminalStatus)
             THEN IF second.runs[a.run] = "running" THEN "accepted" ELSE "invalid"
        ELSE IF claimed # expected \/ second.runs[a.run] \notin {"running", claimed}
             THEN "invalid"
        ELSE "accepted"
  BY DEF Summarise, Accepted, Refused
<1>5. CASE ~(statuses \subseteq TerminalStatus)
  <2>1. second.runs[a.run] \notin FinalRunStatus
    BY <1>3, <1>5 DEF Terminal
  <2>2. second.runs[a.run] = "running"
    BY <1>2, <2>1
  <2> HIDE DEF statuses, expected, claimed
  <2> QED BY <1>4, <1>5, <2>2
<1>6. CASE statuses \subseteq TerminalStatus /\ claimed \in FinalRunStatus
  <2>1. \A t \in a.runRecord.targets : second.execs[a.run][t].status = w.execs[a.run][t].status
    BY <1>6 DEF Terminal
  <2> DEFINE won == {t \in w.runs[a.run].targets : w.execs[a.run][t].status = "succeeded"}
  <2>2. statuses = {"succeeded"} <=> won = w.runs[a.run].targets
    <3>1. statuses = {w.execs[a.run][t].status : t \in w.runs[a.run].targets}
      BY <1>1, <2>1
    <3>2. ASSUME statuses = {"succeeded"} PROVE won = w.runs[a.run].targets
      <4>1. \A t \in w.runs[a.run].targets : w.execs[a.run][t].status = "succeeded"
        BY <3>1, <3>2, Zenon
      <4> QED BY <4>1
    <3>3. ASSUME won = w.runs[a.run].targets PROVE statuses = {"succeeded"}
      <4>1. \A t \in w.runs[a.run].targets : w.execs[a.run][t].status = "succeeded"
        BY <3>3
      <4>2. w.runs[a.run].targets # {}
        BY <1>1
      <4>3. \A x \in statuses : x = "succeeded"
        BY <3>1, <4>1, Zenon
      <4>4. "succeeded" \in statuses
        BY <3>1, <4>1, <4>2
      <4> HIDE DEF statuses
      <4> QED BY <4>3, <4>4
    <3> QED BY <3>2, <3>3, Zenon
  <2>3. "succeeded" \in statuses <=> won # {}
    BY <1>1, <2>1
  <2>4. w.runs[a.run].status = FinalStatus(w, a.run)
    BY <1>1, <1>6 DEF AddsUp, RunAddsUp
  <2>5. FinalStatus(w, a.run) = expected
    <3>1. FinalStatus(w, a.run) = IF won = w.runs[a.run].targets THEN "succeeded"
                                  ELSE IF won # {} THEN "partial" ELSE "failed"
      BY DEF FinalStatus
    <3> HIDE DEF won, statuses
    <3> QED BY <2>2, <2>3, <3>1
  <2>6. second.runs[a.run] \in {"running", claimed}
    BY <1>1, <1>2, <1>3, <1>6
  <2>7. claimed = expected
    BY <1>1, <1>6, <2>4, <2>5
  <2> HIDE DEF statuses, expected, claimed
  <2> QED BY <1>4, <1>6, <2>6, <2>7
<1> HIDE DEF statuses, expected, claimed
<1> QED BY <1>1, <1>4, <1>5, <1>6

\* Nothing an Agent sends is refused: each of the refusals would need a record that no
\* run of the Agent ever had.
LEMMA UploadAccepted ==
  ASSUME NEW c, CenterInv(c), NEW w \in Store, NEW n, Numbered(w, n), AddsUp(w),
         Reflects(w, n, c), Closed(w, c), NEW a, WellFormed(a), a.kind # "none",
         Truthful(w, n, a),
         a.kind = "gap" => \A x \in c.gaps[a.target] : x.id = a.run => x.first = a.gap.first,
         a.kind = "execution" /\ ~Terminal(a) => ~Terminal(c.execs[a.run][a.target])
  PROVE  UploadProbeArtifact(c, a).answer \in {"accepted", "obsolete", "busy"}
<1> DEFINE result == UploadProbeArtifact(c, a)
           run == IngestRun(c, a)
           execution == IF run.answer = "accepted" /\ a.kind = "execution"
                        THEN IngestExecution(run.store, a) ELSE run
           summary == IF execution.answer = "accepted" THEN Summarise(execution.store, a)
                                                       ELSE execution
<1>1. c \in History /\ a.kind \in {"run", "execution", "gap"}
  BY DEF CenterInv, WellFormed, ArtifactRecord
<1>2. result = IF SentGen(a) # c.gen THEN Refused(c, "obsolete")
               ELSE IF c.pending # 0 THEN Refused(c, "busy")
               ELSE IF a.kind = "gap" THEN IngestGap(c, a.target, a.gap)
               ELSE IF summary.answer # "accepted" THEN Refused(c, summary.answer)
               ELSE IF a.kind = "execution" THEN Accepted(Advance(summary.store, a.target))
               ELSE summary
  BY DEF UploadProbeArtifact, SentGen
<1>3. a.kind = "gap" => IngestGap(c, a.target, a.gap).answer = "accepted"
  <2>1. a.kind = "gap" => a.gap.id = a.run
    BY DEF WellFormed
  <2>2. a.kind = "gap" => ~ \E old \in {x \in c.gaps[a.target] : x.id = a.gap.id} :
                                old.first # a.gap.first
    BY <2>1
  <2> QED BY <2>2 DEF IngestGap, Accepted
<1>4. CASE SentGen(a) = c.gen /\ a.kind \in {"run", "execution"}
  <2> DEFINE first == run.store
             second == execution.store
  <2>1. /\ a.run \in RunId /\ a.runRecord.targets \in SUBSET Targets
        /\ a.kind = "execution" =>
             /\ a.target \in a.runRecord.targets
             /\ Terminal(a) => a.status = w.execs[a.run][a.target].status
    BY <1>4, ArtifactLogged
  <2>2. run.answer = "accepted"
    BY <1>4, RunAccepted DEF SentGen
  <2>3. /\ CenterInv(first) /\ Grows(c, first)
        /\ first.runs[a.run] = IF c.runs[a.run] = "none" THEN "running" ELSE c.runs[a.run]
        /\ \A t \in Targets : first.execs[a.run][t] =
              IF t \in a.runRecord.targets /\ c.execs[a.run][t].status = "none"
              THEN [status |-> "pending", seq |-> a.manifest[t]]
              ELSE c.execs[a.run][t]
    BY <1>4, <2>2, RunStored
  <2> HIDE DEF run, first
  <2>4. ASSUME NEW t \in a.runRecord.targets
        PROVE  /\ \/ first.execs[a.run][t] = c.execs[a.run][t]
                  \/ first.execs[a.run][t].status = "pending"
               /\ first.execs[a.run][t].status # "none"
    <3>1. first.execs[a.run][t] = IF c.execs[a.run][t].status = "none"
                                  THEN [status |-> "pending", seq |-> a.manifest[t]]
                                  ELSE c.execs[a.run][t]
      BY <2>1, <2>3
    <3> QED BY <3>1
  <2>5. /\ execution.answer = "accepted" /\ second.runs = first.runs
        /\ \A t \in a.runRecord.targets :
             /\ Terminal(first.execs[a.run][t]) => second.execs[a.run][t] = first.execs[a.run][t]
             /\ \/ second.execs[a.run][t] = first.execs[a.run][t]
                \/ /\ a.kind = "execution" /\ t = a.target
                   /\ second.execs[a.run][t].status = a.status
    <3>1. CASE a.kind = "execution"
      <4>1. execution = IngestExecution(first, a)
        BY <2>2, <3>1 DEF first
      <4>2. IngestExecution(first, a).answer = "accepted"
        BY <2>1, <2>4, <3>1, ExecutionAccepted, Zenon
      <4>3. first.execs[a.run][a.target].status # "none"
        BY <2>1, <2>4, <3>1
      <4>4. second = IngestExecution(first, a).store
        BY <4>1
      <4> HIDE DEF execution, second
      <4>5. /\ Grows(first, second) /\ second.runs = first.runs
            /\ \A r \in RunId, t \in Targets : r # a.run \/ t # a.target =>
                  second.execs[r][t] = first.execs[r][t]
            /\ second.execs[a.run][a.target].status = a.status
        BY <2>3, <3>1, <4>2, <4>3, <4>4, ExecutionStored
      <4>6. ASSUME NEW t \in a.runRecord.targets
            PROVE  /\ Terminal(first.execs[a.run][t]) =>
                         second.execs[a.run][t] = first.execs[a.run][t]
                   /\ \/ second.execs[a.run][t] = first.execs[a.run][t]
                      \/ t = a.target /\ second.execs[a.run][t].status = a.status
        BY <2>1, <4>5 DEF Grows
      <4> QED BY <3>1, <4>1, <4>2, <4>5, <4>6
    <3>2. CASE a.kind = "run"
      <4>1. execution = run /\ second = first
        BY <3>2 DEF first
      <4> HIDE DEF execution, second
      <4> QED BY <2>2, <4>1
    <3> QED BY <1>4, <3>1, <3>2
  <2> HIDE DEF execution, second
  <2>6. ASSUME NEW t \in a.runRecord.targets
        PROVE  /\ Terminal(c.execs[a.run][t]) => Terminal(second.execs[a.run][t])
               /\ Terminal(second.execs[a.run][t]) =>
                     second.execs[a.run][t].status = w.execs[a.run][t].status
    <3>1. Terminal(c.execs[a.run][t]) => first.execs[a.run][t] = c.execs[a.run][t]
      BY <2>1, <2>3 DEF Grows
    <3>2. Terminal(c.execs[a.run][t]) => Terminal(second.execs[a.run][t])
      BY <2>5, <3>1
    <3>3. Terminal(first.execs[a.run][t]) =>
             first.execs[a.run][t].status = w.execs[a.run][t].status
      <4>1. "pending" \notin TerminalStatus /\ "none" \notin TerminalStatus
        BY DEF TerminalStatus
      <4>2. w.runs[a.run] # NoRun /\ t \in Targets
        BY <1>4, <2>1, ArtifactLogged
      <4> QED BY <2>1, <2>4, <4>1, <4>2 DEF Terminal, Reflects
    <3>4. Terminal(second.execs[a.run][t]) =>
             second.execs[a.run][t].status = w.execs[a.run][t].status
      BY <2>1, <2>5, <3>3 DEF Terminal
    <3> QED BY <3>2, <3>4
  <2>7. second.runs[a.run] = IF c.runs[a.run] = "none" THEN "running" ELSE c.runs[a.run]
    BY <2>3, <2>5
  <2>8. Summarise(second, a).answer = "accepted"
    BY <1>1, <1>4, <2>6, <2>7, SummaryAccepted
  <2>9. summary = Summarise(second, a)
    BY <2>5 DEF second
  <2>10. summary.answer = "accepted"
    BY <2>8, <2>9
  <2> HIDE DEF summary
  <2> QED BY <1>2, <1>4, <2>10 DEF Refused, Accepted, summary, execution, run
<1> HIDE DEF result, summary
<1>5. CASE SentGen(a) # c.gen \/ a.kind = "gap"
  <2>1. \/ result = Refused(c, "obsolete")
        \/ result = Refused(c, "busy")
        \/ a.kind = "gap" /\ result = IngestGap(c, a.target, a.gap)
    BY <1>2, <1>5
  <2> QED BY <1>3, <2>1 DEF Refused, result
<1> QED BY <1>1, <1>4, <1>5 DEF result

-----------------------------------------------------------------------------
(* Nothing the Agent sends is refused                                      *)

Unrefused == answer \notin {"invalid", "error"}

DeliveredInv ==
    /\ HistoryInv /\ StoreInv /\ GapsAgree /\ NotOvertaken /\ HistoryLogged /\ Unrefused

\* A step of the Agent.
LEMMA AgentDelivers ==
  ASSUME DeliveredInv, [Next]_vars, ~\E x \in files : LoseResultFile(x),
         UNCHANGED centerVars, late' \in {late, sent},
         answer' \in {"none", answer}, ~(db'.gen > center.gen), sent' = sent => late' = late
  PROVE  DeliveredInv'
<1>1. HistoryInv /\ StoreInv /\ GapsAgree /\ NotOvertaken /\ HistoryLogged /\ Unrefused
  BY DEF DeliveredInv
<1>2. HistoryInv'
  BY <1>1, AgentSide
<1>3. StoreInv'
  BY <1>1, StoreStep DEF HistoryInv
<1>4. GapsAgree'
  BY <1>1, AgentGaps
<1>5. NotOvertaken'
  BY <1>1, AgentOvertakes
<1>6. HistoryLogged'
  BY <1>1, <1>2, <1>3, AgentLogs
<1>7. Unrefused'
  BY <1>1 DEF Unrefused
<1> QED BY <1>2, <1>3, <1>4, <1>5, <1>6, <1>7 DEF DeliveredInv

\* The Center takes an artifact in, and accepts the one that is waited for.
LEMMA UploadDelivers ==
  ASSUME DeliveredInv, NEW a \in {sent, late}, a # NoArtifact, HistoryFree,
         center' = UploadProbeArtifact(center, a).store, UNCHANGED <<agentVars, resetting>>,
         \/ answer' = answer /\ late' = NoArtifact
         \/ a = sent /\ answer' = UploadProbeArtifact(center, a).answer /\ late' = late
  PROVE  DeliveredInv'
<1>0. HistoryInv /\ StoreInv /\ GapsAgree /\ NotOvertaken /\ HistoryLogged /\ Unrefused
  BY DEF DeliveredInv
<1>1. /\ WellFormed(a) /\ WellFormed(sent) /\ CenterInv(center) /\ center \in History
      /\ UNCHANGED vars /\ sent' = sent /\ late' \in {late, NoArtifact}
  BY <1>0 DEF HistoryInv, FlightInv, CenterInv, agentVars, vars
<1>2. a.kind \in {"run", "execution", "gap"} /\ a.run \in RunId
  BY <1>1 DEF WellFormed, ArtifactRecord
<1>3. HistoryInv'
  BY <1>0, UploadSide
<1>4. StoreInv'
  BY <1>0, <1>1 DEF StoreInv, vars
<1>5. /\ GapsFrom(center, center', a) /\ RowsFrom(center, center', a)
      /\ a.kind = "gap" => center'.execs = center.execs
  BY <1>1, <1>2, UploadFacts
<1>6. GapsAgree'
  <2>1. ASSUME NEW t \in Targets, NEW x \in center'.gaps[t] PROVE GapName(t, x.id, x.first)
    <3>1. CASE \E y \in center.gaps[t] : y.id = x.id /\ y.first = x.first
      BY <3>1 DEF GapName
    <3>2. CASE a.kind = "gap" /\ t = a.target /\ x.id = a.run /\ x.first = a.gap.first
      BY <3>2 DEF GapName
    <3> QED BY <1>5, <3>1, <3>2 DEF GapsFrom
  <2> QED BY <1>0, <1>1, <2>1, CenterGaps
<1>7. NotOvertaken'
  <2>1. ASSUME NEW r \in RunId, NEW t \in Targets, Terminal(center'.execs[r][t])
        PROVE  \/ Terminal(center.execs[r][t])
               \/ \E b \in {sent, late} : /\ b.kind = "execution" /\ b.run = r /\ b.target = t
                                          /\ Terminal(b)
    <3>1. CASE center'.execs[r][t] = center.execs[r][t]
      BY <2>1, <3>1
    <3>2. CASE center'.execs[r][t] # center.execs[r][t]
      <4>1. r = a.run
        BY <1>5, <3>2 DEF RowsFrom
      <4>2. \/ center'.execs[r][t].status = "pending"
            \/ a.kind = "execution" /\ t = a.target /\ center'.execs[r][t].status = a.status
        BY <1>5, <3>2, <4>1 DEF RowsFrom
      <4>3. "pending" \notin TerminalStatus
        BY DEF TerminalStatus
      <4>4. a.kind = "execution" /\ t = a.target /\ Terminal(a)
        BY <2>1, <4>2, <4>3 DEF Terminal
      <4> QED BY <4>1, <4>4
    <3> QED BY <3>1, <3>2
  <2> QED BY <1>0, <1>1, <2>1, CenterOvertakes
<1>8. HistoryLogged'
  BY <1>0, <1>1, UploadLogs
<1>9. Unrefused'
  <2>1. CASE answer' = answer
    BY <1>0, <2>1 DEF Unrefused
  <2>2. CASE a = sent /\ answer' = UploadProbeArtifact(center, a).answer
    <3>1. PICK w \in Store : Logged(w, db, issued, center, sent, late)
      BY <1>0 DEF HistoryLogged
    <3>2. /\ Numbered(w, issued) /\ AddsUp(w) /\ Reflects(w, issued, center)
          /\ Closed(w, center) /\ Truthful(w, issued, a)
      BY <2>2, <3>1 DEF Logged, IsLog
    <3>3. ASSUME a.kind = "gap", NEW x \in center.gaps[a.target], x.id = a.run
          PROVE  x.first = a.gap.first
      <4>1. a.target \in Targets
        BY <1>1, <3>3 DEF WellFormed
      <4>2. GapName(a.target, a.run, a.gap.first)
        BY <3>3 DEF GapName
      <4>3. GapName(a.target, a.run, x.first)
        BY <3>3 DEF GapName
      <4> QED BY <1>0, <1>2, <4>1, <4>2, <4>3 DEF GapsAgree
    <3>4. a.kind = "execution" /\ ~Terminal(a) => ~Terminal(center.execs[a.run][a.target])
      BY <1>0, <2>2 DEF NotOvertaken
    <3>5. a.kind # "none"
      BY <1>2
    <3>6. UploadProbeArtifact(center, a).answer \in {"accepted", "obsolete", "busy"}
      BY <1>1, <3>2, <3>3, <3>4, <3>5, UploadAccepted
    <3> QED BY <2>2, <3>6 DEF Unrefused
  <2> QED BY <2>1, <2>2
<1> QED BY <1>3, <1>4, <1>6, <1>7, <1>8, <1>9 DEF DeliveredInv

\* The commits of ResetHistory.
LEMMA ResetDelivers ==
  ASSUME DeliveredInv, Reset
  PROVE  DeliveredInv'
<1>0. HistoryInv /\ StoreInv /\ GapsAgree /\ NotOvertaken /\ HistoryLogged /\ Unrefused
  BY DEF DeliveredInv
<1>1. /\ UNCHANGED vars /\ UNCHANGED networkVars
      /\ \A t \in Targets : center'.gaps[t] \subseteq center.gaps[t]
      /\ \/ center'.execs = center.execs
         \/ \A r \in RunId, t \in Targets : center'.execs[r][t].status = "none"
  BY <1>0, ResetRows
<1>2. sent' = sent /\ late' = late /\ answer' = answer /\ WellFormed(sent)
  BY <1>0, <1>1 DEF vars, networkVars, HistoryInv, FlightInv
<1>3. StoreInv'
  BY <1>0, <1>1 DEF StoreInv, vars
<1>4. GapsAgree'
  <2>1. \A t \in Targets : \A x \in center'.gaps[t] : GapName(t, x.id, x.first)
    BY <1>1 DEF GapName
  <2> QED BY <1>0, <1>1, <1>2, <2>1, CenterGaps
<1>5. NotOvertaken'
  <2>1. \A r \in RunId, t \in Targets :
          Terminal(center'.execs[r][t]) => Terminal(center.execs[r][t])
    <3>1. "none" \notin TerminalStatus
      BY DEF TerminalStatus
    <3> QED BY <1>1, <3>1 DEF Terminal
  <2> QED BY <1>0, <1>2, <2>1, CenterOvertakes
<1>6. HistoryInv' /\ HistoryLogged'
  BY <1>0, ResetSide, ResetLogs
<1>7. Unrefused'
  BY <1>0, <1>2 DEF Unrefused
<1> QED BY <1>3, <1>4, <1>5, <1>6, <1>7 DEF DeliveredInv

\* Each step of the Agent, of the Center and of the network keeps DeliveredInv.
LEMMA DeliveredStep ==
  ASSUME DeliveredInv, DeliveryNext, ~DiskFault
  PROVE  DeliveredInv'
<1>0. ProbeInv /\ db \in Store /\ ~(db.gen > center.gen) /\ HistoryInv
  BY DEF DeliveredInv, HistoryInv, ProbeInv, TypeInv, TypeOK, ResetInv
<1>a. ~\E x \in files : LoseResultFile(x)
  BY DEF DiskFault
<1>1. CASE AgentStep
  <2>1. Local /\ Network /\ UNCHANGED centerVars /\ [Next]_vars
    BY <1>1 DEF AgentStep, Next
  <2>2. /\ late' \in {late, sent} /\ answer' \in {"none", answer}
        /\ sent' = sent => late' = late
    BY <2>1 DEF Network, networkVars
  <2>3. ~(db'.gen > center.gen)
    BY <1>0, <2>1, GenerationStep
  <2> QED BY <1>a, <2>1, <2>2, <2>3, AgentDelivers
<1>2. CASE ReceiveConfiguration
  <2>1. PICK g \in Generation : db.gen < g /\ g <= center.gen /\ ApplyConfiguration(g)
    BY <1>2 DEF ReceiveConfiguration
  <2>2. g \in Nat /\ db.gen \in Nat /\ center.gen \in Nat
    BY <1>0, Fields, BoundAssumption DEF Generation, HistoryInv, CenterInv, History
  <2>3. [Next]_vars
    BY <2>1, <2>2 DEF Next
  <2>4. db'.gen = g
    BY <1>0, <2>1, Zenon DEF ApplyConfiguration, ChangeGeneration, Store
  <2>5. UNCHANGED centerVars /\ late' = late /\ answer' = answer
    BY <1>2 DEF ReceiveConfiguration, networkVars
  <2>6. ~(db'.gen > center.gen)
    BY <2>1, <2>2, <2>4
  <2> QED BY <1>a, <2>3, <2>5, <2>6, AgentDelivers
<1>3. CASE ReceiveAnswer
  <2>1. /\ UploadRefused \/ AcknowledgeProbeArtifact
        /\ UNCHANGED centerVars /\ late' = late /\ answer' = "none"
    BY <1>3 DEF ReceiveAnswer
  <2>2. [Next]_vars
    BY <2>1 DEF Next
  <2>3. ~(db'.gen > center.gen)
    BY <1>0, <2>1, GenerationStep
  <2> QED BY <1>a, <2>1, <2>2, <2>3, AgentDelivers
<1>4. CASE Reinstall
  BY <1>4 DEF DiskFault
<1>5. CASE AnswerRequest
  BY <1>5, UploadDelivers DEF AnswerRequest
<1>6. CASE AnswerLateRequest
  BY <1>6, UploadDelivers DEF AnswerLateRequest
<1>7. CASE Reset
  BY <1>7, ResetDelivers
<1> QED BY <1>1, <1>2, <1>3, <1>4, <1>5, <1>6, <1>7 DEF DeliveryNext, Answer

\* So does a step of which they do not see anything.
LEMMA DeliveredStutter ==
  ASSUME DeliveredInv, UNCHANGED deliveryVars
  PROVE  DeliveredInv'
<1>1. UNCHANGED vars /\ UNCHANGED centerVars /\ UNCHANGED networkVars
  BY DEF deliveryVars
<1>2. db' = db /\ files' = files
  BY <1>1 DEF vars
<1>3. late' = late /\ answer' = answer
  BY <1>1 DEF networkVars
<1>4. ~(db'.gen > center.gen)
  BY <1>2 DEF DeliveredInv, HistoryInv, ResetInv
<1>5. ~\E x \in files : LoseResultFile(x)
  BY <1>2 DEF LoseResultFile
<1> QED BY <1>1, <1>3, <1>4, <1>5, AgentDelivers

\* An Agent that never uploaded, and a Center that has nothing of it.
LEMMA DeliveredStart ==
  ASSUME DeliveryInit
  PROVE  DeliveredInv
<1>1. HistoryInv /\ HistoryLogged /\ StoreInv
  BY HistoryStart, StartLogged, StoreStart DEF DeliveryInit
<1>2. /\ sent.kind = "none" /\ late.kind = "none" /\ answer = "none"
      /\ \A t \in Targets : db.gaps[t].id = 0 /\ center.gaps[t] = {}
  BY DEF DeliveryInit, Init, EmptyStore, EmptyHistory, NoArtifact, NoGap
<1>3. GapsAgree
  BY <1>2 DEF GapsAgree, GapName
<1>4. NotOvertaken /\ Unrefused
  BY <1>2 DEF NotOvertaken, Unrefused
<1> QED BY <1>1, <1>3, <1>4 DEF DeliveredInv

\* Until the disk of the Agent loses a result or is replaced, the Center never calls
\* what the Agent sends invalid and never fails to store it.
THEOREM UploadsAccepted == UploadSpec => []NeverRefused
<1> DEFINE Inv == intact => DeliveredInv
<1>1. UploadInit => Inv
  BY DeliveredStart DEF UploadInit
<1>2. Inv /\ [UploadNext]_uploadVars => Inv'
  <2> SUFFICES ASSUME Inv, [UploadNext]_uploadVars, intact'
               PROVE  DeliveredInv'
    OBVIOUS
  <2>1. CASE UploadNext
    BY <2>1, DeliveredStep, Zenon DEF UploadNext
  <2>2. CASE UNCHANGED uploadVars
    BY <2>2, DeliveredStutter DEF uploadVars
  <2> QED BY <2>1, <2>2
<1>3. Inv => NeverRefused
  BY DEF DeliveredInv, Unrefused, NeverRefused
<1> QED BY <1>1, <1>2, <1>3, PTL DEF UploadSpec
=============================================================================
