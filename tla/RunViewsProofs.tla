--------------------------- MODULE RunViewsProofs ---------------------------
(***************************************************************************)
(* What the views of the run records show, for every set of agents and     *)
(* cells, every bound on what the kernel writes and every size of the      *)
(* feed's page.                                                            *)
(*                                                                         *)
(* Each reader is a pure function of the document, so the proofs are of    *)
(* two kinds.  An invariant says which documents the kernel writes:        *)
(* RecordsInv, of the records of the runs, and LineageInv, of the forks    *)
(* in the log.  The rest shows, of any such document, what a reader makes  *)
(* of it.  That needs facts about orders and sizes of finite sets, which   *)
(* come first; they replace induction by the least counterexample          *)
(* (LeastExists).                                                          *)
(***************************************************************************)
EXTENDS RunViews, FiniteSetTheorems, WellFoundedInduction, TLAPS

-----------------------------------------------------------------------------
(* Orders and counting.                                                    *)

\* A nonempty set of naturals has a least member.
LEMMA LeastExists ==
  ASSUME NEW S, S \subseteq Nat, NEW x \in S
  PROVE  \E m \in S : \A n \in S : m <= n
<1>1. IsWellFoundedOn(OpToRel(<, Nat), Nat)
  BY NatLessThanWellFounded, Zenon
<1>2. PICK m \in S : \A n \in S : ~(<<n, m>> \in OpToRel(<, Nat))
  BY <1>1, WFMin, Zenon
<1>3. \A n \in S : ~(n < m)
  <2>. SUFFICES ASSUME NEW n \in S, n < m PROVE FALSE
    BY Zenon
  <2>1. <<n, m>> \in Nat \X Nat /\ <<n, m>>[1] = n /\ <<n, m>>[2] = m
    OBVIOUS
  <2>2. <<n, m>> \in OpToRel(<, Nat)
    BY <2>1, Zenon DEF OpToRel
  <2>. QED
    BY <1>2, <2>2, Zenon
<1>. QED
  BY <1>3

\* Two finite sets in one-to-one correspondence have as many members.
LEMMA SameSize ==
  ASSUME NEW S, NEW T, IsFiniteSet(S), NEW f \in [S -> T],
         \A x, y \in S : f[x] = f[y] => x = y,
         \A t \in T : \E x \in S : f[x] = t
  PROVE  IsFiniteSet(T) /\ Cardinality(T) = Cardinality(S)
<1>1. f \in Bijection(S, T)
  BY Zenon DEF Bijection, Injection, Surjection, IsInjective
<1>2. ExistsBijection(S, T)
  BY <1>1, Zenon DEF ExistsBijection
<1>. QED
  BY <1>2, FS_Bijection

\* R orders S.
Orders(R, S) ==
  /\ \A x \in S : <<x, x>> \notin R
  /\ \A x, y, z \in S : <<x, y>> \in R /\ <<y, z>> \in R => <<x, z>> \in R
  /\ \A x, y \in S : x = y \/ <<x, y>> \in R \/ <<y, x>> \in R

Below(S, R, x) == {y \in S : <<y, x>> \in R}

\* The members of S by rank; SortedBy, with the order as a set of pairs.
Ranked(S, rank) == [k \in 1 .. Cardinality(S) |-> CHOOSE x \in S : rank[x] = k - 1]

RankSeq(S, R) == Ranked(S, [x \in S |-> Cardinality(Below(S, R, x))])

\* Only the ranks of the members matter.
LEMMA RankIs ==
  ASSUME NEW S, NEW R, NEW rank, \A x \in S : rank[x] = Cardinality(Below(S, R, x))
  PROVE  Ranked(S, rank) = RankSeq(S, R)
<1>. DEFINE rank2 == [x \in S |-> Cardinality(Below(S, R, x))]
<1>1. \A x \in S : rank[x] = rank2[x]
  OBVIOUS
<1>. HIDE DEF rank2
<1>2. ASSUME NEW k PROVE (CHOOSE x \in S : rank[x] = k - 1) = (CHOOSE x \in S : rank2[x] = k - 1)
  BY <1>1
<1>3. Ranked(S, rank) = Ranked(S, rank2)
  BY <1>2 DEF Ranked
<1>. QED
  BY <1>3 DEF RankSeq, rank2

\* Sorting puts every member in one place, in the order it sorts by.
LEMMA SortFacts ==
  ASSUME NEW S, NEW R, IsFiniteSet(S), Orders(R, S)
  PROVE  /\ Cardinality(S) \in Nat
         /\ RankSeq(S, R) \in [1 .. Cardinality(S) -> S]
         /\ \A k, m \in 1 .. Cardinality(S) :
              k < m => <<RankSeq(S, R)[k], RankSeq(S, R)[m]>> \in R
         /\ \A k, m \in 1 .. Cardinality(S) :
              RankSeq(S, R)[k] = RankSeq(S, R)[m] => k = m
         /\ \A x \in S : \E k \in 1 .. Cardinality(S) : RankSeq(S, R)[k] = x
<1>. DEFINE n == Cardinality(S)
            rank == [x \in S |-> Cardinality(Below(S, R, x))]
            q == RankSeq(S, R)
<1>1. n \in Nat
  BY FS_CardinalityType
<1>2. ASSUME NEW x \in S
      PROVE  IsFiniteSet(Below(S, R, x)) /\ rank[x] \in Nat /\ rank[x] < n
  <2>1. Below(S, R, x) \in SUBSET S /\ Below(S, R, x) # S
    BY DEF Below, Orders
  <2>2. /\ IsFiniteSet(Below(S, R, x)) /\ Cardinality(Below(S, R, x)) <= n
        /\ Cardinality(Below(S, R, x)) # n
    BY <2>1, FS_Subset
  <2>3. Cardinality(Below(S, R, x)) \in Nat
    BY <2>2, FS_CardinalityType
  <2>. QED
    BY <1>1, <2>2, <2>3
<1>3. ASSUME NEW x \in S, NEW y \in S, <<x, y>> \in R PROVE rank[x] < rank[y]
  <2>1. Below(S, R, x) \in SUBSET Below(S, R, y)
    BY <1>3 DEF Below, Orders
  <2>2. x \in Below(S, R, y) /\ x \notin Below(S, R, x)
    BY <1>3 DEF Below, Orders
  <2>3. /\ Cardinality(Below(S, R, x)) <= Cardinality(Below(S, R, y))
        /\ Cardinality(Below(S, R, x)) # Cardinality(Below(S, R, y))
    BY <1>2, <2>1, <2>2, FS_Subset
  <2>. QED
    BY <1>2, <2>3
<1>4. \A x, y \in S : rank[x] = rank[y] => x = y
  <2>. SUFFICES ASSUME NEW x \in S, NEW y \in S, rank[x] = rank[y], x # y PROVE FALSE
    OBVIOUS
  <2>1. <<x, y>> \in R \/ <<y, x>> \in R
    BY DEF Orders
  <2>2. rank[x] < rank[y] \/ rank[y] < rank[x]
    BY <1>3, <2>1
  <2>3. rank[x] \in Nat /\ rank[y] \in Nat
    BY <1>2
  <2>. QED
    BY <2>2, <2>3
<1>. HIDE DEF n, q
<1>5. rank \in [S -> 0 .. n - 1]
  BY <1>1, <1>2
<1>6. \A k \in 0 .. n - 1 : \E x \in S : rank[x] = k
  <2>. HIDE DEF rank
  <2>1. IsFiniteSet(0 .. n - 1) /\ Cardinality(0 .. n - 1) = n
    BY <1>1, FS_Interval
  <2>2. rank \in Injection(S, 0 .. n - 1)
    BY <1>4, <1>5 DEF Injection, IsInjective
  <2>3. rank \in Surjection(S, 0 .. n - 1)
    BY <2>1, <2>2, FS_Injection DEF n
  <2>. QED
    BY <2>3 DEF Surjection
<1>7. ASSUME NEW k \in 1 .. n PROVE q[k] \in S /\ rank[q[k]] = k - 1
  <2>1. k - 1 \in 0 .. n - 1
    BY <1>1
  <2>2. \E x \in S : rank[x] = k - 1
    BY <1>6, <2>1
  <2>3. q[k] = CHOOSE x \in S : rank[x] = k - 1
    BY DEF q, RankSeq, Ranked, n
  <2>. QED
    BY <2>2, <2>3
<1>. HIDE DEF rank
<1>8. q \in [1 .. n -> S]
  <2>1. q = [k \in 1 .. n |-> q[k]]
    BY DEF q, RankSeq, Ranked, n
  <2>. QED
    BY <2>1, <1>7
<1>9. ASSUME NEW k \in 1 .. n, NEW m \in 1 .. n, k < m PROVE <<q[k], q[m]>> \in R
  <2>1. rank[q[k]] < rank[q[m]] /\ q[k] \in S /\ q[m] \in S
        /\ rank[q[k]] \in Int /\ rank[q[m]] \in Int
    BY <1>7, <1>9
  <2>2. q[k] # q[m] /\ <<q[m], q[k]>> \notin R
    <3>1. <<q[m], q[k]>> \in R => rank[q[m]] < rank[q[k]]
      BY <1>3, <2>1
    <3>. QED
      BY <2>1, <3>1
  <2>. QED
    BY <2>1, <2>2 DEF Orders
<1>10. \A k, m \in 1 .. n : q[k] = q[m] => k = m
  <2>. SUFFICES ASSUME NEW k \in 1 .. n, NEW m \in 1 .. n, q[k] = q[m] PROVE k = m
    OBVIOUS
  <2>1. k - 1 = m - 1
    BY <1>7
  <2>. QED
    BY <2>1
<1>11. ASSUME NEW x \in S PROVE \E k \in 1 .. n : q[k] = x
  <2>1. rank[x] \in 0 .. n - 1
    BY <1>5
  <2>2. rank[x] + 1 \in 1 .. n /\ (rank[x] + 1) - 1 = rank[x]
    BY <1>1, <2>1
  <2>3. q[rank[x] + 1] \in S /\ rank[q[rank[x] + 1]] = rank[x]
    BY <1>7, <2>2
  <2>4. q[rank[x] + 1] = x
    BY <1>4, <2>3
  <2>. QED
    BY <2>2, <2>4
<1>. QED
  BY <1>1, <1>8, <1>9, <1>10, <1>11 DEF n, q

-----------------------------------------------------------------------------
(* The records of the runs.                                                *)

FrameRecord ==
  [run : Nat, cell : Cells \cup {""}, agent : Agents,
   status : EndStatuses \cup {"running"},
   start : Nat \ {0}, end : Nat]

\* One record: it names a run with a start record under its own key, which it
\* agrees with; that run is live exactly when ...
RecordOK(fs, alive, clock, i) ==
  /\ fs[i].run \in 1 .. i /\ fs[i].start <= clock
  /\ fs[fs[i].run].run = fs[i].run
  /\ fs[i].cell = fs[fs[i].run].cell /\ fs[i].start = fs[fs[i].run].start
  /\ fs[i].status = "running" => fs[i].end = 0
  /\ fs[i].run \in alive => i = fs[i].run /\ fs[i].status = "running"
  \* ... it has the one record: a run that is over has another if this one
  \* still says that it is running.
  /\ fs[i].run \notin alive /\ fs[i].status = "running" =>
       \E j \in 1 .. Len(fs) : fs[j].run = fs[i].run /\ isTerminal(fs[j])

\* The records fs of the runs of which those alive are running.
RecordsOK(fs, alive, clock) ==
  /\ fs \in Seq(FrameRecord)
  /\ \A r \in alive : r \in 1 .. Len(fs) /\ fs[r].run = r
  /\ \A i \in 1 .. Len(fs) : RecordOK(fs, alive, clock, i)

RecordsInv == writes \in Nat /\ RecordsOK(frames, live, now)

\* The clock never goes back.
LEMMA ClockFacts ==
  ASSUME NEW w \in Nat
  PROVE  1 + w \div 2 \in Nat \ {0} /\ 1 + w \div 2 <= 1 + (w + 1) \div 2
OBVIOUS

\* A record added at the end.
LEMMA AppendRecord ==
  ASSUME NEW fs \in Seq(FrameRecord), NEW f \in FrameRecord
  PROVE  /\ Append(fs, f) \in Seq(FrameRecord) /\ Len(fs) \in Nat
         /\ Len(Append(fs, f)) = Len(fs) + 1
         /\ \A i \in 1 .. Len(fs) : Append(fs, f)[i] = fs[i]
         /\ Append(fs, f)[Len(fs) + 1] = f
OBVIOUS

\* A record replaced.
LEMMA ReplaceRecord ==
  ASSUME NEW fs \in Seq(FrameRecord), NEW r \in 1 .. Len(fs), NEW f \in FrameRecord
  PROVE  /\ [fs EXCEPT ![r] = f] \in Seq(FrameRecord)
         /\ Len([fs EXCEPT ![r] = f]) = Len(fs) /\ Len(fs) \in Nat
         /\ \A i \in 1 .. Len(fs) : i # r => [fs EXCEPT ![r] = f][i] = fs[i]
         /\ [fs EXCEPT ![r] = f][r] = f
OBVIOUS

\* What the record of a run becomes at its end.
LEMMA EndedFacts ==
  ASSUME NEW f \in FrameRecord, NEW status \in EndStatuses, NEW stamped, writes \in Nat
  PROVE  /\ Ended(f, status, stamped) \in FrameRecord
         /\ Ended(f, status, stamped).run = f.run /\ Ended(f, status, stamped).cell = f.cell
         /\ Ended(f, status, stamped).start = f.start
         /\ Ended(f, status, stamped).agent = f.agent
         /\ Ended(f, status, stamped).status = status
         /\ Ended(f, status, stamped).end \in {0, now}
<1>. DEFINE t == IF stamped THEN now ELSE 0
<1>1. now \in Nat \ {0}
  BY ClockFacts DEF now
<1>2. t \in {0, now} /\ t \in Nat
  BY <1>1
<1>3. Ended(f, status, stamped) = [f EXCEPT !.status = status, !.end = t]
  BY DEF Ended
<1>. HIDE DEF t
<1>. QED
  BY <1>2, <1>3 DEF FrameRecord

\* The record of a run at its start.
LEMMA StartFacts ==
  ASSUME NEW run \in Nat, NEW c \in Cells \cup {""}, NEW a \in Agents, NEW t \in Nat \ {0}
  PROVE  Frame(run, c, a, "running", t, 0) \in FrameRecord
BY DEF Frame, FrameRecord

LEMMA SeqLength == ASSUME NEW S, NEW s \in Seq(S) PROVE Len(s) \in Nat /\ Len(s) + 1 \in Nat
OBVIOUS

\* The fields of a record.
LEMMA RecordFields ==
  ASSUME NEW f \in FrameRecord
  PROVE  /\ f.run \in Nat /\ f.cell \in Cells \cup {""} /\ f.agent \in Agents
         /\ f.status \in EndStatuses \cup {"running"}
         /\ f.start \in Nat \ {0} /\ f.end \in Nat
BY DEF FrameRecord

\* Records in order are records, started by then.
LEMMA RecordFacts ==
  ASSUME NEW fs, NEW alive, NEW clock \in Nat, NEW clock2 \in Nat,
         RecordsOK(fs, alive, clock), clock <= clock2, NEW i \in 1 .. Len(fs)
  PROVE  /\ fs[i] \in FrameRecord /\ RecordOK(fs, alive, clock, i) /\ Len(fs) \in Nat
         /\ fs[i].start \in Nat \ {0} /\ fs[i].start <= clock2
<1>1. fs[i] \in FrameRecord /\ RecordOK(fs, alive, clock, i) /\ Len(fs) \in Nat
  BY DEF RecordsOK
<1>2. fs[i].start \in Nat \ {0}
  BY <1>1, RecordFields
<1>3. fs[i].start <= clock
  BY <1>1 DEF RecordOK
<1>. QED
  BY <1>1, <1>2, <1>3

\* A run starts.
LEMMA StartRecords ==
  ASSUME NEW fs, NEW alive, NEW clock \in Nat, NEW clock2 \in Nat,
         RecordsOK(fs, alive, clock), clock <= clock2,
         NEW f \in FrameRecord, f.run = Len(fs) + 1, f.status = "running", f.end = 0,
         f.start = clock
  PROVE  RecordsOK(Append(fs, f), alive \cup {Len(fs) + 1}, clock2)
<1>. DEFINE gs == Append(fs, f)
            n == Len(fs)
<1>1. /\ gs \in Seq(FrameRecord) /\ n \in Nat /\ Len(gs) = n + 1
      /\ \A i \in 1 .. n : gs[i] = fs[i]
      /\ gs[n + 1] = f
  BY AppendRecord DEF RecordsOK
<1>. HIDE DEF gs, n
<1>2. \A r \in alive : r \in 1 .. n /\ fs[r].run = r
  BY DEF RecordsOK, n
<1>3. ASSUME NEW i \in 1 .. n PROVE RecordOK(gs, alive \cup {n + 1}, clock2, i)
  <2>1. RecordOK(fs, alive, clock, i) /\ fs \in Seq(FrameRecord)
    BY DEF RecordsOK, n
  <2>2. fs[i] \in FrameRecord
    BY <2>1 DEF n
  <2>3. fs[i].run \in 1 .. n /\ fs[i].run # n + 1
    BY <1>1, <2>1 DEF RecordOK
  <2>4. gs[i] = fs[i] /\ gs[fs[i].run] = fs[fs[i].run]
    BY <1>1, <2>3
  <2>5. fs[i].start <= clock2
    BY RecordFacts DEF n
  <2>6. \A j \in 1 .. Len(fs) : j \in 1 .. Len(gs) /\ gs[j] = fs[j]
    BY <1>1 DEF n
  <2>. QED
    BY <2>1, <2>3, <2>4, <2>5, <2>6 DEF RecordOK
<1>4. RecordOK(gs, alive \cup {n + 1}, clock2, n + 1)
  <2>1. f.run = n + 1 /\ n + 1 \in 1 .. n + 1
    BY <1>1 DEF n
  <2>. QED
    BY <1>1, <2>1 DEF RecordOK
<1>5. \A r \in alive \cup {n + 1} : r \in 1 .. Len(gs) /\ gs[r].run = r
  BY <1>1, <1>2 DEF n
<1>6. \A i \in 1 .. Len(gs) : i = n + 1 \/ i \in 1 .. n
  BY <1>1
<1>7. \A i \in 1 .. Len(gs) : RecordOK(gs, alive \cup {n + 1}, clock2, i)
  BY <1>3, <1>4, <1>6
<1>8. RecordsOK(gs, alive \cup {n + 1}, clock2)
  BY <1>1, <1>5, <1>7 DEF RecordsOK
<1>. QED
  BY <1>8 DEF gs, n

\* A run ends in place.
LEMMA EndRecords ==
  ASSUME NEW fs, NEW alive, NEW clock \in Nat, NEW clock2 \in Nat,
         RecordsOK(fs, alive, clock), clock <= clock2,
         NEW r \in alive, NEW f \in FrameRecord, f.run = r, f.cell = fs[r].cell,
         f.start = fs[r].start, f.status # "running"
  PROVE  RecordsOK([fs EXCEPT ![r] = f], alive \ {r}, clock2)
<1>. DEFINE gs == [fs EXCEPT ![r] = f]
<1>0. r \in 1 .. Len(fs) /\ fs[r].run = r /\ fs \in Seq(FrameRecord)
  BY DEF RecordsOK
<1>1. /\ gs \in Seq(FrameRecord) /\ Len(fs) \in Nat /\ Len(gs) = Len(fs)
      /\ \A i \in 1 .. Len(fs) : i # r => gs[i] = fs[i]
      /\ gs[r] = f
  BY <1>0, ReplaceRecord
<1>. HIDE DEF gs
<1>2. \A s \in alive : s \in 1 .. Len(fs) /\ fs[s].run = s
  BY DEF RecordsOK
<1>3. ASSUME NEW i \in 1 .. Len(fs), i # r PROVE RecordOK(gs, alive \ {r}, clock2, i)
  <2>1. RecordOK(fs, alive, clock, i)
    BY DEF RecordsOK
  <2>2. fs[i] \in FrameRecord
    BY <1>0
  \* The run that ends has no other record.
  <2>3. fs[i].run \in 1 .. Len(fs) /\ fs[i].run # r
    BY <1>1, <1>3, <2>1 DEF RecordOK
  <2>4. gs[i] = fs[i] /\ gs[fs[i].run] = fs[fs[i].run]
    BY <1>1, <1>3, <2>3
  <2>5. fs[i].start <= clock2
    BY RecordFacts
  <2>6. \A j \in 1 .. Len(fs) : fs[j].run = fs[i].run => j \in 1 .. Len(gs) /\ gs[j] = fs[j]
    BY <1>0, <1>1, <2>3
  <2>. QED
    BY <2>1, <2>3, <2>4, <2>5, <2>6 DEF RecordOK
<1>4. RecordOK(gs, alive \ {r}, clock2, r)
  <2>1. RecordOK(fs, alive, clock, r) /\ fs[r] \in FrameRecord
    BY <1>0 DEF RecordsOK
  <2>2. f.start <= clock2 /\ r \in 1 .. r
    BY <1>0, RecordFacts
  <2>. QED
    BY <1>1, <2>2 DEF RecordOK
<1>5. \A s \in alive \ {r} : s \in 1 .. Len(gs) /\ gs[s].run = s
  BY <1>1, <1>2
<1>6. \A i \in 1 .. Len(gs) : RecordOK(gs, alive \ {r}, clock2, i)
  BY <1>1, <1>3, <1>4
<1>7. RecordsOK(gs, alive \ {r}, clock2)
  BY <1>1, <1>5, <1>6 DEF RecordsOK
<1>. QED
  BY <1>7 DEF gs

\* A run ends with a second record.
LEMMA EndBesideRecords ==
  ASSUME NEW fs, NEW alive, NEW clock \in Nat, NEW clock2 \in Nat,
         RecordsOK(fs, alive, clock), clock <= clock2,
         NEW r \in alive, NEW f \in FrameRecord, f.run = r, f.cell = fs[r].cell,
         f.start = fs[r].start, isTerminal(f)
  PROVE  RecordsOK(Append(fs, f), alive \ {r}, clock2)
<1>. DEFINE gs == Append(fs, f)
            n == Len(fs)
<1>0. r \in 1 .. n /\ fs[r].run = r /\ fs \in Seq(FrameRecord)
  BY DEF RecordsOK
<1>1. /\ gs \in Seq(FrameRecord) /\ n \in Nat /\ Len(gs) = n + 1
      /\ \A i \in 1 .. n : gs[i] = fs[i]
      /\ gs[n + 1] = f
  BY <1>0, AppendRecord
<1>. HIDE DEF gs, n
<1>2. \A s \in alive : s \in 1 .. n /\ fs[s].run = s
  BY DEF RecordsOK, n
<1>3. ASSUME NEW i \in 1 .. n PROVE RecordOK(gs, alive \ {r}, clock2, i)
  <2>1. RecordOK(fs, alive, clock, i)
    BY DEF RecordsOK, n
  <2>2. fs[i] \in FrameRecord
    BY <1>0 DEF n
  <2>3. fs[i].run \in 1 .. n
    BY <1>1, <2>1 DEF RecordOK
  <2>4. gs[i] = fs[i] /\ gs[fs[i].run] = fs[fs[i].run]
    BY <1>1, <2>3
  <2>5. fs[i].start <= clock2
    BY RecordFacts DEF n
  <2>6. \A j \in 1 .. Len(fs) : j \in 1 .. Len(gs) /\ gs[j] = fs[j]
    BY <1>1 DEF n
  <2>7. n + 1 \in 1 .. Len(gs) /\ gs[n + 1].run = r /\ isTerminal(gs[n + 1])
    BY <1>1
  <2>8. fs[i].run \notin alive \ {r} /\ fs[i].status = "running" =>
          \E j \in 1 .. Len(gs) : gs[j].run = fs[i].run /\ isTerminal(gs[j])
    <3>1. CASE fs[i].run = r
      BY <2>7, <3>1
    <3>2. CASE fs[i].run # r
      BY <2>1, <2>6, <3>2 DEF RecordOK
    <3>. QED
      BY <3>1, <3>2
  <2>. QED
    BY <2>1, <2>3, <2>4, <2>5, <2>8 DEF RecordOK
<1>4. RecordOK(gs, alive \ {r}, clock2, n + 1)
  <2>1. RecordOK(fs, alive, clock, r) /\ fs[r] \in FrameRecord
    BY <1>0 DEF RecordsOK, n
  <2>2. f.start <= clock2 /\ r \in 1 .. n + 1 /\ gs[r] = fs[r]
    <3>1. fs[r].start <= clock2
      BY <1>0, RecordFacts DEF n
    <3>. QED
      BY <1>0, <1>1, <3>1
  <2>3. f.status # "running"
    BY DEF isTerminal, RUN_FRAME_TERMINAL_STATUSES
  <2>. QED
    BY <1>0, <1>1, <2>2, <2>3 DEF RecordOK
<1>5. \A s \in alive \ {r} : s \in 1 .. Len(gs) /\ gs[s].run = s
  BY <1>1, <1>2
<1>6. \A i \in 1 .. Len(gs) : i = n + 1 \/ i \in 1 .. n
  BY <1>1
<1>7. \A i \in 1 .. Len(gs) : RecordOK(gs, alive \ {r}, clock2, i)
  BY <1>3, <1>4, <1>6
<1>8. RecordsOK(gs, alive \ {r}, clock2)
  BY <1>1, <1>5, <1>7 DEF RecordsOK
<1>. QED
  BY <1>8 DEF gs

\* Time passes.
LEMMA LaterRecords ==
  ASSUME NEW fs, NEW alive, NEW clock \in Nat, NEW clock2 \in Nat,
         RecordsOK(fs, alive, clock), clock <= clock2
  PROVE  RecordsOK(fs, alive, clock2)
<1>1. ASSUME NEW i \in 1 .. Len(fs) PROVE RecordOK(fs, alive, clock2, i)
  BY RecordFacts DEF RecordOK
<1>. QED
  BY <1>1 DEF RecordsOK

\* Every step keeps the records in order.
LEMMA NextRecords == RecordsInv /\ [Next]_vars => RecordsInv'
<1>. SUFFICES ASSUME RecordsInv, [Next]_vars PROVE RecordsInv'
  OBVIOUS
<1>. USE DEF RecordsInv
<1>1. now \in Nat \ {0}
  BY ClockFacts DEF now
\* The kernel's writes advance the clock.
<1>2. ASSUME NEW f, NEW l, NEW s, NEW a, KernelWrites(f, l, s, a)
      PROVE  writes' \in Nat /\ frames' = f /\ now' \in Nat /\ now <= now'
  <2>1. writes' = writes + 1 /\ frames' = f
    BY <1>2 DEF KernelWrites
  <2>. QED
    BY <2>1, ClockFacts DEF now
<1>3. ASSUME NEW l, NEW s, NEW a, KernelWrites(frames, l, s, a), UNCHANGED live
      PROVE  RecordsInv'
  BY <1>1, <1>2, <1>3, LaterRecords
<1>4. ASSUME NEW a \in Agents, NEW c \in Cells \cup {""}, StartRun(a, c) PROVE RecordsInv'
  <2>0. frames \in Seq(FrameRecord) /\ Len(frames) + 1 \in Nat
    <3>1. frames \in Seq(FrameRecord)
      BY DEF RecordsOK
    <3>. QED
      BY <3>1, SeqLength, Zenon
  <2>. DEFINE f == Frame(Len(frames) + 1, c, a, "running", now, 0)
  <2>1. /\ f \in FrameRecord
        /\ f.run = Len(frames) + 1 /\ f.status = "running" /\ f.end = 0 /\ f.start = now
    <3>1. f \in FrameRecord
      BY <1>1, <2>0, StartFacts
    <3>. QED
      BY <3>1 DEF Frame
  <2>2. live' = live \cup {Len(frames) + 1}
        /\ \E a2 : KernelWrites(Append(frames, f), log, spans, a2)
    BY <1>4 DEF StartRun
  <2>. HIDE DEF f
  <2>3. writes' \in Nat /\ frames' = Append(frames, f) /\ now' \in Nat /\ now <= now'
    BY <1>2, <2>2
  <2>. QED
    BY <1>1, <2>1, <2>2, <2>3, StartRecords
<1>5. ASSUME NEW r \in live, NEW status \in EndStatuses, NEW stamped, EndRun(r, status, stamped)
      PROVE  RecordsInv'
  <2>. DEFINE f == Ended(frames[r], status, stamped)
  <2>1. frames[r] \in FrameRecord /\ frames[r].run = r
    BY DEF RecordsOK
  <2>2. /\ f \in FrameRecord /\ f.run = r /\ f.cell = frames[r].cell
        /\ f.start = frames[r].start /\ f.status = status
    BY <2>1, EndedFacts
  <2>3. live' = live \ {r} /\ KernelWrites([frames EXCEPT ![r] = f], log, spans, agents)
    BY <1>5 DEF EndRun
  <2>. HIDE DEF f
  <2>4. /\ writes' \in Nat /\ frames' = [frames EXCEPT ![r] = f]
        /\ now' \in Nat /\ now <= now'
    BY <1>2, <2>3
  <2>5. f.status # "running"
    BY <2>2 DEF EndStatuses
  <2>. QED
    BY <1>1, <2>2, <2>3, <2>4, <2>5, EndRecords
<1>6. ASSUME NEW r \in live, NEW status \in EndStatuses, NEW stamped,
             EndRunBeside(r, status, stamped)
      PROVE  RecordsInv'
  <2>. DEFINE f == Ended(frames[r], status, stamped)
  <2>1. frames[r] \in FrameRecord /\ frames[r].run = r
    BY DEF RecordsOK
  <2>2. /\ f \in FrameRecord /\ f.run = r /\ f.cell = frames[r].cell
        /\ f.start = frames[r].start /\ f.status = status
    BY <2>1, EndedFacts
  <2>3. live' = live \ {r} /\ KernelWrites(Append(frames, f), log, spans, agents)
        /\ status \in RUN_FRAME_TERMINAL_STATUSES
    BY <1>6 DEF EndRunBeside
  <2>. HIDE DEF f
  <2>4. /\ writes' \in Nat /\ frames' = Append(frames, f) /\ now' \in Nat /\ now <= now'
    BY <1>2, <2>3
  <2>5. isTerminal(f)
    BY <2>2, <2>3 DEF isTerminal
  <2>. QED
    BY <1>1, <2>2, <2>3, <2>4, <2>5, EndBesideRecords
<1>7. ASSUME NEW a, NEW kind, NEW t, CloseSpan(a, kind, t) PROVE RecordsInv'
  BY <1>3, <1>7 DEF CloseSpan
<1>8. ASSUME NEW a, NEW b, NEW ts, LogFork(a, b, ts) PROVE RecordsInv'
  BY <1>3, <1>8 DEF LogFork
<1>9. ASSUME NEW a, NEW type, LogOther(a, type) PROVE RecordsInv'
  BY <1>3, <1>9 DEF LogOther
<1>10. ASSUME NEW a, AgentTerminates(a) PROVE RecordsInv'
  BY <1>3, <1>10 DEF AgentTerminates
<1>11. CASE UNCHANGED document
  BY <1>11 DEF document, now
<1>12. ASSUME NEW a, DrawRow(a) \/ ClickStop(a) PROVE UNCHANGED document
  BY <1>12 DEF DrawRow, ClickStop
<1>13. FocusChanges \/ Fire \/ LoadMore \/ UNCHANGED vars => UNCHANGED document
  BY DEF FocusChanges, Fire, LoadMore, vars
<1>. QED
  BY <1>4, <1>5, <1>6, <1>7, <1>8, <1>9, <1>10, <1>11, <1>12, <1>13 DEF Next

LEMMA InitRecords == Init => RecordsInv
<1>. SUFFICES ASSUME Init PROVE RecordsInv
  OBVIOUS
<1>1. frames = <<>> /\ live = {} /\ writes = 0 /\ Len(<<>>) = 0 /\ <<>> \in Seq(FrameRecord)
  BY DEF Init
<1>. QED
  BY <1>1 DEF RecordsInv, RecordsOK

LEMMA AlwaysRecords == Spec => []RecordsInv
BY InitRecords, NextRecords, PTL DEF Spec

-----------------------------------------------------------------------------
(* Is it running?  The four readers.                                       *)

\* Of records with times there is one with the latest, the first of those.
LEMMA NewestExists ==
  ASSUME NEW fs, NEW own, own \subseteq Nat, own # {}, NEW clock \in Nat,
         \A i \in own : fs[i].start \in Nat /\ fs[i].start <= clock
  PROVE  \E i \in own : \A j \in own :
           fs[i].start > fs[j].start \/ (fs[i].start = fs[j].start /\ i <= j)
<1>. DEFINE ages == {clock - fs[i].start : i \in own}
<1>1. ages \subseteq Nat /\ ages # {}
  <2>1. \A i \in own : clock - fs[i].start \in Nat
    OBVIOUS
  <2>2. ages # {}
    OBVIOUS
  <2>. QED
    BY <2>1, <2>2
<1>2. PICK m \in ages : \A n \in ages : m <= n
  BY <1>1, LeastExists
<1>3. PICK k \in own : m = clock - fs[k].start
  BY <1>2
<1>4. \A j \in own : fs[j].start <= fs[k].start
  <2>. SUFFICES ASSUME NEW j \in own PROVE fs[j].start <= fs[k].start
    OBVIOUS
  <2>1. clock - fs[k].start <= clock - fs[j].start
    BY <1>2, <1>3
  <2>2. fs[j].start \in Nat /\ fs[k].start \in Nat
    OBVIOUS
  <2>. QED
    BY <2>1, <2>2
<1>. DEFINE firsts == {i \in own : fs[i].start = fs[k].start}
<1>5. firsts \subseteq Nat /\ k \in firsts
  BY <1>3
<1>6. PICK i \in firsts : \A n \in firsts : i <= n
  BY <1>5, LeastExists
<1>7. ASSUME NEW j \in own
      PROVE  fs[i].start > fs[j].start \/ (fs[i].start = fs[j].start /\ i <= j)
  <2>1. fs[i].start = fs[k].start /\ fs[j].start <= fs[k].start
        /\ fs[j].start \in Nat /\ fs[k].start \in Nat
    BY <1>4, <1>3
  <2>2. fs[j].start = fs[k].start => i <= j
    BY <1>6, <1>7
  <2>. QED
    BY <2>1, <2>2
<1>. QED
  BY <1>6, <1>7

InFlight(a) == {i \in DOMAIN frames : frames[i].agent = a /\ isInFlight(frames[i])}

\* What the run state returns: a run of the agent that is in flight, if any.
LEMMA ActiveFrame ==
  ASSUME RecordsInv, NEW a
  PROVE  /\ InFlight(a) = {} => getActiveRunFrame(frames, a) = 0
         /\ InFlight(a) # {} => getActiveRunFrame(frames, a) \in InFlight(a)
         /\ 0 \notin InFlight(a)
<1>1. frames \in Seq(FrameRecord)
  BY DEF RecordsInv, RecordsOK
<1>2. DOMAIN frames = 1 .. Len(frames) /\ Len(frames) \in Nat
  BY <1>1
<1>3. now \in Nat
  BY ClockFacts DEF RecordsInv, now
<1>4. ASSUME InFlight(a) # {} PROVE getActiveRunFrame(frames, a) \in InFlight(a)
  <2>1. InFlight(a) \subseteq 1 .. Len(frames) /\ InFlight(a) \subseteq Nat
    BY <1>2 DEF InFlight
  <2>2. \A i \in InFlight(a) : frames[i].start \in Nat /\ frames[i].start <= now
    BY <1>3, <2>1, RecordFacts DEF RecordsInv
  <2>3. \E i \in InFlight(a) : \A j \in InFlight(a) :
          frames[i].start > frames[j].start \/ (frames[i].start = frames[j].start /\ i <= j)
    BY <1>3, <1>4, <2>1, <2>2, NewestExists
  <2>4. getActiveRunFrame(frames, a) =
          CHOOSE i \in InFlight(a) : \A j \in InFlight(a) :
            frames[i].start > frames[j].start \/ (frames[i].start = frames[j].start /\ i <= j)
    BY <1>4 DEF getActiveRunFrame, InFlight
  <2>. QED
    BY <2>3, <2>4
<1>5. InFlight(a) = {} => getActiveRunFrame(frames, a) = 0
  BY DEF getActiveRunFrame, InFlight
<1>. QED
  BY <1>2, <1>4, <1>5 DEF InFlight

\* What the records say of a run: one that is live is in flight to all, and a
\* record that the sidebar has in flight is of a live run, superseded by another
\* record or of a status that the sidebar does not know.
LEMMA LiveFacts ==
  ASSUME RecordsInv
  PROVE  /\ \A r \in live : /\ r \in DOMAIN frames /\ frames[r].run = r
                            /\ frames[r].status = "running" /\ frames[r].end = 0
                            /\ isInFlight(frames[r]) /\ frames[r].agent \in Agents
         /\ \A i \in DOMAIN frames : isInFlight(frames[i]) =>
              frames[i].run \in live \/ Superseded(i) \/ Unsettled(i)
         /\ \A i \in DOMAIN frames : frames[i].status = "running" /\ frames[i].end = 0 =>
              isInFlight(frames[i]) /\ (frames[i].run \in live \/ Superseded(i))
<1>1. DOMAIN frames = 1 .. Len(frames)
  BY DEF RecordsInv, RecordsOK
<1>2. \A i \in 1 .. Len(frames) : frames[i] \in FrameRecord /\ RecordOK(frames, live, now, i)
  BY DEF RecordsInv, RecordsOK
<1>3. ASSUME NEW r \in live
      PROVE  /\ r \in DOMAIN frames /\ frames[r].run = r
             /\ frames[r].status = "running" /\ frames[r].end = 0
             /\ isInFlight(frames[r]) /\ frames[r].agent \in Agents
  <2>1. r \in 1 .. Len(frames) /\ frames[r].run = r
    BY DEF RecordsInv, RecordsOK
  <2>2. frames[r].status = "running"
    BY <1>2, <2>1 DEF RecordOK
  <2>3. frames[r].end = 0
    BY <1>2, <2>1, <2>2 DEF RecordOK
  <2>4. frames[r].agent \in Agents
    BY <1>2, <2>1, RecordFields
  <2>. QED
    BY <1>1, <2>1, <2>2, <2>3, <2>4 DEF isInFlight, TERMINAL_STATUSES
<1>4. ASSUME NEW i \in DOMAIN frames, frames[i].status = "running", frames[i].end = 0
      PROVE  isInFlight(frames[i]) /\ (frames[i].run \in live \/ Superseded(i))
  <2>1. RecordOK(frames, live, now, i)
    BY <1>1, <1>2
  <2>2. isInFlight(frames[i]) /\ ~isTerminal(frames[i])
    BY <1>4 DEF isInFlight, isTerminal, TERMINAL_STATUSES, RUN_FRAME_TERMINAL_STATUSES
  <2>3. ASSUME frames[i].run \notin live PROVE Superseded(i)
    <3>1. \E j \in 1 .. Len(frames) : frames[j].run = frames[i].run /\ isTerminal(frames[j])
      BY <1>4, <2>1, <2>3 DEF RecordOK
    <3>. QED
      BY <1>1, <2>2, <3>1 DEF Superseded
  <2>. QED
    BY <2>2, <2>3
<1>5. ASSUME NEW i \in DOMAIN frames, isInFlight(frames[i])
      PROVE  frames[i].run \in live \/ Superseded(i) \/ Unsettled(i)
  <2>1. frames[i].end = 0 /\ frames[i].status \notin TERMINAL_STATUSES
    BY <1>5 DEF isInFlight
  <2>2. CASE frames[i].status = "running"
    BY <1>4, <2>1, <2>2
  <2>3. CASE frames[i].status # "running"
    BY <2>1, <2>3 DEF Unsettled
  <2>. QED
    BY <2>2, <2>3
<1>. QED
  BY <1>3, <1>4, <1>5

\* No reader hides a run that is live; what the sidebar and the decorations take
\* for running is live, superseded by a record that says it is over, or of a
\* status that the sidebar does not know and without ended_at; and a cell streams
\* for a live or superseded run only (isInFlight and getActiveRunFrame of the
\* sidebar, hasInFlightRunFrame of the decorations, findActiveRunFrame of the
\* cell badges).
THEOREM ReadersAlwaysAgree == Spec => []ReadersAgree
<1>1. RecordsInv => ReadersAgree
  <2>. SUFFICES ASSUME RecordsInv PROVE ReadersAgree
    OBVIOUS
  <2>1. ASSUME NEW r \in live
        PROVE  /\ hasInFlightRun(frames, frames[r].agent)
               /\ Condition(frames[r].agent) \in {"running", "attention"}
               /\ frames[r].cell # "" => streaming(frames, frames[r].cell)
    <3>1. r \in InFlight(frames[r].agent)
      BY LiveFacts DEF InFlight
    <3>2. hasInFlightRun(frames, frames[r].agent)
      BY <3>1, ActiveFrame DEF hasInFlightRun
    <3>3. hasInFlightRunFrame(frames, frames[r].agent)
      BY <3>1 DEF InFlight, isInFlight, hasInFlightRunFrame
    <3>4. Condition(frames[r].agent) \in {"running", "attention"}
      BY <3>3 DEF Condition, deriveAgentCondition
    <3>5. streaming(frames, frames[r].cell)
      BY LiveFacts DEF streaming
    <3>. QED
      BY <3>2, <3>4, <3>5
  <2>2. ASSUME NEW a \in Agents, hasInFlightRun(frames, a)
        PROVE  LET i == getActiveRunFrame(frames, a)
               IN  frames[i].run \in live \/ Superseded(i) \/ Unsettled(i)
    <3>1. getActiveRunFrame(frames, a) \in InFlight(a)
      BY <2>2, ActiveFrame DEF hasInFlightRun
    <3>. QED
      BY <3>1, LiveFacts DEF InFlight
  \* The copy of the test that the decorations have is the same test.
  <2>3. ASSUME NEW a \in Agents
        PROVE  hasInFlightRun(frames, a) <=> hasInFlightRunFrame(frames, a)
    <3>1. hasInFlightRunFrame(frames, a) <=> InFlight(a) # {}
      BY DEF hasInFlightRunFrame, isInFlight, InFlight
    <3>2. hasInFlightRun(frames, a) <=> InFlight(a) # {}
      BY ActiveFrame DEF hasInFlightRun
    <3>. QED
      BY <3>1, <3>2
  <2>4. ASSUME NEW c \in Cells, streaming(frames, c)
        PROVE  \E i \in DOMAIN frames :
                 /\ frames[i].cell = c /\ (frames[i].run \in live \/ Superseded(i))
                 /\ hasInFlightRun(frames, frames[i].agent)
    <3>1. PICK i \in DOMAIN frames :
            frames[i].status = "running" /\ frames[i].end = 0 /\ frames[i].cell = c
      BY <2>4 DEF streaming
    <3>2. isInFlight(frames[i]) /\ (frames[i].run \in live \/ Superseded(i))
      BY <3>1, LiveFacts
    <3>3. i \in InFlight(frames[i].agent)
      BY <3>2 DEF InFlight
    <3>4. hasInFlightRun(frames, frames[i].agent)
      BY <3>3, ActiveFrame DEF hasInFlightRun
    <3>. QED
      BY <3>1, <3>2, <3>4
  <2>. QED
    BY <2>1, <2>2, <2>3, <2>4 DEF ReadersAgree
<1>. QED
  BY <1>1, AlwaysRecords, PTL

\* A click on a stop button, however old its row, interrupts a run that the
\* document shows in flight at that moment, and is routed to a cell of that run
\* (resolveInterruptTarget).
THEOREM InterruptsHit == Spec => NoStrayInterrupt
<1>. DEFINE Hit == interrupt' # interrupt =>
               /\ active
               /\ \E i \in DOMAIN frames :
                    /\ isInFlight(frames[i]) /\ frames[i].agent = interrupt'.agent
                    /\ frames[i].run = interrupt'.run /\ frames[i].cell = interrupt'.cell
                    /\ frames[i].cell # ""
<1>1. ASSUME RecordsInv, NEW a \in Agents, ClickStop(a) PROVE Hit
  <2>. DEFINE i == getActiveRunFrame(frames, a)
  <2>1. /\ active /\ i # 0 /\ frames[i].cell # ""
        /\ interrupt' = [agent |-> a, cell |-> frames[i].cell, run |-> frames[i].run]
    BY <1>1 DEF ClickStop, resolveInterruptTarget
  <2>2. i \in InFlight(a)
    BY <1>1, <2>1, ActiveFrame
  <2>. HIDE DEF i
  <2>3. i \in DOMAIN frames /\ frames[i].agent = a /\ isInFlight(frames[i])
    BY <2>2 DEF InFlight
  <2>. QED
    BY <2>1, <2>3
<1>2. ASSUME RecordsInv, Next, ~ \E a \in Agents : ClickStop(a) PROVE interrupt' = interrupt
  BY <1>2 DEF Next, StartRun, EndRun, EndRunBeside, CloseSpan, LogFork, LogOther,
     AgentTerminates, KernelWrites, DrawRow, FocusChanges, Fire, LoadMore
<1>3. RecordsInv /\ [Next]_vars => [Hit]_vars
  BY <1>1, <1>2
<1>. QED
  BY <1>3, AlwaysRecords, PTL DEF Spec, NoStrayInterrupt

-----------------------------------------------------------------------------
(* The Inspect badge of a cell.                                            *)

\* The records the reader keeps.
LEMMA OwnFacts ==
  ASSUME RecordsInv, NEW c \in Cells, NEW i \in runFramesOf(frames, c)
  PROVE  /\ i \in 1 .. Len(frames) /\ Len(frames) \in Nat
         /\ frames[i].cell = c /\ parseRunFrame(frames[i])
         /\ frames[i].start \in Nat \ {0} /\ frames[i].run \in 1 .. Len(frames)
         /\ frames[i].start <= now /\ now \in Nat
         /\ frames[frames[i].run].start = frames[i].start
         /\ frames[frames[i].run].cell = c
         /\ frames[i].run \in live => i = frames[i].run /\ ~isTerminal(frames[i])
<1>1. frames \in Seq(FrameRecord)
  BY DEF RecordsInv, RecordsOK
<1>2. DOMAIN frames = 1 .. Len(frames) /\ Len(frames) \in Nat
  BY <1>1
<1>3. i \in 1 .. Len(frames) /\ frames[i].cell = c /\ parseRunFrame(frames[i])
  BY <1>2 DEF runFramesOf
<1>4. now \in Nat
  BY ClockFacts DEF RecordsInv, now
<1>5. frames[i].start \in Nat \ {0} /\ RecordOK(frames, live, now, i) /\ frames[i].start <= now
  BY <1>3, <1>4, RecordFacts DEF RecordsInv
<1>6. frames[i].run \in 1 .. Len(frames)
  BY <1>2, <1>3, <1>5 DEF RecordOK
<1>7. frames[i].run \in live => i = frames[i].run /\ ~isTerminal(frames[i])
  BY <1>5 DEF RecordOK, isTerminal, RUN_FRAME_TERMINAL_STATUSES
<1>8. frames[frames[i].run].start = frames[i].start /\ frames[frames[i].run].cell = c
  BY <1>3, <1>5 DEF RecordOK
<1>. QED
  BY <1>2, <1>3, <1>4, <1>5, <1>6, <1>7, <1>8

\* Another record of a run whose record the reader keeps is kept as well, if
\* it says that the run is over.
LEMMA OtherRecord ==
  ASSUME RecordsInv, NEW c \in Cells, NEW i \in runFramesOf(frames, c),
         NEW j \in 1 .. Len(frames), frames[j].run = frames[i].run, isTerminal(frames[j])
  PROVE  j \in runFramesOf(frames, c)
<1>1. /\ frames[i].cell = c /\ frames[i].cell # "" /\ frames[frames[i].run].cell = c
  BY OwnFacts DEF parseRunFrame
<1>2. now \in Nat /\ DOMAIN frames = 1 .. Len(frames)
  BY ClockFacts DEF RecordsInv, now, RecordsOK
<1>3. frames[j].start \in Nat \ {0} /\ RecordOK(frames, live, now, j)
  BY <1>2, RecordFacts DEF RecordsInv
<1>4. frames[j].cell = c
  BY <1>1, <1>3 DEF RecordOK
<1>5. frames[j].status \in RunFrameStatus
  BY DEF isTerminal, RUN_FRAME_TERMINAL_STATUSES, RunFrameStatus
<1>6. frames[j].start > 0
  BY <1>3
<1>7. parseRunFrame(frames[j])
  BY <1>1, <1>4, <1>5, <1>6, Zenon DEF parseRunFrame
<1>. QED
  BY <1>2, <1>4, <1>7, Zenon DEF runFramesOf

\* The reader's choice among the records of a run.
LEMMA BestIs ==
  ASSUME NEW c, NEW i
  PROVE  i \in bestByRunId(frames, c) <=>
           /\ i \in runFramesOf(frames, c)
           /\ \A j \in runFramesOf(frames, c) : frames[j].run = frames[i].run =>
                /\ isTerminal(frames[j]) => isTerminal(frames[i])
                /\ (isTerminal(frames[j]) <=> isTerminal(frames[i])) => ~(j < i)
BY DEF bestByRunId

\* It keeps one record of each run, and of a run that is over one that says so.
LEMMA BestFacts ==
  ASSUME RecordsInv, NEW c \in Cells
  PROVE  /\ bestByRunId(frames, c) \subseteq runFramesOf(frames, c)
         /\ \A i, j \in bestByRunId(frames, c) : frames[i].run = frames[j].run => i = j
         /\ \A j \in runFramesOf(frames, c) :
              \E i \in bestByRunId(frames, c) : frames[i].run = frames[j].run
         /\ \A i \in bestByRunId(frames, c) : isTerminal(frames[i]) <=> frames[i].run \notin live
<1>. DEFINE own == runFramesOf(frames, c)
            best == bestByRunId(frames, c)
<1>1. own \subseteq Nat
  BY OwnFacts
<1>2. best \subseteq own
  BY BestIs
<1>3. ASSUME NEW i \in best, NEW j \in best, frames[i].run = frames[j].run PROVE i = j
  <2>1. i \in own /\ j \in own /\ i \in Nat /\ j \in Nat
    BY <1>1, <1>2
  <2>2. isTerminal(frames[i]) <=> isTerminal(frames[j])
    BY <1>3, <2>1, BestIs
  <2>3. ~(i < j) /\ ~(j < i)
    BY <1>3, <2>1, <2>2, BestIs
  <2>. QED
    BY <2>1, <2>3
<1>4. ASSUME NEW j \in own PROVE \E i \in best : frames[i].run = frames[j].run
  <2>. DEFINE same == {k \in own : frames[k].run = frames[j].run}
              over == {k \in same : isTerminal(frames[k])}
  <2>1. same \subseteq Nat /\ over \subseteq Nat /\ j \in same
    BY <1>1
  <2>2. CASE over # {}
    <3>1. PICK i \in over : \A n \in over : i <= n
      BY <2>1, <2>2, LeastExists
    <3>2. i \in own /\ frames[i].run = frames[j].run /\ isTerminal(frames[i])
      BY <3>1
    <3>3. ASSUME NEW k \in own, frames[k].run = frames[i].run,
                 isTerminal(frames[k]) <=> isTerminal(frames[i])
          PROVE  ~(k < i)
      <4>1. k \in over
        BY <3>2, <3>3
      <4>. QED
        BY <2>1, <3>1, <4>1
    <3>. QED
      BY <3>2, <3>3, BestIs
  <2>3. CASE over = {}
    <3>1. PICK i \in same : \A n \in same : i <= n
      BY <2>1, LeastExists
    <3>2. i \in own /\ frames[i].run = frames[j].run
      BY <3>1
    <3>3. ASSUME NEW k \in own, frames[k].run = frames[i].run
          PROVE  ~isTerminal(frames[k]) /\ ~(k < i)
      <4>1. k \in same
        BY <3>2, <3>3
      <4>2. ~isTerminal(frames[k])
        BY <2>3, <4>1
      <4>. QED
        BY <2>1, <3>1, <4>1, <4>2
    <3>. QED
      BY <3>2, <3>3, BestIs
  <2>. QED
    BY <2>2, <2>3
<1>5. ASSUME NEW i \in best PROVE isTerminal(frames[i]) <=> frames[i].run \notin live
  <2>1. i \in own
    BY <1>2
  <2>2. frames[i].run \in live => ~isTerminal(frames[i])
    BY <2>1, OwnFacts
  <2>3. ASSUME frames[i].run \notin live, ~isTerminal(frames[i]) PROVE FALSE
    <3>1. i \in 1 .. Len(frames) /\ parseRunFrame(frames[i])
      BY <2>1, OwnFacts
    <3>2. RecordOK(frames, live, now, i)
      BY <3>1 DEF RecordsInv, RecordsOK
    <3>3. frames[i].status = "running"
      BY <2>3, <3>1 DEF parseRunFrame, isTerminal, RunFrameStatus,
         RUN_FRAME_TERMINAL_STATUSES
    <3>4. PICK j \in 1 .. Len(frames) : frames[j].run = frames[i].run /\ isTerminal(frames[j])
      BY <2>3, <3>2, <3>3 DEF RecordOK
    <3>5. j \in own
      BY <2>1, <3>4, OtherRecord
    <3>. QED
      BY <2>3, <3>4, <3>5, BestIs
  <2>. QED
    BY <2>2, <2>3
<1>. QED
  BY <1>2, <1>3, <1>4, <1>5

\* The badge shows the newest run of those.
LEMMA LatestFacts ==
  ASSUME RecordsInv, NEW c \in Cells
  PROVE  /\ latestRunFrameForCell(frames, c) = 0 <=> runFramesOf(frames, c) = {}
         /\ latestRunFrameForCell(frames, c) # 0 =>
              /\ latestRunFrameForCell(frames, c) \in bestByRunId(frames, c)
              /\ \A j \in runFramesOf(frames, c) :
                   frames[j].start <= frames[latestRunFrameForCell(frames, c)].start
<1>. DEFINE own == runFramesOf(frames, c)
            best == bestByRunId(frames, c)
            latest == latestRunFrameForCell(frames, c)
<1>1. best \subseteq own /\ \A j \in own : \E i \in best : frames[i].run = frames[j].run
  BY BestFacts
<1>2. \A i \in own : i # 0
  BY OwnFacts
<1>3. CASE best = {}
  BY <1>1, <1>3 DEF latestRunFrameForCell
<1>4. CASE best # {}
  <2>. DEFINE runs == {frames[i].run : i \in best}
  <2>1. runs \subseteq Nat /\ runs # {} /\ now \in Nat
    BY <1>1, <1>4, OwnFacts
  <2>2. \A r \in runs : frames[r].start \in Nat /\ frames[r].start <= now
    <3>1. ASSUME NEW i \in best
          PROVE  frames[frames[i].run].start \in Nat /\ frames[frames[i].run].start <= now
      <4>1. i \in runFramesOf(frames, c)
        BY <1>1
      <4>2. /\ frames[frames[i].run].start = frames[i].start
            /\ frames[i].start \in Nat /\ frames[i].start <= now
        BY <4>1, OwnFacts
      <4>. QED
        BY <4>2
    <3>. HIDE DEF best
    <3>. QED
      BY <3>1
  <2>3. PICK r \in runs : \A s \in runs :
          frames[r].start > frames[s].start \/ (frames[r].start = frames[s].start /\ r <= s)
    BY <2>1, <2>2, NewestExists
  <2>4. PICK i \in best : r = frames[i].run
    BY <2>3
  <2>5. ASSUME NEW j \in best \ {i} PROVE compareStartedAtDesc(frames[i], frames[j])
    <3>1. frames[j].run # r /\ frames[j].run \in runs /\ frames[j].run \in Nat /\ r \in Nat
      BY <1>1, <2>1, <2>4, <2>5, BestFacts
    <3>2. frames[r].start = frames[i].start /\ frames[frames[j].run].start = frames[j].start
      BY <1>1, <2>4, <2>5, OwnFacts
    <3>3. frames[i].start > frames[j].start
          \/ (frames[i].start = frames[j].start /\ r <= frames[j].run)
      BY <2>3, <3>1, <3>2
    <3>. QED
      BY <2>4, <3>1, <3>3 DEF compareStartedAtDesc
  <2>6. latest = CHOOSE k \in best : \A j \in best \ {k} : compareStartedAtDesc(frames[k], frames[j])
    BY <1>4 DEF latestRunFrameForCell
  <2>7. latest \in best /\ \A j \in best \ {latest} : compareStartedAtDesc(frames[latest], frames[j])
    BY <2>5, <2>6
  <2>. HIDE DEF latest
  <2>8. ASSUME NEW j \in own PROVE frames[j].start <= frames[latest].start
    <3>1. PICK k \in best : frames[k].run = frames[j].run
      BY <1>1
    <3>2. /\ frames[k].start = frames[j].start
          /\ frames[j].start \in Nat /\ frames[latest].start \in Nat
      <4>1. k \in own /\ latest \in own
        BY <1>1, <2>7
      <4>2. /\ frames[frames[k].run].start = frames[k].start
            /\ frames[frames[j].run].start = frames[j].start
        BY <4>1, OwnFacts
      <4>. QED
        BY <3>1, <4>1, <4>2, OwnFacts
    <3>3. k = latest \/ compareStartedAtDesc(frames[latest], frames[k])
      BY <2>7
    <3>4. frames[latest].start >= frames[k].start
      BY <3>2, <3>3 DEF compareStartedAtDesc
    <3>. QED
      BY <3>2, <3>4
  <2>. QED
    BY <1>1, <1>2, <1>4, <2>7, <2>8 DEF latest
<1>. QED
  BY <1>3, <1>4

Over(c) == {i \in bestByRunId(frames, c) : isTerminal(frames[i])}

OlderFirst(S) == {p \in S \X S : compareStartedAtDesc(frames[p[2]], frames[p[1]])}

\* The history is the runs that are over, in the order of their starts.
LEMMA HistoryFacts ==
  ASSUME RecordsInv, NEW c \in Cells
  PROVE  /\ IsFiniteSet(Over(c)) /\ Cardinality(Over(c)) \in Nat
         /\ Len(runFrameHistoryForCell(frames, c)) = Cardinality(Over(c))
         /\ \A k \in 1 .. Cardinality(Over(c)) : runFrameHistoryForCell(frames, c)[k] \in Over(c)
         /\ \A k \in 1 .. Cardinality(Over(c)) - 1 :
              frames[runFrameHistoryForCell(frames, c)[k]].start
                <= frames[runFrameHistoryForCell(frames, c)[k + 1]].start
<1>. DEFINE S == Over(c)
            R == OlderFirst(S)
            past == runFrameHistoryForCell(frames, c)
<1>1. \A i \in S : /\ i \in bestByRunId(frames, c) /\ i \in 1 .. Len(frames)
                   /\ Len(frames) \in Nat /\ i \in Nat /\ i <= Len(frames)
                   /\ frames[i].start \in Nat /\ frames[i].run \in Nat
  <2>. SUFFICES ASSUME NEW i \in S
                PROVE  /\ i \in bestByRunId(frames, c) /\ i \in 1 .. Len(frames)
                       /\ Len(frames) \in Nat /\ i \in Nat /\ i <= Len(frames)
                       /\ frames[i].start \in Nat /\ frames[i].run \in Nat
    OBVIOUS
  <2>1. i \in bestByRunId(frames, c) /\ i \in runFramesOf(frames, c)
    BY BestFacts DEF Over
  <2>2. /\ i \in 1 .. Len(frames) /\ Len(frames) \in Nat
        /\ frames[i].start \in Nat /\ frames[i].run \in 1 .. Len(frames)
    BY <2>1, OwnFacts
  <2>. QED
    BY <2>1, <2>2
<1>2. IsFiniteSet(S)
  <2>1. Len(frames) \in Nat
    BY SeqLength DEF RecordsInv, RecordsOK
  <2>2. S \in SUBSET Nat /\ \A i \in S : i <= Len(frames)
    BY <1>1
  <2>. QED
    BY <2>1, <2>2, FS_BoundedSetOfNaturals
<1>3. \A i, j \in S : <<i, j>> \in R <=>
        frames[j].start > frames[i].start
        \/ (frames[j].start = frames[i].start /\ frames[j].run < frames[i].run)
  BY DEF OlderFirst, compareStartedAtDesc
<1>4. \A i, j \in S : frames[i].run = frames[j].run => i = j
  BY <1>1, BestFacts
<1>5. Orders(R, S)
  <2>. HIDE DEF R, S
  <2>1. \A x \in S : <<x, x>> \notin R
    BY <1>1, <1>3
  <2>2. \A x, y, z \in S : <<x, y>> \in R /\ <<y, z>> \in R => <<x, z>> \in R
    BY <1>1, <1>3
  <2>3. ASSUME NEW x \in S, NEW y \in S PROVE x = y \/ <<x, y>> \in R \/ <<y, x>> \in R
    <3>1. /\ frames[x].start \in Nat /\ frames[x].run \in Nat
          /\ frames[y].start \in Nat /\ frames[y].run \in Nat
      BY <1>1
    <3>2. \/ frames[x].start > frames[y].start \/ frames[y].start > frames[x].start
          \/ (frames[x].start = frames[y].start /\ frames[x].run < frames[y].run)
          \/ (frames[x].start = frames[y].start /\ frames[y].run < frames[x].run)
          \/ frames[x].run = frames[y].run
      BY <3>1
    <3>. QED
      BY <1>3, <1>4, <3>2
  <2>. QED
    BY <2>1, <2>2, <2>3 DEF Orders
<1>6. past = RankSeq(S, R)
  <2>. DEFINE rank == [x \in S |-> Cardinality({y \in S : compareStartedAtDesc(frames[x], frames[y])})]
  <2>1. \A x \in S : {y \in S : compareStartedAtDesc(frames[x], frames[y])} = Below(S, R, x)
    BY DEF Below, OlderFirst
  <2>2. past = Ranked(S, rank)
    BY DEF runFrameHistoryForCell, SortedBy, Over, Ranked
  <2>3. \A x \in S : rank[x] = Cardinality(Below(S, R, x))
    BY <2>1
  <2>. HIDE DEF S, R, rank
  <2>. QED
    BY <2>2, <2>3, RankIs
<1>. HIDE DEF S, R, past
<1>7. /\ Cardinality(S) \in Nat /\ past \in [1 .. Cardinality(S) -> S]
      /\ \A k, m \in 1 .. Cardinality(S) : k < m => <<past[k], past[m]>> \in R
  BY <1>2, <1>5, <1>6, SortFacts
<1>8. Len(past) = Cardinality(S)
  BY <1>7
<1>9. ASSUME NEW k \in 1 .. Cardinality(S) - 1
      PROVE  frames[past[k]].start <= frames[past[k + 1]].start
  <2>1. k \in 1 .. Cardinality(S) /\ k + 1 \in 1 .. Cardinality(S) /\ k < k + 1
    BY <1>7
  <2>2. past[k] \in S /\ past[k + 1] \in S /\ <<past[k], past[k + 1]>> \in R
    BY <1>7, <2>1
  <2>3. frames[past[k]].start \in Nat /\ frames[past[k + 1]].start \in Nat
    BY <1>1, <2>2
  <2>4. frames[past[k + 1]].start >= frames[past[k]].start
    BY <1>3, <2>2, <2>3
  <2>. QED
    BY <2>3, <2>4
<1>. QED
  BY <1>2, <1>7, <1>8, <1>9 DEF S, past

\* The runs of a cell are those in its history and those that are live.
LEMMA CountFacts ==
  ASSUME RecordsInv, NEW c \in Cells
  PROVE  Cardinality(Over(c)) + Cardinality({r \in live : frames[r].cell = c})
           = runCountForCell(frames, c)
<1>. DEFINE runs == {frames[i].run : i \in runFramesOf(frames, c)}
            alive == {r \in live : frames[r].cell = c}
            f == [i \in Over(c) |-> frames[i].run]
<1>0. Len(frames) \in Nat
  BY SeqLength DEF RecordsInv, RecordsOK
<1>1. IsFiniteSet(runs) /\ Cardinality(runs) \in Nat
  <2>1. runs \in SUBSET (1 .. Len(frames))
    BY OwnFacts
  <2>2. runs \in SUBSET Nat /\ \A r \in runs : r <= Len(frames)
    BY <1>0, <2>1
  <2>. QED
    BY <1>0, <2>2, FS_BoundedSetOfNaturals, FS_CardinalityType
<1>2. alive \subseteq runs
  <2>. SUFFICES ASSUME NEW r \in live, frames[r].cell = c PROVE r \in runs
    OBVIOUS
  <2>1. r \in DOMAIN frames /\ frames[r].run = r /\ frames[r].status = "running"
    BY LiveFacts
  <2>2. r \in 1 .. Len(frames) /\ now \in Nat
    BY ClockFacts DEF RecordsInv, RecordsOK, now
  <2>3. frames[r].start \in Nat \ {0}
    BY <2>2, RecordFacts DEF RecordsInv
  <2>4. parseRunFrame(frames[r])
    <3>1. c # ""
      BY RunViewsAssumption
    <3>2. frames[r].start > 0
      BY <2>3
    <3>. QED
      BY <2>1, <3>1, <3>2 DEF parseRunFrame, RunFrameStatus
  <2>5. r \in runFramesOf(frames, c)
    BY <2>1, <2>4, Zenon DEF runFramesOf
  <2>. QED
    BY <2>1, <2>5
<1>3. f \in [Over(c) -> runs \ alive]
  <2>. SUFFICES ASSUME NEW i \in Over(c) PROVE frames[i].run \in runs \ alive
    OBVIOUS
  <2>. QED
    BY BestFacts DEF Over
<1>4. \A i, j \in Over(c) : f[i] = f[j] => i = j
  BY BestFacts DEF Over
<1>5. \A r \in runs \ alive : \E i \in Over(c) : f[i] = r
  <2>. SUFFICES ASSUME NEW r \in runs \ alive PROVE \E i \in Over(c) : f[i] = r
    OBVIOUS
  <2>1. PICK j \in runFramesOf(frames, c) : r = frames[j].run
    OBVIOUS
  <2>2. PICK i \in bestByRunId(frames, c) : frames[i].run = r
    BY <2>1, BestFacts
  <2>3. frames[r].cell = c
    BY <2>1, OwnFacts
  <2>4. r \notin live
    BY <2>3
  <2>5. i \in Over(c)
    BY <2>2, <2>4, BestFacts DEF Over
  <2>. QED
    BY <2>2, <2>5
<1>. HIDE DEF f, runs, alive
<1>6. Cardinality(runs \ alive) = Cardinality(Over(c))
  BY <1>3, <1>4, <1>5, SameSize, HistoryFacts
<1>7. Cardinality(runs \ alive) = Cardinality(runs) - Cardinality(alive)
  <2>1. runs \cap alive = alive
    BY <1>2
  <2>. QED
    BY <1>1, <2>1, FS_Difference
<1>8. Cardinality(alive) \in Nat /\ Cardinality(Over(c)) \in Nat
  BY <1>1, <1>2, FS_Subset, FS_CardinalityType, HistoryFacts
<1>. QED
  BY <1>1, <1>6, <1>7, <1>8 DEF runs, alive, runCountForCell

\* The Inspect badge of a cell shows its newest run, and of a run that is over
\* the record that says so; it is missing only when the cell has no readable
\* record; the history has every run that is over once, oldest first; the count
\* agrees with both (latestRunFrameForCell, runFrameHistoryForCell and
\* runCountForCell of run-frame-reader.ts), however many records a run has.
THEOREM InspectIsTruthful == Spec => []InspectTruthful
<1>1. RecordsInv => InspectTruthful
  <2>. SUFFICES ASSUME RecordsInv, NEW c \in Cells
                PROVE  LET own == runFramesOf(frames, c)
                           badge == computeInspectCellStatus(frames, c)
                           i == badge.frame
                           past == runFrameHistoryForCell(frames, c)
                       IN  /\ (i = 0) <=> (own = {})
                           /\ i # 0 => /\ \A j \in own : frames[j].start <= frames[i].start
                                       /\ isTerminal(frames[i]) <=> frames[i].run \notin live
                           /\ \A k \in 1 .. Len(past) - 1 :
                                frames[past[k]].start <= frames[past[k + 1]].start
                           /\ Len(past) + Cardinality({r \in live : frames[r].cell = c})
                                = badge.count
    BY DEF InspectTruthful
  <2>. DEFINE i == latestRunFrameForCell(frames, c)
              badge == computeInspectCellStatus(frames, c)
              past == runFrameHistoryForCell(frames, c)
  <2>1. badge.frame = i /\ badge.count = (IF i = 0 THEN 0 ELSE runCountForCell(frames, c))
    BY DEF computeInspectCellStatus
  <2>2. (i = 0) <=> (runFramesOf(frames, c) = {})
    BY LatestFacts
  <2>3. i # 0 => /\ \A j \in runFramesOf(frames, c) : frames[j].start <= frames[i].start
                 /\ isTerminal(frames[i]) <=> frames[i].run \notin live
    BY LatestFacts, BestFacts
  <2>4. badge.count = runCountForCell(frames, c)
    <3>1. CASE i = 0
      <4>1. {frames[k].run : k \in runFramesOf(frames, c)} = {}
        BY <2>2, <3>1
      <4>2. runCountForCell(frames, c) = 0
        BY <4>1, FS_EmptySet DEF runCountForCell
      <4>. QED
        BY <2>1, <3>1, <4>2
    <3>2. CASE i # 0
      BY <2>1, <3>2
    <3>. QED
      BY <3>1, <3>2
  <2>5. \A k \in 1 .. Len(past) - 1 : frames[past[k]].start <= frames[past[k + 1]].start
    BY HistoryFacts
  <2>6. Len(past) + Cardinality({r \in live : frames[r].cell = c}) = badge.count
    BY <2>4, HistoryFacts, CountFacts
  <2>. HIDE DEF i, badge, past
  <2>. QED
    BY <2>1, <2>2, <2>3, <2>5, <2>6 DEF badge, past
<1>. QED
  BY <1>1, AlwaysRecords, PTL

-----------------------------------------------------------------------------
(* The branches of the agents.                                             *)

LogRecord ==
  [type : OtherTypes \cup {"fork"}, agent : Agents, branch : Agents, ts : Nat,
   outcome : {"made", "refused"}]

Forks(l) == {i \in 1 .. Len(l) : l[i].type = "fork"}

Made(l) == {i \in Forks(l) : l[i].outcome = "made"}

\* The log l of a kernel that has the agents in known: of the requests it
\* carried out, an agent is forked at most once, from one that it had by then,
\* and before it is forked itself.
ForksOK(l, known) ==
  /\ l \in Seq(LogRecord)
  /\ \A i \in Made(l) : l[i].agent \in known /\ l[i].branch \in known
  /\ \A i, j \in Made(l) : l[i].branch = l[j].branch => i = j
  /\ \A i, j \in Made(l) : l[j].branch = l[i].agent => j < i

LineageInv ==
  writes \in Nat /\ DOMAIN agents \subseteq Agents /\ ForksOK(log, DOMAIN agents)

\* An entry added at the end.
LEMMA AppendEntry ==
  ASSUME NEW l \in Seq(LogRecord), NEW e \in LogRecord
  PROVE  /\ Append(l, e) \in Seq(LogRecord) /\ Len(l) \in Nat
         /\ Len(Append(l, e)) = Len(l) + 1
         /\ \A i \in 1 .. Len(l) : Append(l, e)[i] = l[i]
         /\ Append(l, e)[Len(l) + 1] = e
OBVIOUS

\* The forks that were made, with an entry more.
LEMMA MoreMade ==
  ASSUME NEW l \in Seq(LogRecord), NEW e \in LogRecord
  PROVE  /\ Made(Append(l, e)) =
              Made(l) \cup (IF e.type = "fork" /\ e.outcome = "made" THEN {Len(l) + 1} ELSE {})
         /\ \A i \in Made(l) : Append(l, e)[i] = l[i] /\ i \in Nat /\ i < Len(l) + 1
         /\ Append(l, e)[Len(l) + 1] = e /\ Len(l) + 1 \in Nat
         /\ Append(l, e) \in Seq(LogRecord)
<1>. DEFINE m == Append(l, e)
            n == Len(l)
<1>1. /\ m \in Seq(LogRecord) /\ n \in Nat /\ Len(m) = n + 1
      /\ \A i \in 1 .. n : m[i] = l[i]
      /\ m[n + 1] = e
  BY AppendEntry
<1>. HIDE DEF m, n
<1>2. \A i : i \in 1 .. n + 1 <=> i \in 1 .. n \/ i = n + 1
  BY <1>1
<1>3. Made(m) = {i \in 1 .. n : l[i].type = "fork" /\ l[i].outcome = "made"}
             \cup (IF e.type = "fork" /\ e.outcome = "made" THEN {n + 1} ELSE {})
  BY <1>1, <1>2 DEF Forks, Made
<1>4. \A i \in Made(l) : i \in 1 .. n
  BY DEF Forks, Made, n
<1>5. \A i \in Made(l) : m[i] = l[i] /\ i \in Nat /\ i < n + 1
  BY <1>1, <1>4
<1>. QED
  BY <1>1, <1>3, <1>5 DEF m, n, Forks, Made

\* A fork is logged and made.
LEMMA ForkLogged ==
  ASSUME NEW l, NEW known, ForksOK(l, known), NEW e \in LogRecord,
         e.type = "fork", e.outcome = "made", e.agent \in known, e.branch \notin known
  PROVE  ForksOK(Append(l, e), known \cup {e.branch})
<1>. DEFINE m == Append(l, e)
            n == Len(l)
<1>0. l \in Seq(LogRecord)
  BY DEF ForksOK
<1>1. /\ Made(m) = Made(l) \cup {n + 1} /\ m \in Seq(LogRecord)
      /\ \A i \in Made(l) : m[i] = l[i] /\ i \in Nat /\ i < n + 1
      /\ m[n + 1] = e /\ n + 1 \in Nat
  BY <1>0, MoreMade
<1>. HIDE DEF m, n
<1>2. \A i \in Made(l) : l[i].agent \in known /\ l[i].branch \in known
  BY DEF ForksOK
<1>3. \A i \in Made(m) : m[i].agent \in known /\ m[i].branch \in known \cup {e.branch}
  BY <1>1, <1>2
<1>4. \A i, j \in Made(m) : m[i].branch = m[j].branch => i = j
  <2>. SUFFICES ASSUME NEW i \in Made(m), NEW j \in Made(m), m[i].branch = m[j].branch
                PROVE  i = j
    OBVIOUS
  <2>1. CASE i \in Made(l) /\ j \in Made(l)
    BY <1>1, <2>1 DEF ForksOK
  <2>2. CASE i = n + 1 /\ j \in Made(l)
    BY <1>1, <1>2, <2>2
  <2>3. CASE i \in Made(l) /\ j = n + 1
    BY <1>1, <1>2, <2>3
  <2>. QED
    BY <1>1, <2>1, <2>2, <2>3
<1>5. \A i, j \in Made(m) : m[j].branch = m[i].agent => j < i
  <2>. SUFFICES ASSUME NEW i \in Made(m), NEW j \in Made(m), m[j].branch = m[i].agent
                PROVE  j < i
    OBVIOUS
  <2>1. CASE i \in Made(l) /\ j \in Made(l)
    BY <1>1, <2>1 DEF ForksOK
  <2>2. CASE i = n + 1 /\ j \in Made(l)
    BY <1>1, <2>2
  <2>3. CASE j = n + 1
    \* An agent the kernel does not have is not forked.
    BY <1>1, <1>3, <2>3
  <2>. QED
    BY <1>1, <2>1, <2>2, <2>3
<1>6. ForksOK(m, known \cup {e.branch})
  BY <1>1, <1>3, <1>4, <1>5 DEF ForksOK
<1>. QED
  BY <1>6 DEF m

\* Something else is logged, or a fork that is refused.
LEMMA OtherLogged ==
  ASSUME NEW l, NEW known, ForksOK(l, known), NEW e \in LogRecord,
         e.type # "fork" \/ e.outcome # "made"
  PROVE  ForksOK(Append(l, e), known)
<1>. DEFINE m == Append(l, e)
<1>0. l \in Seq(LogRecord)
  BY DEF ForksOK
<1>1. /\ Made(m) = Made(l) /\ m \in Seq(LogRecord)
      /\ \A i \in Made(l) : m[i] = l[i]
  <2>1. Made(m) = Made(l) \cup {}
    BY <1>0, MoreMade
  <2>. QED
    BY <1>0, <2>1, MoreMade
<1>. HIDE DEF m
<1>2. ForksOK(m, known)
  BY <1>1 DEF ForksOK
<1>. QED
  BY <1>2 DEF m

\* Every step keeps the forks in order.
LEMMA NextLineage == LineageInv /\ [Next]_vars => LineageInv'
<1>. SUFFICES ASSUME LineageInv, [Next]_vars PROVE LineageInv'
  OBVIOUS
<1>. USE DEF LineageInv
<1>1. now \in Nat
  BY ClockFacts DEF now
<1>2. ASSUME NEW f, NEW l, NEW s, NEW a, KernelWrites(f, l, s, a)
      PROVE  writes' \in Nat /\ log' = l /\ agents' = a
  BY <1>2 DEF KernelWrites
\* A write that logs nothing leaves the kernel the agents it has.
<1>3. ASSUME NEW f, NEW s, NEW a, KernelWrites(f, log, s, a),
             DOMAIN agents \subseteq DOMAIN a, DOMAIN a \subseteq Agents
      PROVE  LineageInv'
  <2>1. ForksOK(log, DOMAIN a)
    BY <1>3 DEF ForksOK
  <2>. QED
    BY <1>2, <1>3, <2>1
<1>4. ASSUME NEW a \in Agents, NEW c, StartRun(a, c) PROVE LineageInv'
  <2>. DEFINE more == [x \in DOMAIN agents \cup {a} |-> IF x = a THEN "alive" ELSE agents[x]]
  <2>1. \E f : KernelWrites(f, log, spans, more)
    BY <1>4 DEF StartRun
  <2>2. DOMAIN more = DOMAIN agents \cup {a}
    OBVIOUS
  <2>. HIDE DEF more
  <2>. QED
    BY <1>3, <2>1, <2>2
<1>5. ASSUME NEW a \in Agents, NEW b \in Agents, NEW ts \in {0, now}, LogFork(a, b, ts)
      PROVE  LineageInv'
  <2>. DEFINE made == a \in DOMAIN agents /\ b \notin DOMAIN agents
              e == [type |-> "fork", agent |-> a, branch |-> b, ts |-> ts,
                    outcome |-> IF made THEN "made" ELSE "refused"]
              more == [x \in DOMAIN agents \cup {b} |-> IF x = b THEN "idle" ELSE agents[x]]
  <2>1. KernelWrites(frames, Append(log, e), spans, IF made THEN more ELSE agents)
    BY <1>5, Zenon DEF LogFork
  <2>2. /\ e \in LogRecord /\ e.type = "fork" /\ e.agent = a /\ e.branch = b
        /\ e.outcome = IF made THEN "made" ELSE "refused"
    BY <1>1 DEF LogRecord
  <2>3. DOMAIN more = DOMAIN agents \cup {b}
    OBVIOUS
  <2>. HIDE DEF e, more
  <2>4. CASE made
    <3>1. ForksOK(Append(log, e), DOMAIN agents \cup {b})
      BY <2>2, <2>4, ForkLogged
    <3>2. KernelWrites(frames, Append(log, e), spans, more)
      BY <2>1, <2>4
    <3>. QED
      BY <1>2, <2>3, <3>1, <3>2
  <2>5. CASE ~made
    <3>1. ForksOK(Append(log, e), DOMAIN agents)
      <4>1. e.outcome # "made"
        BY <2>2, <2>5
      <4>. QED
        BY <2>2, <4>1, OtherLogged
    <3>2. KernelWrites(frames, Append(log, e), spans, agents)
      BY <2>1, <2>5
    <3>. QED
      BY <1>2, <3>1, <3>2
  <2>. QED
    BY <2>4, <2>5
<1>6. ASSUME NEW a \in Agents, NEW type \in OtherTypes, LogOther(a, type) PROVE LineageInv'
  <2>. DEFINE e == [type |-> type, agent |-> a, branch |-> a, ts |-> now, outcome |-> "made"]
  <2>1. KernelWrites(frames, Append(log, e), spans, agents)
    BY <1>6 DEF LogOther
  <2>2. e \in LogRecord /\ e.type # "fork"
    BY <1>1 DEF LogRecord, OtherTypes
  <2>. HIDE DEF e
  <2>3. ForksOK(Append(log, e), DOMAIN agents)
    BY <2>2, OtherLogged
  <2>. QED
    BY <1>2, <2>1, <2>3
<1>7. ASSUME NEW r, NEW status, NEW stamped,
             EndRun(r, status, stamped) \/ EndRunBeside(r, status, stamped)
      PROVE  LineageInv'
  <2>1. \E f : KernelWrites(f, log, spans, agents)
    BY <1>7 DEF EndRun, EndRunBeside
  <2>. QED
    BY <1>3, <2>1
<1>8. ASSUME NEW a, NEW kind, NEW t, CloseSpan(a, kind, t) PROVE LineageInv'
  <2>1. \E s : KernelWrites(frames, log, s, agents)
    BY <1>8 DEF CloseSpan
  <2>. QED
    BY <1>3, <2>1
<1>9. ASSUME NEW a, AgentTerminates(a) PROVE LineageInv'
  <2>. DEFINE less == [agents EXCEPT ![a] = "terminated"]
  <2>1. KernelWrites(frames, log, spans, less)
    BY <1>9 DEF AgentTerminates
  <2>2. DOMAIN less = DOMAIN agents
    OBVIOUS
  <2>. HIDE DEF less
  <2>. QED
    BY <1>3, <2>1, <2>2
<1>10. CASE UNCHANGED document
  BY <1>10 DEF document
<1>11. ASSUME NEW a, DrawRow(a) \/ ClickStop(a) PROVE UNCHANGED document
  BY <1>11 DEF DrawRow, ClickStop
<1>12. FocusChanges \/ Fire \/ LoadMore \/ UNCHANGED vars => UNCHANGED document
  BY DEF FocusChanges, Fire, LoadMore, vars
<1>. QED
  BY <1>4, <1>5, <1>6, <1>7, <1>8, <1>9, <1>10, <1>11, <1>12 DEF Next

LEMMA AlwaysLineage == Spec => []LineageInv
<1>1. Init => LineageInv
  <2>. SUFFICES ASSUME Init PROVE LineageInv
    OBVIOUS
  <2>1. log = <<>> /\ agents = <<>> /\ writes = 0 /\ Len(<<>>) = 0 /\ <<>> \in Seq(LogRecord)
        /\ DOMAIN agents = {}
    BY DEF Init
  <2>2. Made(log) = {}
    BY <2>1 DEF Forks, Made
  <2>. QED
    BY <2>1, <2>2 DEF LineageInv, ForksOK
<1>. QED
  BY <1>1, NextLineage, PTL DEF Spec

\* The requests to fork to b, and those among them that the lineage files.
FiledTo(b) == {k \in parents(log) : log[k].branch = b}

\* A branch whose requests were carried out has one at most, and it is filed
\* under that one.
LEMMA FiledIs ==
  ASSUME LineageInv, NEW b, Carried(b)
  PROVE  /\ \A i \in ForksTo(b) : i \in Made(log) /\ log[i].branch = b
         /\ \A i \in Forks(log) : log[i].branch = b => i \in ForksTo(b)
         /\ \A i, j \in ForksTo(b) : i = j
         /\ FiledTo(b) = ForksTo(b)
         /\ parentOf(b) = {log[i].agent : i \in ForksTo(b)}
<1>1. log \in Seq(LogRecord)
  BY DEF LineageInv, ForksOK
<1>2. DOMAIN log = 1 .. Len(log)
  BY <1>1
<1>3. \A i \in ForksTo(b) : i \in Made(log) /\ log[i].branch = b
  BY <1>2 DEF ForksTo, Carried, Made, Forks
<1>4. \A i \in Forks(log) : log[i].branch = b => i \in ForksTo(b)
  BY <1>2 DEF ForksTo, Forks
<1>5. \A i, j \in ForksTo(b) : i = j
  BY <1>3 DEF LineageInv, ForksOK
<1>6. {i \in DOMAIN log : extractForkRecord(log[i])} = Forks(log)
  BY <1>2 DEF Forks, extractForkRecord
<1>7. parents(log) = {i \in Forks(log) : \A j \in Forks(log) :
                        log[j].branch = log[i].branch => i <= j}
  BY <1>6 DEF parents
<1>8. \A i \in Forks(log) : i <= i
  BY DEF Forks
<1>9. \A i \in ForksTo(b) : i \in Forks(log)
  BY <1>3 DEF Made
<1>10. FiledTo(b) = ForksTo(b)
  <2>1. \A k \in FiledTo(b) : k \in ForksTo(b)
    BY <1>4, <1>7 DEF FiledTo
  <2>2. ASSUME NEW i \in ForksTo(b) PROVE i \in FiledTo(b)
    <3>1. \A j \in Forks(log) : log[j].branch = log[i].branch => i <= j
      BY <1>3, <1>4, <1>5, <1>8, <1>9
    <3>. QED
      BY <1>3, <1>7, <1>9, <3>1 DEF FiledTo
  <2>. QED
    BY <2>1, <2>2
<1>11. parentOf(b) = {log[i].agent : i \in FiledTo(b)}
  BY DEF parentOf, FiledTo
<1>. QED
  BY <1>3, <1>4, <1>5, <1>10, <1>11

\* What children compares by.
Earlier(i, j) ==
  \/ log[i].ts > 0 /\ ~(log[j].ts > 0)
  \/ log[i].ts > 0 /\ log[j].ts > 0 /\ log[i].ts < log[j].ts
  \/ ((log[i].ts > 0) <=> (log[j].ts > 0)) /\ (log[i].ts = log[j].ts) /\ i < j

ForksOf(a) == {i \in Forks(log) : log[i].agent = a}

EarlierFirst(S) == {p \in S \X S : Earlier(p[1], p[2])}

\* The children of an agent are its forks, the known times in order.
LEMMA ChildrenFacts ==
  ASSUME LineageInv, NEW a
  PROVE  /\ Cardinality(ForksOf(a)) \in Nat
         /\ children(log, a) \in [1 .. Cardinality(ForksOf(a)) -> ForksOf(a)]
         /\ \A k, m \in 1 .. Cardinality(ForksOf(a)) :
              k < m => Earlier(children(log, a)[k], children(log, a)[m])
         /\ \A k, m \in 1 .. Cardinality(ForksOf(a)) :
              children(log, a)[k] = children(log, a)[m] => k = m
<1>. DEFINE S == ForksOf(a)
            R == EarlierFirst(S)
            kids == children(log, a)
<1>0. log \in Seq(LogRecord)
  BY DEF LineageInv, ForksOK
<1>1. DOMAIN log = 1 .. Len(log) /\ Len(log) \in Nat
  BY <1>0
<1>2. \A i \in S : i \in Nat /\ i <= Len(log) /\ log[i].ts \in Nat
  <2>. SUFFICES ASSUME NEW i \in S PROVE i \in Nat /\ i <= Len(log) /\ log[i].ts \in Nat
    OBVIOUS
  <2>1. i \in 1 .. Len(log)
    BY DEF ForksOf, Forks
  <2>2. log[i] \in LogRecord
    BY <1>0, <2>1
  <2>3. log[i].ts \in Nat
    BY <2>2 DEF LogRecord
  <2>. QED
    BY <1>1, <2>1, <2>3
<1>3. IsFiniteSet(S)
  <2>1. S \in SUBSET Nat /\ \A i \in S : i <= Len(log)
    BY <1>2
  <2>. QED
    BY <1>1, <2>1, FS_BoundedSetOfNaturals
<1>4. \A i, j \in S : <<i, j>> \in R <=> Earlier(i, j)
  BY DEF EarlierFirst
<1>5. kids = RankSeq(S, R)
  <2>. DEFINE T == {i \in DOMAIN log : extractForkRecord(log[i]) /\ log[i].agent = a}
              rank == [y \in T |-> Cardinality({z \in T : Earlier(z, y)})]
  <2>1. T = S
    BY <1>1 DEF ForksOf, Forks, extractForkRecord
  <2>2. kids = Ranked(T, rank)
    BY Zenon DEF children, SortedBy, Earlier, Ranked
  <2>. HIDE DEF T
  <2>3. \A x \in S : {z \in S : Earlier(z, x)} = Below(S, R, x)
    BY <1>4 DEF Below
  <2>. HIDE DEF S, R
  <2>4. \A x \in S : rank[x] = Cardinality(Below(S, R, x))
    BY <2>1, <2>3
  <2>. HIDE DEF rank
  <2>. QED
    BY <2>1, <2>2, <2>4, RankIs
<1>. HIDE DEF S, R, kids
<1>6. Orders(R, S)
  <2>1. \A x \in S : <<x, x>> \notin R
    BY <1>2, <1>4 DEF Earlier
  <2>2. ASSUME NEW x \in S, NEW y \in S, NEW z \in S, <<x, y>> \in R, <<y, z>> \in R
        PROVE  <<x, z>> \in R
    <3>1. Earlier(x, y) /\ Earlier(y, z)
      BY <1>4, <2>2
    <3>2. /\ log[x].ts \in Nat /\ log[y].ts \in Nat /\ log[z].ts \in Nat
          /\ x \in Nat /\ y \in Nat /\ z \in Nat
      BY <1>2
    <3>3. Earlier(x, z)
      BY <3>1, <3>2 DEF Earlier
    <3>. QED
      BY <1>4, <3>3
  <2>3. ASSUME NEW x \in S, NEW y \in S PROVE x = y \/ <<x, y>> \in R \/ <<y, x>> \in R
    <3>1. log[x].ts \in Nat /\ log[y].ts \in Nat /\ x \in Nat /\ y \in Nat
      BY <1>2
    <3>2. x = y \/ Earlier(x, y) \/ Earlier(y, x)
      BY <3>1 DEF Earlier
    <3>. QED
      BY <1>4, <3>2
  <2>. QED
    BY <2>1, <2>2, <2>3 DEF Orders
<1>7. /\ Cardinality(S) \in Nat /\ kids \in [1 .. Cardinality(S) -> S]
      /\ \A k, m \in 1 .. Cardinality(S) : k < m => <<kids[k], kids[m]>> \in R
      /\ \A k, m \in 1 .. Cardinality(S) : kids[k] = kids[m] => k = m
  BY <1>3, <1>5, <1>6, SortFacts
<1>8. \A k, m \in 1 .. Cardinality(S) : k < m => Earlier(kids[k], kids[m])
  BY <1>4, <1>7
<1>. QED
  BY <1>7, <1>8 DEF S, kids

\* A set of branches whose requests were carried out has one whose parent is
\* not in it: otherwise the earliest fork of a member would be of an agent that
\* is forked earlier still.
LEMMA NoLoop ==
  ASSUME LineageInv, NEW loop, NEW b0 \in loop, \A b \in loop : Carried(b)
  PROVE  \E b \in loop : \A i \in ForksTo(b) : log[i].agent \notin loop
<1>. SUFFICES ASSUME \A b \in loop : \E i \in ForksTo(b) : log[i].agent \in loop
              PROVE  FALSE
  OBVIOUS
<1>1. \A b \in loop : \E i \in Made(log) : log[i].branch = b /\ log[i].agent \in loop
  BY FiledIs
<1>. DEFINE X == {i \in Made(log) : log[i].branch \in loop}
<1>2. X \subseteq Nat /\ X # {}
  <2>1. X \subseteq Nat
    BY DEF Made, Forks
  <2>. QED
    BY <1>1, <2>1
<1>3. PICK m \in X : \A n \in X : m <= n
  BY <1>2, LeastExists
<1>4. PICK k \in Made(log) : log[k].branch = log[m].branch /\ log[k].agent \in loop
  BY <1>1, <1>3
<1>5. k = m
  BY <1>3, <1>4 DEF LineageInv, ForksOK
<1>6. PICK j \in Made(log) : log[j].branch = log[m].agent
  BY <1>1, <1>4, <1>5
<1>7. j < m
  BY <1>3, <1>6 DEF LineageInv, ForksOK
<1>8. j \in X
  BY <1>4, <1>5, <1>6
<1>. QED
  BY <1>2, <1>3, <1>7, <1>8

\* The branches form a forest: each whose requests were carried out hangs under
\* the one agent that it was forked from, once, and none of these is its own
\* ancestor; the roots are the agents without a parent, and the branches of an
\* agent are in the order of their requests as far as the times are known
\* (agent-lineage.ts).
THEOREM BranchesFormForest == Spec => []LineageForest
<1>1. LineageInv => LineageForest
  <2>. SUFFICES ASSUME LineageInv PROVE LineageForest
    OBVIOUS
  <2>1. \A b \in Agents : Carried(b) => parentOf(b) = {log[i].agent : i \in ForksTo(b)}
    BY FiledIs
  <2>2. ASSUME NEW a \in Agents
        PROVE  LET kids == children(log, a)
               IN  /\ \A k \in DOMAIN kids : LET b == log[kids[k]].branch IN Carried(b) =>
                        /\ parentOf(b) = {a}
                        /\ \A m \in DOMAIN kids : log[kids[m]].branch = b => m = k
                   /\ \A k, m \in DOMAIN kids :
                        k < m /\ log[kids[k]].ts > 0 /\ log[kids[m]].ts > 0
                        => log[kids[k]].ts <= log[kids[m]].ts
    <3>. DEFINE kids == children(log, a)
    <3>1. /\ Cardinality(ForksOf(a)) \in Nat
          /\ kids \in [1 .. Cardinality(ForksOf(a)) -> ForksOf(a)]
          /\ \A k, m \in 1 .. Cardinality(ForksOf(a)) : k < m => Earlier(kids[k], kids[m])
          /\ \A k, m \in 1 .. Cardinality(ForksOf(a)) : kids[k] = kids[m] => k = m
      BY ChildrenFacts
    <3>. HIDE DEF kids
    <3>2. DOMAIN kids = 1 .. Cardinality(ForksOf(a)) /\ \A k \in DOMAIN kids : kids[k] \in ForksOf(a)
      BY <3>1
    <3>3. ASSUME NEW k \in DOMAIN kids, Carried(log[kids[k]].branch)
          PROVE  /\ parentOf(log[kids[k]].branch) = {a}
                 /\ \A m \in DOMAIN kids : log[kids[m]].branch = log[kids[k]].branch => m = k
      <4>. DEFINE b == log[kids[k]].branch
      <4>1. \A m \in DOMAIN kids : kids[m] \in Forks(log) /\ log[kids[m]].agent = a
        BY <3>2 DEF ForksOf
      <4>. HIDE DEF b
      <4>2. \A m \in DOMAIN kids : log[kids[m]].branch = b => kids[m] \in ForksTo(b)
        BY <3>3, <4>1, FiledIs DEF b
      <4>3. kids[k] \in ForksTo(b)
        BY <4>2 DEF b
      <4>4. \A i \in ForksTo(b) : i = kids[k]
        BY <3>3, <4>3, FiledIs DEF b
      <4>5. parentOf(b) = {log[i].agent : i \in ForksTo(b)}
        BY <3>3, FiledIs DEF b
      <4>6. parentOf(b) = {a}
        BY <4>1, <4>3, <4>4, <4>5
      <4>7. \A m \in DOMAIN kids : log[kids[m]].branch = b => m = k
        BY <3>1, <3>2, <4>2, <4>4
      <4>. QED
        BY <4>6, <4>7 DEF b
    <3>4. ASSUME NEW k \in DOMAIN kids, NEW m \in DOMAIN kids, k < m,
                 log[kids[k]].ts > 0, log[kids[m]].ts > 0
          PROVE  log[kids[k]].ts <= log[kids[m]].ts
      <4>1. Earlier(kids[k], kids[m])
        BY <3>1, <3>2, <3>4
      <4>2. log[kids[k]].ts \in Nat /\ log[kids[m]].ts \in Nat
        <5>1. kids[k] \in 1 .. Len(log) /\ kids[m] \in 1 .. Len(log) /\ log \in Seq(LogRecord)
          BY <3>2 DEF ForksOf, Forks, LineageInv, ForksOK
        <5>2. log[kids[k]] \in LogRecord /\ log[kids[m]] \in LogRecord
          BY <5>1
        <5>. QED
          BY <5>2 DEF LogRecord
      <4>. QED
        BY <3>4, <4>1, <4>2 DEF Earlier
    <3>. QED
      BY <3>3, <3>4, Zenon DEF kids
  <2>3. \A b \in Agents : parentOf(b) = {} <=> b \in rootAgentIds(Agents, log)
    BY DEF rootAgentIds, parentOf
  <2>4. ASSUME NEW loop \in (SUBSET {b \in Agents : Carried(b)}) \ {{}}
        PROVE  \E b \in loop : parentOf(b) \cap loop = {}
    <3>1. loop # {} /\ \A b \in loop : Carried(b)
      OBVIOUS
    <3>2. PICK b0 \in loop : TRUE
      BY <3>1
    <3>3. PICK b \in loop : \A i \in ForksTo(b) : log[i].agent \notin loop
      BY <3>1, <3>2, NoLoop
    <3>4. parentOf(b) = {log[i].agent : i \in ForksTo(b)}
      BY <3>1, FiledIs
    <3>5. parentOf(b) \cap loop = {}
      BY <3>3, <3>4
    <3>. QED
      BY <3>5
  <2>. QED
    BY <2>1, <2>2, <2>3, <2>4, Zenon DEF LineageForest
<1>. QED
  BY <1>1, AlwaysLineage, PTL

-----------------------------------------------------------------------------
(* The activity feed.                                                      *)

VisibleOK == maxVisible \in Nat

FeedInv == RecordsInv /\ LineageInv /\ VisibleOK

LEMMA AlwaysFeed == Spec => []FeedInv
<1>1. Init => VisibleOK
  BY RunViewsAssumption DEF Init, VisibleOK
<1>2. VisibleOK /\ [Next]_vars => VisibleOK'
  <2>. SUFFICES ASSUME maxVisible \in Nat, [Next]_vars PROVE maxVisible' \in Nat
    BY DEF VisibleOK
  <2>1. CASE LoadMore
    <3>1. maxVisible' = maxVisible + Step
      BY <2>1 DEF LoadMore
    <3>2. Step \in Nat
      BY RunViewsAssumption
    <3>. QED
      BY <3>1, <3>2
  <2>2. CASE Next /\ ~LoadMore
    BY <2>2 DEF Next, StartRun, EndRun, EndRunBeside, CloseSpan, LogFork, LogOther,
       AgentTerminates, KernelWrites, DrawRow, ClickStop, FocusChanges, Fire
  <2>3. CASE UNCHANGED vars
    BY <2>3 DEF vars
  <2>. QED
    BY <2>1, <2>2, <2>3
<1>3. RecordsInv /\ LineageInv /\ VisibleOK => FeedInv
  BY DEF FeedInv
<1>. QED
  BY <1>1, <1>2, <1>3, AlwaysRecords, AlwaysLineage, PTL DEF Spec

FromLog == EventLogEntries(log)
FromFrames == RunFrameEntries(frames, Len(log))
Feed == FromLog \cup FromFrames

StartOf(i) == Entry("run_start", frames[i].start, frames[i].run, Len(log) + 2 * i - 1)
EndOf(i) == Entry("run_end", frames[i].end, frames[i].run, Len(log) + 2 * i - 1 + 1)

LEMMA EntryFields ==
  ASSUME NEW type, NEW ts, NEW of, NEW at
  PROVE  /\ Entry(type, ts, of, at).type = type /\ Entry(type, ts, of, at).ts = ts
         /\ Entry(type, ts, of, at).of = of /\ Entry(type, ts, of, at).at = at
BY DEF Entry

\* What the log contributes: at most one entry for each of its own.
LEMMA LogEntries ==
  ASSUME FeedInv
  PROVE  /\ Len(log) \in Nat
         /\ \A e \in FromLog : /\ e.at \in 1 .. Len(log) /\ e.ts \in Nat
                               /\ e.type \notin {"run_start", "run_end"}
         /\ \A d, e \in FromLog : d.at = e.at => d = e
<1>0. log \in Seq(LogRecord)
  BY DEF FeedInv, LineageInv, ForksOK
<1>1. DOMAIN log = 1 .. Len(log) /\ Len(log) \in Nat
  BY <1>0
<1>. DEFINE C(i) == classifyEventLogEntry(log[i], i)
<1>2. ASSUME NEW i \in 1 .. Len(log)
      PROVE  C(i) = {} \/ \E type \in {"agent_revert", "agent_branch", "ref_move", "agent_spawn"} :
                            C(i) = {Entry(type, log[i].ts, log[i].agent, i)}
  <2>1. log[i].type \in OtherTypes \cup {"fork"}
    <3>1. log[i] \in LogRecord
      BY <1>0
    <3>. QED
      BY <3>1 DEF LogRecord
  <2>. QED
    BY <2>1 DEF classifyEventLogEntry, OtherTypes
<1>3. ASSUME NEW e \in FromLog
      PROVE  \E i \in 1 .. Len(log) : C(i) = {e} /\ e.at = i /\ e.ts = log[i].ts
                                      /\ e.type \notin {"run_start", "run_end"}
  <2>1. PICK i \in 1 .. Len(log) : e \in C(i)
    BY <1>1 DEF FromLog, EventLogEntries
  <2>. HIDE DEF C
  <2>2. PICK type \in {"agent_revert", "agent_branch", "ref_move", "agent_spawn"} :
          C(i) = {Entry(type, log[i].ts, log[i].agent, i)}
    BY <1>2, <2>1
  <2>3. e = Entry(type, log[i].ts, log[i].agent, i)
    BY <2>1, <2>2
  <2>4. e.at = i /\ e.ts = log[i].ts /\ e.type = type
    BY <2>3, EntryFields
  <2>. QED
    BY <2>2, <2>3, <2>4
<1>. HIDE DEF C
<1>4. \A i \in 1 .. Len(log) : log[i].ts \in Nat
  <2>1. \A i \in 1 .. Len(log) : log[i] \in LogRecord
    BY <1>0
  <2>. QED
    BY <2>1 DEF LogRecord
<1>5. \A e \in FromLog : e.at \in 1 .. Len(log) /\ e.ts \in Nat
                         /\ e.type \notin {"run_start", "run_end"}
  BY <1>3, <1>4
<1>6. ASSUME NEW d \in FromLog, NEW e \in FromLog, d.at = e.at PROVE d = e
  <2>1. C(d.at) = {d} /\ C(e.at) = {e}
    BY <1>3
  <2>. QED
    BY <1>6, <2>1
<1>. QED
  BY <1>1, <1>5, <1>6

\* What the records contribute: the start of each and the end of those with one.
LEMMA FrameEntries ==
  ASSUME FeedInv
  PROVE  /\ Len(frames) \in Nat /\ DOMAIN frames = 1 .. Len(frames)
         /\ \A i \in 1 .. Len(frames) : StartOf(i) \in FromFrames
         /\ \A e \in FromFrames : \E i \in 1 .. Len(frames) :
              e = StartOf(i) \/ (frames[i].end # 0 /\ e = EndOf(i))
         /\ \A i \in 1 .. Len(frames) : frames[i].start \in Nat /\ frames[i].end \in Nat
<1>0. frames \in Seq(FrameRecord)
  BY DEF FeedInv, RecordsInv, RecordsOK
<1>1. DOMAIN frames = 1 .. Len(frames) /\ Len(frames) \in Nat
  BY <1>0
<1>2. \A i \in 1 .. Len(frames) : frames[i].start \in Nat \ {0} /\ frames[i].end \in Nat
  <2>1. \A i \in 1 .. Len(frames) : frames[i] \in FrameRecord
    BY <1>0
  <2>. QED
    BY <2>1, RecordFields
<1>. DEFINE C(i) == classifyRunFrame(frames[i], Len(log) + 2 * i - 1)
<1>3. ASSUME NEW i \in 1 .. Len(frames)
      PROVE  C(i) = {StartOf(i)} \cup (IF frames[i].end # 0 THEN {EndOf(i)} ELSE {})
  <2>1. frames[i].start > 0 /\ (frames[i].end > 0 <=> frames[i].end # 0)
    BY <1>2
  <2>. QED
    BY <2>1, Zenon DEF classifyRunFrame, StartOf, EndOf
<1>4. FromFrames = UNION {C(i) : i \in 1 .. Len(frames)}
  BY <1>1, Zenon DEF FromFrames, RunFrameEntries
<1>. HIDE DEF C
<1>5. \A i \in 1 .. Len(frames) : StartOf(i) \in FromFrames
  BY <1>3, <1>4
<1>6. ASSUME NEW e \in FromFrames
      PROVE  \E i \in 1 .. Len(frames) : e = StartOf(i) \/ (frames[i].end # 0 /\ e = EndOf(i))
  <2>1. PICK i \in 1 .. Len(frames) : e \in C(i)
    BY <1>4
  <2>. QED
    BY <1>3, <2>1
<1>. QED
  BY <1>1, <1>2, <1>5, <1>6

\* The fields of those entries; their places are odd and even.
LEMMA FrameEntryFields ==
  ASSUME FeedInv, NEW i \in 1 .. Len(frames)
  PROVE  /\ StartOf(i).type = "run_start" /\ StartOf(i).of = frames[i].run
         /\ StartOf(i).ts = frames[i].start /\ StartOf(i).at = Len(log) + 2 * i - 1
         /\ EndOf(i).type = "run_end" /\ EndOf(i).of = frames[i].run
         /\ EndOf(i).ts = frames[i].end /\ EndOf(i).at = Len(log) + 2 * i
<1>1. Len(log) \in Nat /\ i \in Nat
  BY LogEntries
<1>2. Len(log) + 2 * i - 1 + 1 = Len(log) + 2 * i
  BY <1>1
<1>. QED
  BY <1>2, EntryFields DEF StartOf, EndOf

\* Every entry has a place of its own before the sort.
LEMMA FeedFacts ==
  ASSUME FeedInv
  PROVE  /\ \A e \in Feed : e.at \in 1 .. Len(log) + 2 * Len(frames) /\ e.ts \in Nat
         /\ \A d, e \in Feed : d.at = e.at => d = e
         /\ IsFiniteSet(Feed)
<1>. DEFINE L == Len(log)
            F == Len(frames)
<1>1. L \in Nat /\ F \in Nat
  BY LogEntries, FrameEntries
<1>2. \A e \in FromLog : e.at \in 1 .. L /\ e.ts \in Nat
  BY LogEntries
<1>3. ASSUME NEW e \in FromFrames
      PROVE  \E i \in 1 .. F : /\ \/ e = StartOf(i) /\ e.at = L + 2 * i - 1
                                  \/ e = EndOf(i) /\ e.at = L + 2 * i
                               /\ e.ts \in Nat
  <2>1. PICK i \in 1 .. F : e = StartOf(i) \/ (frames[i].end # 0 /\ e = EndOf(i))
    BY FrameEntries
  <2>2. frames[i].start \in Nat /\ frames[i].end \in Nat
    BY FrameEntries
  <2>. QED
    BY <2>1, <2>2, FrameEntryFields
<1>. HIDE DEF L, F
<1>4. \A e \in FromFrames : e.at \in L + 1 .. L + 2 * F /\ e.ts \in Nat
  <2>. SUFFICES ASSUME NEW e \in FromFrames PROVE e.at \in L + 1 .. L + 2 * F /\ e.ts \in Nat
    OBVIOUS
  <2>1. PICK i \in 1 .. F : (e.at = L + 2 * i - 1 \/ e.at = L + 2 * i) /\ e.ts \in Nat
    BY <1>3
  <2>. QED
    BY <1>1, <2>1
<1>5. ASSUME NEW d \in FromFrames, NEW e \in FromFrames, d.at = e.at PROVE d = e
  <2>1. PICK i \in 1 .. F : \/ d = StartOf(i) /\ d.at = L + 2 * i - 1
                            \/ d = EndOf(i) /\ d.at = L + 2 * i
    BY <1>3
  <2>2. PICK j \in 1 .. F : \/ e = StartOf(j) /\ e.at = L + 2 * j - 1
                            \/ e = EndOf(j) /\ e.at = L + 2 * j
    BY <1>3
  <2>3. i \in Int /\ j \in Int
    OBVIOUS
  <2>4. L + 2 * i - 1 # L + 2 * j /\ L + 2 * j - 1 # L + 2 * i
    BY <1>1, <2>3
  <2>5. CASE d = StartOf(i) /\ d.at = L + 2 * i - 1
    <3>1. e = StartOf(j) /\ L + 2 * i - 1 = L + 2 * j - 1
      BY <1>5, <2>2, <2>4, <2>5
    <3>2. i = j
      BY <1>1, <2>3, <3>1
    <3>. QED
      BY <2>5, <3>1, <3>2
  <2>6. CASE d = EndOf(i) /\ d.at = L + 2 * i
    <3>1. e = EndOf(j) /\ L + 2 * i = L + 2 * j
      BY <1>5, <2>2, <2>4, <2>6
    <3>2. i = j
      BY <1>1, <2>3, <3>1
    <3>. QED
      BY <2>6, <3>1, <3>2
  <2>. QED
    BY <2>1, <2>5, <2>6
<1>6. \A e \in Feed : e.at \in 1 .. L + 2 * F /\ e.ts \in Nat
  <2>1. \A n \in 1 .. L : n \in 1 .. L + 2 * F
    BY <1>1
  <2>2. \A n \in L + 1 .. L + 2 * F : n \in 1 .. L + 2 * F
    BY <1>1
  <2>. QED
    BY <1>2, <1>4, <2>1, <2>2 DEF Feed
<1>7. \A d, e \in Feed : d.at = e.at => d = e
  <2>. SUFFICES ASSUME NEW d \in Feed, NEW e \in Feed, d.at = e.at PROVE d = e
    OBVIOUS
  <2>1. \A n \in 1 .. L : n \notin L + 1 .. L + 2 * F
    BY <1>1
  <2>2. CASE d \in FromLog /\ e \in FromLog
    BY <2>2, LogEntries
  <2>3. CASE d \in FromFrames /\ e \in FromFrames
    BY <1>5, <2>3
  <2>. QED
    BY <1>2, <1>4, <2>1, <2>2, <2>3 DEF Feed
<1>8. IsFiniteSet(Feed)
  <2>. DEFINE A == {e.at : e \in Feed}
              f == [n \in A |-> CHOOSE e \in Feed : e.at = n]
  <2>1. A \in SUBSET Nat /\ L + 2 * F \in Nat /\ \A n \in A : n <= L + 2 * F
    BY <1>1, <1>6
  <2>2. IsFiniteSet(A)
    <3>. HIDE DEF A
    <3>. QED
      BY <2>1, FS_BoundedSetOfNaturals
  <2>3. \A n \in A : f[n] \in Feed /\ f[n].at = n
    OBVIOUS
  <2>4. f \in [A -> Feed]
    BY <2>3
  <2>5. \A e \in Feed : e.at \in A
    OBVIOUS
  <2>. HIDE DEF A, f
  <2>6. \A e \in Feed : f[e.at] = e
    BY <1>7, <2>3, <2>5
  <2>. QED
    BY <2>2, <2>3, <2>4, <2>5, <2>6, SameSize
<1>. QED
  BY <1>6, <1>7, <1>8 DEF L, F

Newer(d, e) == d.ts > e.ts \/ (d.ts = e.ts /\ d.at < e.at)

NewerFirst == {p \in Feed \X Feed : Newer(p[1], p[2])}

\* The feed has every entry once, the newest first.
LEMMA ActivityFacts ==
  ASSUME FeedInv
  PROVE  /\ Cardinality(Feed) \in Nat
         /\ synthesizeActivity(log, frames) \in [1 .. Cardinality(Feed) -> Feed]
         /\ \A k, m \in 1 .. Cardinality(Feed) : k < m =>
              Newer(synthesizeActivity(log, frames)[k], synthesizeActivity(log, frames)[m])
         /\ \A k, m \in 1 .. Cardinality(Feed) :
              synthesizeActivity(log, frames)[k] = synthesizeActivity(log, frames)[m] => k = m
         /\ \A e \in Feed : \E k \in 1 .. Cardinality(Feed) :
              synthesizeActivity(log, frames)[k] = e
<1>. DEFINE S == Feed
            R == NewerFirst
            all == synthesizeActivity(log, frames)
<1>1. \A d, e \in S : <<d, e>> \in R <=> Newer(d, e)
  BY DEF NewerFirst
<1>. DEFINE rank == [y \in S |-> Cardinality({z \in S : Newer(z, y)})]
<1>2. all = Ranked(S, rank)
  <2>1. all = NewestFirst(S)
    BY DEF synthesizeActivity, Feed, FromLog, FromFrames
  <2>. HIDE DEF S, all
  <2>. QED
    BY <2>1 DEF NewestFirst, SortedBy, Newer, Ranked
<1>. HIDE DEF S, R, all
<1>3. \A x \in S : {z \in S : Newer(z, x)} = Below(S, R, x)
  BY <1>1 DEF Below
<1>4. \A x \in S : rank[x] = Cardinality(Below(S, R, x))
  BY <1>3
<1>. HIDE DEF rank
<1>5. all = RankSeq(S, R)
  BY <1>2, <1>4, RankIs
<1>6. \A e \in S : e.at \in Nat /\ e.ts \in Nat
  BY FeedFacts DEF S
<1>11. \A d, e \in S : d.at = e.at => d = e
  BY FeedFacts DEF S
<1>7. Orders(R, S)
  <2>1. \A x \in S : <<x, x>> \notin R
    BY <1>1, <1>6 DEF Newer
  <2>2. ASSUME NEW x \in S, NEW y \in S, NEW z \in S, <<x, y>> \in R, <<y, z>> \in R
        PROVE  <<x, z>> \in R
    <3>1. Newer(x, y) /\ Newer(y, z)
      BY <1>1, <2>2
    <3>2. x.ts \in Nat /\ y.ts \in Nat /\ z.ts \in Nat /\ x.at \in Nat /\ y.at \in Nat /\ z.at \in Nat
      BY <1>6
    <3>3. Newer(x, z)
      BY <3>1, <3>2 DEF Newer
    <3>. QED
      BY <1>1, <3>3
  <2>3. ASSUME NEW x \in S, NEW y \in S PROVE x = y \/ <<x, y>> \in R \/ <<y, x>> \in R
    <3>1. x.ts \in Nat /\ y.ts \in Nat /\ x.at \in Nat /\ y.at \in Nat
      BY <1>6
    <3>2. x.at = y.at \/ Newer(x, y) \/ Newer(y, x)
      BY <3>1 DEF Newer
    <3>. QED
      BY <1>1, <3>2, <1>11
  <2>. QED
    BY <2>1, <2>2, <2>3 DEF Orders
<1>8. IsFiniteSet(S)
  BY FeedFacts DEF S
<1>9. /\ Cardinality(S) \in Nat /\ all \in [1 .. Cardinality(S) -> S]
      /\ \A k, m \in 1 .. Cardinality(S) : k < m => <<all[k], all[m]>> \in R
      /\ \A k, m \in 1 .. Cardinality(S) : all[k] = all[m] => k = m
      /\ \A x \in S : \E k \in 1 .. Cardinality(S) : all[k] = x
  BY <1>5, <1>7, <1>8, SortFacts
<1>10. \A k, m \in 1 .. Cardinality(S) : k < m => Newer(all[k], all[m])
  BY <1>1, <1>9
<1>. QED
  BY <1>9, <1>10 DEF S, all

\* Where a feed of N entries has those of a type of a run.
Places(all, N, type, r) == {k \in 1 .. N : all[k].type = type /\ all[k].of = r}

\* The feed has the start of every record once, and of a live run no end.
LEMMA FeedCounts ==
  ASSUME FeedInv, NEW r, NEW all, NEW N \in Nat, all \in [1 .. N -> Feed],
         \A k, m \in 1 .. N : all[k] = all[m] => k = m,
         \A e \in Feed : \E k \in 1 .. N : all[k] = e
  PROVE  /\ Cardinality(Places(all, N, "run_start", r))
              = Cardinality({i \in DOMAIN frames : frames[i].run = r})
         /\ r \in live => Places(all, N, "run_end", r) = {}
<1>. DEFINE own == {i \in DOMAIN frames : frames[i].run = r}
            pos == Places(all, N, "run_start", r)
            f == [i \in own |-> CHOOSE k \in 1 .. N : all[k] = StartOf(i)]
<1>1. DOMAIN frames = 1 .. Len(frames) /\ Len(frames) \in Nat
  BY FrameEntries
<1>2. IsFiniteSet(own)
  <2>1. own \in SUBSET Nat /\ \A i \in own : i <= Len(frames)
    BY <1>1
  <2>. QED
    BY <1>1, <2>1, FS_BoundedSetOfNaturals
<1>3. ASSUME NEW i \in own
      PROVE  f[i] \in 1 .. N /\ all[f[i]] = StartOf(i) /\ f[i] \in pos
  <2>1. i \in 1 .. Len(frames) /\ frames[i].run = r
    BY <1>1
  <2>2. StartOf(i) \in Feed
    BY <2>1, FrameEntries DEF Feed
  <2>3. f[i] \in 1 .. N /\ all[f[i]] = StartOf(i)
    BY <2>2
  <2>4. StartOf(i).type = "run_start" /\ StartOf(i).of = r
    BY <2>1, FrameEntryFields
  <2>. QED
    BY <2>3, <2>4 DEF Places
<1>. HIDE DEF f
<1>4. f \in [own -> pos]
  <2>1. f = [i \in own |-> f[i]]
    BY DEF f
  <2>. QED
    BY <1>3, <2>1
<1>5. \A i, j \in own : f[i] = f[j] => i = j
  <2>. SUFFICES ASSUME NEW i \in own, NEW j \in own, f[i] = f[j] PROVE i = j
    OBVIOUS
  <2>1. StartOf(i) = StartOf(j)
    BY <1>3
  <2>2. i \in 1 .. Len(frames) /\ j \in 1 .. Len(frames)
    BY <1>1
  <2>3. StartOf(i).at = Len(log) + 2 * i - 1 /\ StartOf(j).at = Len(log) + 2 * j - 1
    BY <2>2, FrameEntryFields
  <2>4. Len(log) + 2 * i - 1 = Len(log) + 2 * j - 1
    BY <2>1, <2>3
  <2>5. Len(log) \in Nat /\ i \in Nat /\ j \in Nat
    BY <2>2, LogEntries
  <2>. QED
    BY <2>4, <2>5
\* An entry of a record, by its type.
<1>6. ASSUME NEW e \in Feed
      PROVE  /\ e.type = "run_start" => \E i \in 1 .. Len(frames) : e = StartOf(i) /\ frames[i].run = e.of
             /\ e.type = "run_end" => \E i \in 1 .. Len(frames) : frames[i].end # 0 /\ frames[i].run = e.of
  <2>1. CASE e \in FromLog
    BY <2>1, LogEntries
  <2>2. CASE e \in FromFrames
    <3>1. PICK i \in 1 .. Len(frames) : e = StartOf(i) \/ (frames[i].end # 0 /\ e = EndOf(i))
      BY <2>2, FrameEntries
    <3>2. /\ StartOf(i).type = "run_start" /\ StartOf(i).of = frames[i].run
          /\ EndOf(i).type = "run_end" /\ EndOf(i).of = frames[i].run
      BY FrameEntryFields
    <3>3. CASE e = StartOf(i)
      BY <3>2, <3>3
    <3>4. CASE frames[i].end # 0 /\ e = EndOf(i)
      BY <3>2, <3>4
    <3>. QED
      BY <3>1, <3>3, <3>4
  <2>. QED
    BY <2>1, <2>2 DEF Feed
<1>7. \A k \in pos : \E i \in own : f[i] = k
  <2>. SUFFICES ASSUME NEW k \in 1 .. N, all[k].type = "run_start", all[k].of = r
                PROVE  \E i \in own : f[i] = k
    BY DEF Places
  <2>1. all[k] \in Feed
    OBVIOUS
  <2>2. PICK i \in 1 .. Len(frames) : all[k] = StartOf(i) /\ frames[i].run = r
    BY <1>6, <2>1
  <2>3. i \in own
    BY <1>1, <2>2
  <2>4. f[i] = k
    BY <1>3, <2>2, <2>3
  <2>. QED
    BY <2>3, <2>4
<1>8. ASSUME r \in live, NEW k \in 1 .. N, all[k].type = "run_end", all[k].of = r PROVE FALSE
  <2>1. all[k] \in Feed
    OBVIOUS
  <2>2. PICK i \in 1 .. Len(frames) : frames[i].end # 0 /\ frames[i].run = r
    BY <1>6, <1>8, <2>1
  <2>3. RecordOK(frames, live, now, i)
    BY DEF FeedInv, RecordsInv, RecordsOK
  <2>4. i = r
    BY <1>8, <2>2, <2>3 DEF RecordOK
  <2>. QED
    BY <1>8, <2>2, <2>4, LiveFacts DEF FeedInv
<1>9. Cardinality(pos) = Cardinality(own)
  <2>. HIDE DEF pos, own
  <2>. QED
    BY <1>2, <1>4, <1>5, <1>7, SameSize
<1>. QED
  BY <1>8, <1>9 DEF Places

\* The page of the feed that is shown.
LEMMA PageFacts ==
  ASSUME FeedInv, NEW all, NEW N \in Nat, all \in [1 .. N -> Feed],
         all = synthesizeActivity(log, frames)
  PROVE  LET page == ActivityPage(log, frames, maxVisible)
         IN  \E n \in Nat : /\ n <= N /\ (page.more <=> n < N)
                            /\ DOMAIN page.entries = 1 .. n /\ Len(page.entries) = n
                            /\ \A i \in 1 .. n : page.entries[i] = all[i]
<1>. DEFINE n == IF N <= maxVisible THEN N ELSE maxVisible
            page == ActivityPage(log, frames, maxVisible)
<1>1. Len(all) = N /\ all \in Seq(Feed)
  OBVIOUS
<1>2. n \in Nat /\ n <= N /\ (N > maxVisible <=> n < N)
  BY DEF FeedInv, VisibleOK
<1>3. page.entries = SubSeq(all, 1, n) /\ (page.more <=> N > maxVisible)
  BY <1>1 DEF ActivityPage
<1>. HIDE DEF n, page
<1>4. /\ DOMAIN SubSeq(all, 1, n) = 1 .. n /\ Len(SubSeq(all, 1, n)) = n
      /\ \A i \in 1 .. n : SubSeq(all, 1, n)[i] = all[i]
  BY <1>1, <1>2
<1>5. \E m \in Nat : /\ m <= N /\ (page.more <=> m < N)
                     /\ DOMAIN page.entries = 1 .. m /\ Len(page.entries) = m
                     /\ \A i \in 1 .. m : page.entries[i] = all[i]
  BY <1>2, <1>3, <1>4
<1>. QED
  BY <1>5 DEF page

\* The activity feed never hides an entry behind "Load more" while it shows an
\* older one, offers "Load more" exactly when something is hidden, and has the
\* start of every record once and no end of a run that is live
\* (synthesizeActivity and getChildren of activity-tree.ts).
THEOREM FeedAlwaysNewestFirst == Spec => []FeedNewestFirst
<1>1. FeedInv => FeedNewestFirst
  <2>. SUFFICES ASSUME FeedInv PROVE FeedNewestFirst
    OBVIOUS
  <2>. DEFINE all == synthesizeActivity(log, frames)
              page == ActivityPage(log, frames, maxVisible)
              N == Cardinality(Feed)
              pos(type, run) == {i \in DOMAIN all : all[i].type = type /\ all[i].of = run}
  <2>1. /\ N \in Nat /\ all \in [1 .. N -> Feed]
        /\ \A k, m \in 1 .. N : k < m => Newer(all[k], all[m])
        /\ \A k, m \in 1 .. N : all[k] = all[m] => k = m
        /\ \A e \in Feed : \E k \in 1 .. N : all[k] = e
    BY ActivityFacts
  <2>2. PICK n \in Nat : /\ n <= N /\ (page.more <=> n < N)
                         /\ DOMAIN page.entries = 1 .. n /\ Len(page.entries) = n
                         /\ \A i \in 1 .. n : page.entries[i] = all[i]
    BY <2>1, PageFacts
  <2>. HIDE DEF all, page, N
  <2>3. DOMAIN all = 1 .. N /\ Len(all) = N
    BY <2>1
  <2>4. ASSUME NEW i \in DOMAIN page.entries, NEW j \in DOMAIN all, all[j].ts > page.entries[i].ts
        PROVE  j \in DOMAIN page.entries
    <3>1. i \in 1 .. n /\ i \in 1 .. N /\ j \in 1 .. N /\ page.entries[i] = all[i]
      BY <2>1, <2>2, <2>3
    <3>2. all[i] \in Feed /\ all[j] \in Feed
      BY <2>1, <3>1
    <3>3. all[i].ts \in Nat /\ all[j].ts \in Nat
      BY <3>2, FeedFacts
    <3>4. ~(i < j)
      <4>1. i < j => Newer(all[i], all[j])
        BY <2>1, <3>1
      <4>2. all[j].ts > all[i].ts
        BY <2>4, <3>1
      <4>. QED
        BY <3>3, <4>1, <4>2 DEF Newer
    <3>5. j \in 1 .. n
      BY <2>1, <3>1, <3>4
    <3>. QED
      BY <2>2, <3>5
  <2>5. page.more <=> Len(page.entries) < Len(all)
    BY <2>2, <2>3
  <2>6. ASSUME NEW r
        PROVE  /\ Cardinality(pos("run_start", r)) = Cardinality({i \in DOMAIN frames : frames[i].run = r})
               /\ r \in live => pos("run_end", r) = {}
    <3>1. \A type : pos(type, r) = Places(all, N, type, r)
      BY <2>3 DEF Places
    <3>. HIDE DEF pos
    <3>. QED
      BY <2>1, <3>1, FeedCounts
  <2>. HIDE DEF pos
  <2>7. /\ \A i \in DOMAIN page.entries : \A j \in DOMAIN all :
             all[j].ts > page.entries[i].ts => j \in DOMAIN page.entries
        /\ page.more <=> Len(page.entries) < Len(all)
        /\ \A r \in {frames[i].run : i \in DOMAIN frames} :
             Cardinality(pos("run_start", r)) = Cardinality({i \in DOMAIN frames : frames[i].run = r})
        /\ \A r \in live : pos("run_end", r) = {}
    BY <2>4, <2>5, <2>6
  <2>. QED
    BY <2>7 DEF FeedNewestFirst, all, page, pos
<1>. QED
  BY <1>1, AlwaysFeed, PTL

-----------------------------------------------------------------------------
(* Types.                                                                  *)

SpanRecord == [agent : Agents, kind : {"question", "progress"}, start : Nat]

BoundsOK ==
  /\ bound \in [frames : Nat, log : Nat, spans : Nat, writes : Nat, loads : Nat]
  /\ spans \in Seq(SpanRecord)
  /\ Len(frames) <= bound.frames /\ Len(log) <= bound.log /\ Len(spans) <= bound.spans

TimesOK == \A i \in 1 .. Len(frames) : frames[i].end # 0 => frames[i].end >= frames[i].start

\* The kernel has finitely many agents, which the counts need.
RowsOK ==
  /\ IsFiniteSet(DOMAIN agents)
  /\ rows.running \subseteq rows.agents /\ rows.alive <= Cardinality(rows.agents)

MarksOK ==
  /\ memo \in [Agents -> Conditions \cup {"unset"}]
  /\ cached \in [Agents -> Conditions \cup {"unasked"}]

TypesOK == BoundsOK /\ TimesOK /\ RowsOK /\ MarksOK

\* The decoration of an agent is one of the four.
LEMMA ConditionType == ASSUME NEW a PROVE Condition(a) \in Conditions
BY DEF Condition, deriveAgentCondition, Conditions

LEMMA AppendSpan ==
  ASSUME NEW ss \in Seq(SpanRecord), NEW s \in SpanRecord
  PROVE  Append(ss, s) \in Seq(SpanRecord) /\ Len(Append(ss, s)) = Len(ss) + 1 /\ Len(ss) \in Nat
OBVIOUS

LEMMA LastIndex ==
  ASSUME NEW n \in Nat
  PROVE  n + 1 \in Nat /\ \A i \in 1 .. n + 1 : i \in 1 .. n \/ i = n + 1
OBVIOUS

\* The rows and marks of the views change with the views only.
LEMMA NextViews == FeedInv /\ RowsOK /\ MarksOK /\ [Next]_vars => RowsOK' /\ MarksOK'
<1>. SUFFICES ASSUME FeedInv, RowsOK, MarksOK, [Next]_vars PROVE RowsOK' /\ MarksOK'
  OBVIOUS
<1>1. ASSUME NEW f, NEW l, NEW s, NEW a, KernelWrites(f, l, s, a), IsFiniteSet(DOMAIN a)
      PROVE  RowsOK' /\ MarksOK'
  <2>1. agents' = a /\ rows' = rows /\ memo' = memo /\ cached' = cached
    BY <1>1 DEF KernelWrites, views
  <2>. QED
    BY <1>1, <2>1 DEF RowsOK, MarksOK
<1>2. ASSUME NEW a, NEW c, StartRun(a, c) PROVE RowsOK' /\ MarksOK'
  <2>. DEFINE more == [x \in DOMAIN agents \cup {a} |-> IF x = a THEN "alive" ELSE agents[x]]
  <2>1. \E f : KernelWrites(f, log, spans, more)
    BY <1>2 DEF StartRun
  <2>2. DOMAIN more = DOMAIN agents \cup {a}
    OBVIOUS
  <2>. HIDE DEF more
  <2>3. IsFiniteSet(DOMAIN more)
    BY <2>2, FS_AddElement DEF RowsOK
  <2>. QED
    BY <1>1, <2>1, <2>3
<1>3. ASSUME NEW a, NEW b, NEW ts, LogFork(a, b, ts) PROVE RowsOK' /\ MarksOK'
  <2>. DEFINE more == [x \in DOMAIN agents \cup {b} |-> IF x = b THEN "idle" ELSE agents[x]]
  <2>1. \E l : KernelWrites(frames, l, spans, more) \/ KernelWrites(frames, l, spans, agents)
    BY <1>3 DEF LogFork
  <2>2. DOMAIN more = DOMAIN agents \cup {b}
    OBVIOUS
  <2>. HIDE DEF more
  <2>3. IsFiniteSet(DOMAIN more) /\ IsFiniteSet(DOMAIN agents)
    BY <2>2, FS_AddElement DEF RowsOK
  <2>. QED
    BY <1>1, <2>1, <2>3
<1>4. ASSUME NEW a, AgentTerminates(a) PROVE RowsOK' /\ MarksOK'
  <2>. DEFINE less == [agents EXCEPT ![a] = "terminated"]
  <2>1. KernelWrites(frames, log, spans, less)
    BY <1>4 DEF AgentTerminates
  <2>2. DOMAIN less = DOMAIN agents
    OBVIOUS
  <2>. HIDE DEF less
  <2>. QED
    BY <1>1, <2>1, <2>2 DEF RowsOK
<1>5. ASSUME NEW f, NEW l, NEW s, KernelWrites(f, l, s, agents) PROVE RowsOK' /\ MarksOK'
  BY <1>1, <1>5 DEF RowsOK
<1>6. ASSUME NEW r, NEW status, NEW stamped,
             EndRun(r, status, stamped) \/ EndRunBeside(r, status, stamped)
      PROVE  RowsOK' /\ MarksOK'
  <2>1. \E f : KernelWrites(f, log, spans, agents)
    BY <1>6 DEF EndRun, EndRunBeside
  <2>. QED
    BY <1>5, <2>1
<1>7. ASSUME NEW a, NEW kind, NEW t, CloseSpan(a, kind, t) PROVE RowsOK' /\ MarksOK'
  <2>1. \E s : KernelWrites(frames, log, s, agents)
    BY <1>7 DEF CloseSpan
  <2>. QED
    BY <1>5, <2>1
<1>8. ASSUME NEW a, NEW type, LogOther(a, type) PROVE RowsOK' /\ MarksOK'
  <2>1. \E l : KernelWrites(frames, l, spans, agents)
    BY <1>8 DEF LogOther
  <2>. QED
    BY <1>5, <2>1
<1>9. ASSUME NEW a \in Agents, DrawRow(a) PROVE RowsOK' /\ MarksOK'
  <2>1. /\ UNCHANGED <<agents, rows, memo>>
        /\ cached' = [cached EXCEPT ![a] = Asked(a)]
    BY <1>9 DEF DrawRow, document
  <2>2. Asked(a) \in Conditions
    BY ConditionType DEF Asked, Conditions
  <2>. QED
    BY <2>1, <2>2 DEF RowsOK, MarksOK
<1>10. CASE Fire
  <2>1. UNCHANGED agents /\ rows' = Render
    BY <1>10 DEF Fire, document
  <2>2. MarksOK'
    BY <1>10, ConditionType DEF Fire, MarksOK
  <2>3. Render.running \subseteq Render.agents /\ Render.alive <= Cardinality(Render.agents)
    <3>1. CASE ~active
      <4>1. Render.running = {} /\ Render.agents = {} /\ Render.alive = 0
        BY <3>1 DEF Render
      <4>. QED
        BY <4>1, FS_EmptySet
    <3>2. CASE active
      <4>1. /\ Render.running \subseteq DOMAIN agents /\ Render.agents = DOMAIN agents
            /\ Render.alive = computeAliveAgentCount(agents)
        BY <3>2 DEF Render
      <4>2. computeAliveAgentCount(agents) <= Cardinality(DOMAIN agents)
        BY FS_Subset DEF computeAliveAgentCount, RowsOK
      <4>. QED
        BY <4>1, <4>2
    <3>. QED
      BY <3>1, <3>2
  <2>. QED
    BY <2>1, <2>2, <2>3 DEF RowsOK
<1>11. CASE FocusChanges \/ LoadMore \/ UNCHANGED vars \/ \E a \in Agents : ClickStop(a)
  <2>1. UNCHANGED <<agents, rows, memo, cached>>
    BY <1>11 DEF FocusChanges, LoadMore, vars, ClickStop, document, views
  <2>. QED
    BY <2>1 DEF RowsOK, MarksOK
<1>. QED
  BY <1>2, <1>3, <1>4, <1>6, <1>7, <1>8, <1>9, <1>10, <1>11 DEF Next

\* The kernel keeps to the bounds, and ends a run no earlier than it started.
LEMMA NextBounds == FeedInv /\ BoundsOK /\ TimesOK /\ [Next]_vars => BoundsOK' /\ TimesOK'
<1>. SUFFICES ASSUME FeedInv, BoundsOK, TimesOK, [Next]_vars PROVE BoundsOK' /\ TimesOK'
  OBVIOUS
<1>0. /\ frames \in Seq(FrameRecord) /\ Len(frames) \in Nat /\ now \in Nat \ {0}
      /\ log \in Seq(LogRecord) /\ Len(log) \in Nat /\ Len(spans) \in Nat
      /\ bound.frames \in Nat /\ bound.log \in Nat /\ bound.spans \in Nat
  <2>1. writes \in Nat /\ frames \in Seq(FrameRecord) /\ log \in Seq(LogRecord)
    BY DEF FeedInv, RecordsInv, RecordsOK, LineageInv, ForksOK
  <2>2. now \in Nat \ {0}
    BY <2>1, ClockFacts DEF now
  <2>3. /\ spans \in Seq(SpanRecord)
        /\ bound \in [frames : Nat, log : Nat, spans : Nat, writes : Nat, loads : Nat]
    BY DEF BoundsOK
  <2>4. Len(frames) \in Nat /\ Len(log) \in Nat /\ Len(spans) \in Nat
    BY <2>1, <2>3, SeqLength
  <2>. QED
    BY <2>1, <2>2, <2>3, <2>4
<1>1. ASSUME NEW f, NEW l, NEW s, NEW a, KernelWrites(f, l, s, a)
      PROVE  frames' = f /\ log' = l /\ spans' = s /\ bound' = bound
  BY <1>1 DEF KernelWrites
<1>2. ASSUME NEW a \in Agents, NEW c \in Cells \cup {""}, StartRun(a, c)
      PROVE  BoundsOK' /\ TimesOK'
  <2>. DEFINE f == Frame(Len(frames) + 1, c, a, "running", now, 0)
  <2>1. f \in FrameRecord /\ f.end = 0
    <3>1. Len(frames) + 1 \in Nat
      BY <1>0, LastIndex, Zenon
    <3>2. f \in FrameRecord
      BY <1>0, <3>1, StartFacts
    <3>. QED
      BY <3>2 DEF Frame
  <2>2. Len(frames) + 1 <= bound.frames
        /\ \E a2 : KernelWrites(Append(frames, f), log, spans, a2)
    BY <1>2 DEF StartRun
  <2>. HIDE DEF f
  <2>3. frames' = Append(frames, f) /\ UNCHANGED <<log, spans, bound>>
    BY <1>1, <2>2
  <2>4. /\ Len(frames') = Len(frames) + 1 /\ frames'[Len(frames) + 1] = f
        /\ \A i \in 1 .. Len(frames) : frames'[i] = frames[i]
    BY <1>0, <2>1, <2>3, AppendRecord
  <2>5. BoundsOK'
    BY <1>0, <2>2, <2>3, <2>4 DEF BoundsOK
  <2>6. \A i \in 1 .. Len(frames) + 1 : i \in 1 .. Len(frames) \/ i = Len(frames) + 1
    BY <1>0, LastIndex, Zenon
  <2>7. TimesOK'
    BY <2>1, <2>4, <2>6 DEF TimesOK
  <2>. QED
    BY <2>5, <2>7
\* The record of a run that ends now.
<1>3. ASSUME NEW r \in live, NEW status \in EndStatuses, NEW stamped
      PROVE  LET f == Ended(frames[r], status, stamped)
             IN  f \in FrameRecord /\ (f.end # 0 => f.end >= f.start)
  <2>. DEFINE f == Ended(frames[r], status, stamped)
  <2>1. r \in 1 .. Len(frames)
    BY DEF FeedInv, RecordsInv, RecordsOK
  <2>2. frames[r] \in FrameRecord /\ frames[r].start \in Nat /\ frames[r].start <= now
    BY <1>0, <2>1, RecordFacts DEF FeedInv, RecordsInv
  <2>3. f \in FrameRecord /\ f.start = frames[r].start
    BY <2>2, EndedFacts DEF FeedInv, RecordsInv
  <2>4. f.end = now \/ f.end = 0
    BY <2>2, EndedFacts DEF FeedInv, RecordsInv
  <2>. HIDE DEF f
  <2>5. f.end # 0 => f.end >= f.start
    BY <1>0, <2>2, <2>3, <2>4
  <2>. QED
    BY <2>3, <2>5 DEF f
<1>4. ASSUME NEW r \in live, NEW status \in EndStatuses, NEW stamped, EndRun(r, status, stamped)
      PROVE  BoundsOK' /\ TimesOK'
  <2>. DEFINE f == Ended(frames[r], status, stamped)
  <2>1. f \in FrameRecord /\ (f.end # 0 => f.end >= f.start)
    BY <1>3
  <2>2. KernelWrites([frames EXCEPT ![r] = f], log, spans, agents) /\ r \in 1 .. Len(frames)
    BY <1>4 DEF EndRun, FeedInv, RecordsInv, RecordsOK
  <2>. HIDE DEF f
  <2>3. frames' = [frames EXCEPT ![r] = f] /\ UNCHANGED <<log, spans, bound>>
    BY <1>1, <2>2
  <2>4. /\ Len(frames') = Len(frames) /\ frames'[r] = f
        /\ \A i \in 1 .. Len(frames) : i # r => frames'[i] = frames[i]
    BY <1>0, <2>1, <2>2, <2>3, ReplaceRecord
  <2>5. BoundsOK'
    BY <2>3, <2>4 DEF BoundsOK
  <2>6. TimesOK'
    BY <2>1, <2>4 DEF TimesOK
  <2>. QED
    BY <2>5, <2>6
<1>5. ASSUME NEW r \in live, NEW status \in EndStatuses, NEW stamped,
             EndRunBeside(r, status, stamped)
      PROVE  BoundsOK' /\ TimesOK'
  <2>. DEFINE f == Ended(frames[r], status, stamped)
  <2>1. f \in FrameRecord /\ (f.end # 0 => f.end >= f.start)
    BY <1>3
  <2>2. KernelWrites(Append(frames, f), log, spans, agents) /\ Len(frames) < bound.frames
    BY <1>5 DEF EndRunBeside
  <2>. HIDE DEF f
  <2>3. frames' = Append(frames, f) /\ UNCHANGED <<log, spans, bound>>
    BY <1>1, <2>2
  <2>4. /\ Len(frames') = Len(frames) + 1 /\ frames'[Len(frames) + 1] = f
        /\ \A i \in 1 .. Len(frames) : frames'[i] = frames[i]
    BY <1>0, <2>1, <2>3, AppendRecord
  <2>5. BoundsOK'
    BY <1>0, <2>2, <2>3, <2>4 DEF BoundsOK
  <2>6. \A i \in 1 .. Len(frames) + 1 : i \in 1 .. Len(frames) \/ i = Len(frames) + 1
    BY <1>0, LastIndex, Zenon
  <2>7. TimesOK'
    BY <2>1, <2>4, <2>6 DEF TimesOK
  <2>. QED
    BY <2>5, <2>7
<1>6. ASSUME NEW e \in LogRecord, NEW a, KernelWrites(frames, Append(log, e), spans, a),
             Len(log) < bound.log
      PROVE  BoundsOK' /\ TimesOK'
  <2>1. log' = Append(log, e) /\ UNCHANGED <<frames, spans, bound>>
    BY <1>1, <1>6
  <2>2. Len(log') = Len(log) + 1
    BY <1>0, <2>1, AppendEntry
  <2>3. BoundsOK'
    BY <1>0, <1>6, <2>1, <2>2 DEF BoundsOK
  <2>. QED
    BY <2>1, <2>3 DEF TimesOK
<1>7. ASSUME NEW a \in Agents, NEW b \in Agents, NEW ts \in {0, now}, LogFork(a, b, ts)
      PROVE  BoundsOK' /\ TimesOK'
  <2>. DEFINE e == [type |-> "fork", agent |-> a, branch |-> b, ts |-> ts,
                    outcome |-> IF a \in DOMAIN agents /\ b \notin DOMAIN agents
                                THEN "made" ELSE "refused"]
  <2>1. Len(log) < bound.log /\ \E a2 : KernelWrites(frames, Append(log, e), spans, a2)
    BY <1>7 DEF LogFork
  <2>2. e \in LogRecord
    BY <1>0 DEF LogRecord
  <2>. HIDE DEF e
  <2>. QED
    BY <1>6, <2>1, <2>2
<1>8. ASSUME NEW a \in Agents, NEW type \in OtherTypes, LogOther(a, type)
      PROVE  BoundsOK' /\ TimesOK'
  <2>. DEFINE e == [type |-> type, agent |-> a, branch |-> a, ts |-> now, outcome |-> "made"]
  <2>1. Len(log) < bound.log /\ KernelWrites(frames, Append(log, e), spans, agents)
    BY <1>8 DEF LogOther
  <2>2. e \in LogRecord
    BY <1>0 DEF LogRecord
  <2>. HIDE DEF e
  <2>. QED
    BY <1>6, <2>1, <2>2
<1>9. ASSUME NEW a \in Agents, NEW kind \in {"question", "progress"}, NEW t \in 1 .. now,
             CloseSpan(a, kind, t)
      PROVE  BoundsOK' /\ TimesOK'
  <2>. DEFINE s == [agent |-> a, kind |-> kind, start |-> t]
  <2>1. Len(spans) < bound.spans /\ KernelWrites(frames, log, Append(spans, s), agents)
    BY <1>9 DEF CloseSpan
  <2>2. s \in SpanRecord
    BY <1>0 DEF SpanRecord
  <2>. HIDE DEF s
  <2>3. spans' = Append(spans, s) /\ UNCHANGED <<frames, log, bound>>
    BY <1>1, <2>1
  <2>4. spans' \in Seq(SpanRecord) /\ Len(spans') = Len(spans) + 1
    BY <2>2, <2>3, AppendSpan DEF BoundsOK
  <2>5. BoundsOK'
    BY <1>0, <2>1, <2>3, <2>4 DEF BoundsOK
  <2>. QED
    BY <2>3, <2>5 DEF TimesOK
<1>10. ASSUME NEW a, AgentTerminates(a) PROVE UNCHANGED <<frames, log, spans, bound>>
  BY <1>10 DEF AgentTerminates, KernelWrites
<1>11. ASSUME NEW a, DrawRow(a) \/ ClickStop(a) PROVE UNCHANGED <<frames, log, spans, bound>>
  BY <1>11 DEF DrawRow, ClickStop, document
<1>12. FocusChanges \/ Fire \/ LoadMore \/ UNCHANGED vars => UNCHANGED <<frames, log, spans, bound>>
  BY DEF FocusChanges, Fire, LoadMore, vars, document
<1>13. CASE UNCHANGED <<frames, log, spans, bound>>
  BY <1>13 DEF BoundsOK, TimesOK
<1>. QED
  BY <1>2, <1>4, <1>5, <1>7, <1>8, <1>9, <1>10, <1>11, <1>12, <1>13 DEF Next

\* Every frame names a run that was started, every live run has its start frame
\* under the key of the run, and the views hold decorations and rows of the
\* kinds that the renderer knows.
THEOREM TypeCorrect == Spec => []TypeOK
<1>1. Init => TypesOK
  <2>. SUFFICES ASSUME Init PROVE TypesOK
    OBVIOUS
  <2>1. /\ frames = <<>> /\ log = <<>> /\ spans = <<>> /\ bound \in Bounds /\ Len(<<>>) = 0
        /\ spans \in Seq(SpanRecord)
    BY DEF Init
  <2>2. bound \in [frames : Nat, log : Nat, spans : Nat, writes : Nat, loads : Nat]
    BY <2>1, RunViewsAssumption
  <2>3. BoundsOK /\ TimesOK
    BY <2>1, <2>2 DEF BoundsOK, TimesOK
  <2>4. DOMAIN agents = {} /\ rows.running = {} /\ rows.agents = {} /\ rows.alive = 0
    BY DEF Init
  <2>5. RowsOK
    BY <2>4, FS_EmptySet DEF RowsOK
  <2>6. MarksOK
    BY DEF Init, MarksOK
  <2>. QED
    BY <2>3, <2>5, <2>6 DEF TypesOK
<1>2. FeedInv /\ TypesOK /\ [Next]_vars => TypesOK'
  BY NextViews, NextBounds DEF TypesOK
<1>3. FeedInv /\ TypesOK => TypeOK
  <2>. SUFFICES ASSUME FeedInv, TypesOK PROVE TypeOK
    OBVIOUS
  <2>1. DOMAIN frames = 1 .. Len(frames) /\ DOMAIN agents \subseteq Agents
    BY FrameEntries DEF FeedInv, LineageInv
  <2>2. \A i \in DOMAIN frames : frames[i].run \in 1 .. i
    BY <2>1 DEF FeedInv, RecordsInv, RecordsOK, RecordOK
  <2>3. \A r \in live : frames[r].run = r /\ frames[r].status = "running"
    BY LiveFacts DEF FeedInv
  <2>. QED
    BY <2>1, <2>2, <2>3 DEF TypesOK, BoundsOK, TimesOK, RowsOK, MarksOK, TypeOK
<1>. QED
  BY <1>1, <1>2, <1>3, AlwaysFeed, PTL DEF Spec
=============================================================================
