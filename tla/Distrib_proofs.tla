---------------------------- MODULE Distrib_proofs ---------------------------
(***************************************************************************)
(* Proof that an Ok report of the distributed scan covers the files whose  *)
(* paths survive the way to the workers, for any number of files and       *)
(* workers, any size of the pipes and whatever other paths read as,        *)
(* however the children run and die.                                       *)
(***************************************************************************)
EXTENDS Distrib, SequenceTheorems, TLAPS

-----------------------------------------------------------------------------
(***************************************************************************)
(* Round robin loses no file and deals none twice.                         *)
(***************************************************************************)

\* Integer division.
LEMMA Division ==
    ASSUME NEW a \in Nat, NEW n \in Nat \ {0}
    PROVE  /\ a \div n \in Nat /\ a % n \in Nat /\ a % n < n
           /\ a = n * (a \div n) + (a % n)
<1> DEFINE d == a \div n  r == a % n
<1>1. d \in Int /\ r \in Nat /\ r < n /\ a = n * d + r
  OBVIOUS
<1> HIDE DEF d, r
<1>2. ASSUME d < 0 PROVE FALSE
  <2> DEFINE e == 0 - d - 1
  <2>1. e \in Nat /\ d = 0 - (e + 1)
    BY <1>1, <1>2
  <2> HIDE DEF e
  <2>2. n * e \in Nat /\ n * d = 0 - n * e - n
    BY <2>1
  <2>. QED
    BY <1>1, <2>2
<1>3. d \in Nat
  BY <1>1, <1>2
<1>. QED
  BY <1>1, <1>3 DEF d, r

\* The quotient is the largest number of times n fits into a.
LEMMA QuotientBound ==
    ASSUME NEW a \in Nat, NEW n \in Nat \ {0}, NEW q \in Nat
    PROVE  q <= a \div n <=> q * n <= a
<1> DEFINE d == a \div n  r == a % n
<1>1. d \in Nat /\ r \in Nat /\ r < n /\ a = n * d + r
  BY Division
<1> HIDE DEF d, r
<1>2. n * d \in Nat /\ q * n \in Nat /\ n * d = d * n
  BY <1>1
<1>3. ASSUME q <= d PROVE q * n <= d * n
  <2>1. PICK e \in Nat : d = q + e
    <3>1. d - q \in Nat /\ d = q + (d - q)
      BY <1>1, <1>3
    <3>. QED
      BY <3>1
  <2>2. d * n = q * n + e * n /\ e * n \in Nat
    BY <2>1
  <2>. QED
    BY <1>2, <2>2
<1>4. ASSUME q > d PROVE q * n >= d * n + n
  <2>1. PICK e \in Nat : q = d + 1 + e
    <3>1. q - d - 1 \in Nat /\ q = d + 1 + (q - d - 1)
      BY <1>1, <1>4
    <3>. QED
      BY <3>1
  <2>2. q * n = d * n + n + e * n /\ e * n \in Nat
    BY <1>1, <2>1
  <2>. QED
    BY <1>2, <2>2
<1>5. CASE q <= d
  BY <1>1, <1>2, <1>3, <1>5 DEF d
<1>6. CASE q > d
  BY <1>1, <1>2, <1>4, <1>6 DEF d
<1>. QED
  BY <1>1, <1>5, <1>6

n_shards == at_least_one(worker_count)

\* The shards, each a sequence of files.
LEMMA ShardFacts ==
    /\ n_shards \in Nat \ {0}
    /\ shard_files \in Seq(Seq(Nat))
    /\ \A k \in Nat : k \in DOMAIN shard_files <=> (1 <= k /\ k <= n_shards /\ k <= FileCount)
    /\ \A k \in DOMAIN shard_files :
          /\ k \in Nat
          /\ \A j \in Nat : j \in DOMAIN shard_files[k] <=> (1 <= j /\ k + (j - 1) * n_shards <= FileCount)
          /\ \A j \in DOMAIN shard_files[k] :
                j \in Nat /\ shard_files[k][j] = k + (j - 1) * n_shards
<1> DEFINE n == n_shards
           len(k) == (FileCount - k) \div n + 1
           m == fewer_of(n, FileCount)
<1>1. n \in Nat \ {0} /\ FileCount \in Nat
  BY DistribAssumption DEF n_shards, at_least_one
<1>2. m \in Nat /\ \A k \in Nat : k \in 1..m <=> (1 <= k /\ k <= n /\ k <= FileCount)
  BY <1>1 DEF fewer_of
<1>3. shard_files = [k \in 1..m |-> [j \in 1..len(k) |-> k + (j - 1) * n]]
  BY DEF shard_files, n_shards
<1> HIDE DEF n, m
<1>4. ASSUME NEW k \in 1..m
      PROVE  /\ k \in Nat /\ len(k) \in Nat
             /\ \A j \in Nat : j \in 1..len(k) <=> (1 <= j /\ k + (j - 1) * n <= FileCount)
  <2>1. k \in Nat /\ 1 <= k /\ FileCount - k \in Nat
    BY <1>1, <1>2
  <2>2. (FileCount - k) \div n \in Nat
    BY <1>1, <2>1, Division
  <2>3. ASSUME NEW j \in Nat, 1 <= j
        PROVE  j <= len(k) <=> k + (j - 1) * n <= FileCount
    <3>1. j - 1 \in Nat
      BY <2>3
    <3>2. j - 1 <= (FileCount - k) \div n <=> (j - 1) * n <= FileCount - k
      BY <1>1, <2>1, <3>1, QuotientBound
    <3>3. (j - 1) * n \in Nat
      BY <1>1, <3>1
    <3>. QED
      BY <1>1, <2>1, <2>2, <3>2, <3>3
  <2>. QED
    BY <2>1, <2>2, <2>3
<1>5. ASSUME NEW k \in 1..m
      PROVE  [j \in 1..len(k) |-> k + (j - 1) * n] \in Seq(Nat)
  <2>1. len(k) \in Nat /\ k \in Nat
    BY <1>4
  <2>2. \A j \in 1..len(k) : k + (j - 1) * n \in Nat
    <3>1. ASSUME NEW j \in 1..len(k) PROVE k + (j - 1) * n \in Nat
      <4>1. j - 1 \in Nat
        BY <2>1
      <4>2. (j - 1) * n \in Nat
        BY <1>1, <4>1
      <4>. QED
        BY <2>1, <4>2
    <3>. QED
      BY <3>1
  <2> HIDE DEF len
  <2>3. [j \in 1..len(k) |-> k + (j - 1) * n] \in [1..len(k) -> Nat]
    BY <2>2
  <2>. QED
    BY <2>1, <2>3, SeqDef
<1> HIDE DEF len
<1>6. shard_files \in Seq(Seq(Nat))
  <2>1. shard_files \in [1..m -> Seq(Nat)]
    BY <1>3, <1>5
  <2>. QED
    BY <1>2, <2>1, SeqDef
<1>7. DOMAIN shard_files = 1..m
  BY <1>3
<1>8. ASSUME NEW k \in 1..m
      PROVE  /\ DOMAIN shard_files[k] = 1..len(k)
             /\ \A j \in 1..len(k) : shard_files[k][j] = k + (j - 1) * n
  BY <1>3, <1>8
<1>9. ASSUME NEW k \in DOMAIN shard_files
      PROVE  /\ k \in Nat
             /\ \A j \in Nat : j \in DOMAIN shard_files[k] <=> (1 <= j /\ k + (j - 1) * n <= FileCount)
             /\ \A j \in DOMAIN shard_files[k] :
                   j \in Nat /\ shard_files[k][j] = k + (j - 1) * n
  <2>1. k \in 1..m
    BY <1>7, <1>9
  <2>2. \A j \in 1..len(k) : j \in Nat
    BY <1>4, <2>1
  <2>. QED
    BY <1>4, <1>8, <2>1, <2>2
<1>. QED
  BY <1>1, <1>2, <1>6, <1>7, <1>9 DEF n

\* The loop of the code, `shards[i % n].push(f)`: counting files, shards and
\* places from zero, file i is in shard i % n, behind the i \div n files that
\* the earlier rounds put there.
LEMMA DealtInTurn ==
    ASSUME NEW f \in File
    PROVE  LET k == ((f - 1) % n_shards) + 1
               j == ((f - 1) \div n_shards) + 1
           IN  k \in DOMAIN shard_files /\ j \in DOMAIN shard_files[k] /\ shard_files[k][j] = f
<1> DEFINE n == n_shards  q == (f - 1) \div n  r == (f - 1) % n
<1>1. n \in Nat \ {0} /\ FileCount \in Nat /\ f - 1 \in Nat /\ f <= FileCount
  BY ShardFacts, DistribAssumption DEF File
<1>2. q \in Nat /\ r \in Nat /\ r < n /\ f - 1 = n * q + r
  BY <1>1, Division
<1> SUFFICES r + 1 \in DOMAIN shard_files /\ q + 1 \in DOMAIN shard_files[r + 1]
             /\ shard_files[r + 1][q + 1] = f
  OBVIOUS
<1> HIDE DEF q, r
<1>3. n * q \in Nat /\ ((q + 1) - 1) * n = n * q
  BY <1>1, <1>2
<1>4. /\ r + 1 \in Nat /\ 1 <= r + 1 /\ r + 1 <= n /\ r + 1 <= FileCount
      /\ (r + 1) + ((q + 1) - 1) * n = f /\ q + 1 \in Nat /\ 1 <= q + 1
  BY <1>1, <1>2, <1>3 DEF File
<1> HIDE DEF n
<1>5. r + 1 \in DOMAIN shard_files
  BY <1>4, ShardFacts DEF n
<1>6. q + 1 \in DOMAIN shard_files[r + 1]
  BY <1>1, <1>4, <1>5, ShardFacts DEF n
<1>7. shard_files[r + 1][q + 1] = f
  BY <1>4, <1>5, <1>6, ShardFacts DEF n
<1>. QED
  BY <1>5, <1>6, <1>7

\* Every file of the walk is in one shard, at one place.
LEMMA RoundRobin == EveryFileOnce(shard_files)
<1> DEFINE n == n_shards
<1>1. n \in Nat \ {0} /\ FileCount \in Nat
  BY ShardFacts, DistribAssumption
<1>2. ASSUME NEW w \in DOMAIN shard_files, NEW j \in DOMAIN shard_files[w]
      PROVE  /\ w \in Nat /\ 1 <= w /\ w <= n /\ j \in Nat /\ 1 <= j
             /\ (j - 1) * n \in Nat /\ shard_files[w][j] = w + (j - 1) * n
             /\ w + (j - 1) * n <= FileCount
  <2>1. w \in Nat /\ 1 <= w /\ w <= n
    BY ShardFacts
  <2>2. j \in Nat /\ 1 <= j /\ shard_files[w][j] = w + (j - 1) * n
        /\ w + (j - 1) * n <= FileCount
    BY ShardFacts
  <2>3. j - 1 \in Nat
    BY <2>2
  <2>4. (j - 1) * n \in Nat
    BY <1>1, <2>3
  <2>. QED
    BY <2>1, <2>2, <2>4
<1>3. ASSUME NEW f \in File
      PROVE  \E w \in DOMAIN shard_files : \E j \in DOMAIN shard_files[w] : shard_files[w][j] = f
  BY DealtInTurn
<1>4. ASSUME NEW v \in DOMAIN shard_files, NEW w \in DOMAIN shard_files,
             NEW i \in DOMAIN shard_files[v], NEW j \in DOMAIN shard_files[w],
             shard_files[v][i] = shard_files[w][j]
      PROVE  v = w /\ i = j
  <2> DEFINE a == (i - 1) * n  b == (j - 1) * n
  <2>1. /\ v \in Nat /\ 1 <= v /\ v <= n /\ i \in Nat /\ 1 <= i /\ a \in Nat
        /\ w \in Nat /\ 1 <= w /\ w <= n /\ j \in Nat /\ 1 <= j /\ b \in Nat
        /\ v + a = w + b
    BY <1>2, <1>4
  <2>a. ASSUME NEW x \in Nat, NEW y \in Nat, x < y PROVE (y - 1) * n >= (x - 1) * n + n
    <3> DEFINE e == y - x - 1
    <3>1. e \in Nat /\ y - 1 = (x - 1) + 1 + e
      BY <2>a
    <3> HIDE DEF e
    <3>2. (y - 1) * n = (x - 1) * n + n + e * n /\ e * n \in Nat /\ (x - 1) * n \in Int
      BY <1>1, <3>1
    <3>. QED
      BY <1>1, <3>2
  <2>2. i < j => b >= a + n
    BY <2>1, <2>a
  <2>3. j < i => a >= b + n
    BY <2>1, <2>a
  <2>4. ~(i < j) /\ ~(j < i)
    <3> HIDE DEF a, b
    <3>. QED
      BY <1>1, <2>1, <2>2, <2>3
  <2>5. i = j
    BY <2>1, <2>4
  <2>6. a = b
    BY <2>5
  <2> HIDE DEF a, b
  <2>. QED
    BY <2>1, <2>5, <2>6
<1>5. ASSUME NEW w \in DOMAIN shard_files, NEW j \in DOMAIN shard_files[w]
      PROVE  shard_files[w][j] \in File
  <2> DEFINE b == (j - 1) * n
  <2>1. w \in Nat /\ 1 <= w /\ b \in Nat /\ shard_files[w][j] = w + b /\ w + b <= FileCount
    BY <1>2
  <2> HIDE DEF b
  <2>. QED
    BY <1>1, <2>1 DEF File
<1>. QED
  BY <1>3, <1>4, <1>5 DEF EveryFileOnce

-----------------------------------------------------------------------------
(***************************************************************************)
(* The inductive invariant.                                                *)
(***************************************************************************)

Result == [files_scanned : Nat, looked : SUBSET (File \cup {Nothing})]

\* Shapes of the state.
TypeInv ==
    /\ lines \in [File -> Seq(File \cup {Nothing})]
    /\ files_scanned \in [Workers -> Nat] /\ looked \in [Workers -> SUBSET (File \cup {Nothing})]
    /\ coord \in [what : {"spawn", "write", "wait", "Ok", "Err"}, who : Nat]
    /\ left \in Seq(File)
    /\ stdin \in [Workers -> Seq(File)] /\ received \in [Workers -> Seq(File)]
    /\ eof \subseteq Workers /\ large \subseteq Workers
    /\ child \in [Workers -> {"none", "reading", "writing", "ok", "dead"}]
    /\ blocks \in [Workers -> Nat] /\ stdout \in [Workers -> Nat]
    /\ workers \in Seq(Result)

\* A child the coordinator has not come to.
Unspawned(w) ==
    \/ coord.what = "spawn" /\ w >= coord.who
    \/ coord.what = "write" /\ w > coord.who

Unwritten(w) == IF coord = At("write", w) THEN left ELSE <<>>

\* Until the coordinator gives up, no text of a path is lost on its way: what
\* the child has received, what is in its pipe and what is still to be written
\* make up the shard; and the pipe is closed only when all of it was written.
Deal(w) ==
    IF Unspawned(w)
    THEN child[w] = "none" /\ stdin[w] = <<>> /\ received[w] = <<>> /\ w \notin eof
    ELSE /\ (received[w] \o stdin[w]) \o Unwritten(w) = shard_files[w]
         /\ w \in eof => coord # At("write", w)

Dealt == coord.what # "Err" => \A w \in Workers : Deal(w)

\* A child puts its result together when it has read its input to the end.
ReadAll == \A w \in Workers : child[w] \in {"writing", "ok"} => stdin[w] = <<>> /\ w \in eof

\* Of the texts it has received, a child has looked into the plain files.
Scanned(w) ==
    /\ \A f \in elements(received[w]) : plain(f) => f \in looked[w]
    /\ (\A f \in elements(received[w]) : plain(f)) =>
          looked[w] = elements(received[w]) /\ files_scanned[w] = Len(received[w])

Covered(i) == Covers(workers[i], i)

\* The results collected so far cover the first shards.
Collected ==
    /\ coord.what \in {"spawn", "write"} => workers = <<>>
    /\ coord.what = "wait" =>
          /\ coord.who \in 1..(Len(shard_files) + 1) /\ Len(workers) = coord.who - 1
          /\ \A i \in 1..(coord.who - 1) : Covered(i)
    /\ coord.what = "Ok" =>
          /\ Len(workers) = Len(shard_files)
          /\ \A i \in 1..Len(shard_files) : Covered(i)

IInv == TypeInv /\ Dealt /\ ReadAll /\ (\A w \in Workers : Scanned(w)) /\ Collected

-----------------------------------------------------------------------------
(***************************************************************************)
(* The steps.                                                              *)
(***************************************************************************)

\* The first element moves from the front of one queue to the end of another.
LEMMA MoveHead ==
    ASSUME NEW a \in Seq(File), NEW b \in Seq(File), b # <<>>
    PROVE  /\ Head(b) \in File /\ Tail(b) \in Seq(File) /\ Append(a, Head(b)) \in Seq(File)
           /\ Append(a, Head(b)) \o Tail(b) = a \o b
<1>1. Head(b) \in File /\ Tail(b) \in Seq(File) /\ b = <<Head(b)>> \o Tail(b)
  <2>1. Head(b) \in File /\ Tail(b) \in Seq(File)
    BY HeadTailProperties
  <2>2. Len(<<Head(b)>> \o Tail(b)) = Len(b) /\ <<Head(b)>> \o Tail(b) \in Seq(File)
    BY <2>1, ConcatProperties, HeadTailProperties
  <2>3. \A i \in 1..Len(b) : (<<Head(b)>> \o Tail(b))[i] = b[i]
    BY <2>1, ConcatProperties, HeadTailProperties
  <2>. QED
    BY <2>1, <2>2, <2>3, SeqEqual
<1>2. Append(a, Head(b)) \in Seq(File) /\ Append(a, Head(b)) = a \o <<Head(b)>>
  BY <1>1, AppendProperties, AppendIsConcat
<1>3. (a \o <<Head(b)>>) \o Tail(b) = a \o (<<Head(b)>> \o Tail(b))
  BY <1>1, ConcatAssociative, SMTT(40)
<1>. QED
  BY <1>1, <1>2, <1>3

\* Three queues in a row.
LEMMA Reassociate ==
    ASSUME NEW a \in Seq(File), NEW b \in Seq(File), NEW c \in Seq(File)
    PROVE  (a \o b) \o c = a \o (b \o c)
BY ConcatAssociative, SMTT(40)

\* The same behind a third queue.
LEMMA MoveBehind ==
    ASSUME NEW a \in Seq(File), NEW b \in Seq(File), NEW c \in Seq(File), c # <<>>
    PROVE  (a \o Append(b, Head(c))) \o Tail(c) = (a \o b) \o c
<1> DEFINE x == Append(b, Head(c))
           y == Tail(c)
<1>1. x \in Seq(File) /\ y \in Seq(File) /\ x \o y = b \o c
  BY MoveHead
<1> HIDE DEF x, y
<1>2. (a \o x) \o y = a \o (x \o y)
  BY <1>1, Reassociate, Zenon
<1>3. (a \o b) \o c = a \o (b \o c)
  BY Reassociate, Zenon
<1>4. (a \o x) \o y = (a \o b) \o c
  BY <1>1, <1>2, <1>3, Zenon
<1>. QED
  BY <1>4 DEF x, y

\* The shards a worker is for.
LEMMA WorkerFacts ==
    /\ Len(shard_files) \in Nat /\ Workers \subseteq Nat /\ DOMAIN shard_files = Workers
    /\ \A w \in Workers : shard_files[w] \in Seq(File)
<1>1. /\ Len(shard_files) \in Nat /\ DOMAIN shard_files = Workers
      /\ \A w \in Workers : shard_files[w] \in Seq(Nat)
  BY ShardFacts, LenProperties, ElementOfSeq DEF Workers
<1>2. ASSUME NEW w \in Workers PROVE shard_files[w] \in Seq(File)
  <2> DEFINE s == shard_files[w]
  <2>1. s \in Seq(Nat) /\ \A j \in DOMAIN s : s[j] \in File
    BY <1>1, RoundRobin DEF EveryFileOnce
  <2> HIDE DEF s
  <2>2. s \in [1..Len(s) -> File] /\ Len(s) \in Nat
    BY <2>1, LenProperties
  <2>3. s \in Seq(File)
    BY <2>2, SeqDef
  <2>. QED
    BY <2>3 DEF s
<1>. QED
  BY <1>1, <1>2 DEF Workers

\* The initial state satisfies the inductive invariant.
LEMMA InitIInv == Init => IInv
<1> SUFFICES ASSUME Init PROVE IInv
  OBVIOUS
<1>1. <<>> \in Seq(File) /\ <<>> \in Seq(Result)
  BY EmptySeq
<1>2. coord.what = "spawn" /\ coord.who = 1
  BY DEF Init, At
<1>3. TypeInv
  BY <1>1, DistribAssumption DEF Init, TypeInv, At
<1>4. ASSUME NEW w \in Workers PROVE Deal(w)
  BY <1>2, WorkerFacts DEF Init, Deal, Unspawned, Workers
<1>5. ReadAll /\ Collected
  BY <1>2 DEF Init, ReadAll, Collected
<1>6. ASSUME NEW w \in Workers PROVE Scanned(w)
  <2>1. received[w] = <<>> /\ looked[w] = {} /\ files_scanned[w] = 0
    BY DEF Init
  <2>2. elements(<<>>) = {} /\ Len(<<>>) = 0
    BY DEF elements
  <2>. QED
    BY <2>1, <2>2 DEF Scanned
<1>. QED
  BY <1>3, <1>4, <1>5, <1>6 DEF IInv, Dealt

\* Every step keeps the shapes of the state.
LEMMA TypeStep == TypeInv /\ [Next]_vars => TypeInv'
<1> SUFFICES ASSUME TypeInv, [Next]_vars PROVE TypeInv'
  OBVIOUS
<1> USE DEF TypeInv
<1> DEFINE Places == [what : {"spawn", "write", "wait", "Ok", "Err"}, who : Nat]
<1>a. /\ coord \in Places /\ coord.who \in Nat /\ Len(shard_files) \in Nat
      /\ Workers \subseteq Nat
      /\ \A k \in Nat : /\ At("spawn", k) \in Places /\ At("write", k) \in Places
                        /\ At("wait", k) \in Places /\ At("Ok", k) \in Places
                        /\ At("Err", k) \in Places
  BY WorkerFacts DEF At
<1>b. Bail => /\ coord' \in Places
              /\ eof' \subseteq Workers
  <2>1. At("Err", coord.who) \in Places
    BY <1>a
  <2> HIDE DEF Places, TypeInv
  <2>. QED
    BY <2>1, Zenon DEF Bail
<1>1. ASSUME NEW w \in Workers, Spawn(w) PROVE TypeInv'
  <2>1. /\ coord' \in Places
        /\ eof' \subseteq Workers
    <3>1. CASE Bail
      BY <1>b, <3>1
    <3>2. CASE ~Bail
      <4>1. coord' = At("write", w) /\ eof' = eof
        BY <1>1, <3>2 DEF Spawn
      <4>2. At("write", w) \in Places
        BY <1>a
      <4>. QED
        BY <4>1, <4>2
    <3>. QED
      BY <3>1, <3>2
  <2>2. left' \in Seq(File)
    BY <1>1, WorkerFacts DEF Spawn
  <2>. QED
    BY <1>1, <2>1, <2>2 DEF Spawn, workerVars, scanVars
<1>2. ASSUME NEW w \in Workers, WritePath(w) PROVE TypeInv'
  <2>1. /\ coord' \in Places
        /\ eof' \subseteq Workers
    BY <1>2, <1>a, <1>b DEF WritePath
  <2>2. Append(stdin[w], Head(left)) \in Seq(File) /\ Tail(left) \in Seq(File)
    BY <1>2, MoveHead DEF WritePath
  <2>3. left' \in Seq(File) /\ stdin' \in [Workers -> Seq(File)]
    BY <1>2, <2>2 DEF WritePath
  <2>. QED
    BY <1>2, <2>1, <2>3 DEF WritePath, workerVars, scanVars
<1>3. ASSUME NEW w \in Workers, DropStdin(w) PROVE TypeInv'
  <2>1. coord' \in Places
    BY <1>3, <1>a DEF DropStdin
  <2>. QED
    BY <1>3, <2>1 DEF DropStdin, closes, workerVars, scanVars
<1>4. ASSUME NEW w \in Workers, Collect(w) PROVE TypeInv'
  <2>1. /\ coord' \in Places
        /\ eof' \subseteq Workers
    <3>1. CASE child[w] # "ok"
      <4>1. Bail
        BY <1>4, <3>1 DEF Collect
      <4>. QED
        BY <1>b, <4>1
    <3>2. CASE child[w] = "ok"
      <4>1. coord' = At("wait", w + 1) /\ eof' = eof
        BY <1>4, <3>2 DEF Collect
      <4>2. At("wait", w + 1) \in Places
        <5>1. w + 1 \in Nat
          BY <1>a
        <5>. QED
          BY <1>a, <5>1
      <4>. QED
        BY <4>1, <4>2
    <3>. QED
      BY <3>1, <3>2
  <2>2. Append(workers, [files_scanned |-> files_scanned[w], looked |-> looked[w]]) \in Seq(Result)
    <3> DEFINE r == [files_scanned |-> files_scanned[w], looked |-> looked[w]]
    <3>1. r \in Result
      BY DEF Result
    <3> HIDE DEF r
    <3>2. Append(workers, r) \in Seq(Result)
      BY <3>1, AppendProperties
    <3>. QED
      BY <3>2 DEF r
  <2>3. workers' \in Seq(Result)
    BY <1>4, <2>2 DEF Collect
  <2>. QED
    BY <1>4, <2>1, <2>3 DEF Collect, scanVars
<1>5. CASE AllSpawned \/ Report
  <2>1. coord' \in Places
    <3>1. At("wait", 1) \in Places /\ At("Ok", 0) \in Places
      BY <1>a
    <3>. QED
      BY <1>5, <3>1 DEF AllSpawned, Report
  <2>. QED
    BY <1>5, <2>1 DEF AllSpawned, Report, workerVars, scanVars
<1>6. ASSUME NEW w \in Workers, Scan(w) PROVE TypeInv'
  <2>1. Append(received[w], Head(stdin[w])) \in Seq(File) /\ Tail(stdin[w]) \in Seq(File)
    BY <1>6, MoveHead DEF Scan
  <2>2. Head(stdin[w]) \in File
    BY <1>6, MoveHead DEF Scan
  <2>3. /\ lines[Head(stdin[w])] \in Seq(File \cup {Nothing})
    BY <2>2
  <2>4. /\ Len(lines[Head(stdin[w])]) \in Nat
        /\ elements(lines[Head(stdin[w])]) \subseteq File \cup {Nothing}
    BY <2>3, LenProperties, ElementOfSeq DEF elements
  <2>5. /\ received' = [received EXCEPT ![w] = Append(received[w], Head(stdin[w]))]
        /\ files_scanned' = [files_scanned EXCEPT ![w] = files_scanned[w] + Len(lines[Head(stdin[w])])]
        /\ looked' = [looked EXCEPT ![w] = looked[w] \cup elements(lines[Head(stdin[w])])]
        /\ stdin' = [stdin EXCEPT ![w] = Tail(stdin[w])]
        /\ UNCHANGED <<lines, coord, left, eof, child, blocks, stdout, large, workers>>
    BY <1>6 DEF Scan
  <2>6. files_scanned' \in [Workers -> Nat]
    <3> DEFINE m == files_scanned[w] + Len(lines[Head(stdin[w])])
    <3>1. files_scanned' = [files_scanned EXCEPT ![w] = m]
      BY <2>5
    <3>2. files_scanned[w] \in Nat
      OBVIOUS
    <3>3. m \in Nat
      <4> DEFINE a == files_scanned[w]  b == Len(lines[Head(stdin[w])])
      <4>1. a \in Nat /\ b \in Nat
        BY <2>4, <3>2
      <4> HIDE DEF a, b
      <4>2. a + b \in Nat
        BY <4>1
      <4>. QED
        BY <4>2 DEF a, b
    <3> HIDE DEF m
    <3>. QED
      BY <3>1, <3>3
  <2>7. looked' \in [Workers -> SUBSET (File \cup {Nothing})]
    BY <2>4, <2>5
  <2>8. received' \in [Workers -> Seq(File)] /\ stdin' \in [Workers -> Seq(File)]
    BY <2>1, <2>5
  <2>. QED
    BY <2>5, <2>6, <2>7, <2>8
<1>7. ASSUME NEW w \in Workers, Finish(w) PROVE TypeInv'
  <2>1. blocks' \in [Workers -> Nat] /\ large' \subseteq Workers
    BY <1>7, DistribAssumption DEF Finish
  <2>. QED
    BY <1>7, <2>1 DEF Finish, scanVars
<1>8. ASSUME NEW w \in Workers, WriteBlock(w) PROVE TypeInv'
  <2>1. stdout' \in [Workers -> Nat] /\ blocks' \in [Workers -> Nat]
    <3>1. blocks[w] - 1 \in Nat /\ stdout[w] + 1 \in Nat
      BY <1>8 DEF WriteBlock
    <3>2. \/ UNCHANGED <<stdout, blocks>>
          \/ /\ stdout' = [stdout EXCEPT ![w] = stdout[w] + 1]
             /\ blocks' = [blocks EXCEPT ![w] = blocks[w] - 1]
      BY <1>8 DEF WriteBlock
    <3>. QED
      BY <3>1, <3>2, ZenonT(60)
  <2>2. child' \in [Workers -> {"none", "reading", "writing", "ok", "dead"}]
    BY <1>8 DEF WriteBlock
  <2>. QED
    BY <1>8, <2>1, <2>2 DEF WriteBlock, scanVars
<1>9. ASSUME NEW w \in Workers, Exit(w) \/ Die(w) PROVE TypeInv'
  BY <1>9 DEF Exit, Die, workerVars, scanVars
<1>10. CASE UNCHANGED vars
  BY <1>10 DEF vars
<1>. QED
  BY <1>1, <1>2, <1>3, <1>4, <1>5, <1>6, <1>7, <1>8, <1>9, <1>10
     DEF Next, CoordStep, WorkerStep

\* A child that has read to the end has nothing more to come.
LEMMA ReadAllStep == TypeInv /\ ReadAll /\ Dealt /\ [Next]_vars => ReadAll'
<1> SUFFICES ASSUME TypeInv, ReadAll, Dealt, [Next]_vars, NEW v \in Workers,
                    child'[v] \in {"writing", "ok"}
             PROVE  stdin'[v] = <<>> /\ v \in eof'
  BY DEF ReadAll
<1> USE DEF TypeInv
<1>1. ASSUME NEW w \in Workers, Spawn(w) PROVE stdin'[v] = <<>> /\ v \in eof'
  <2>1. child'[v] = child[v] /\ UNCHANGED stdin /\ eof \subseteq eof'
    BY <1>1 DEF Spawn, Bail
  <2>. QED
    BY <2>1 DEF ReadAll
<1>2. ASSUME NEW w \in Workers, WritePath(w) PROVE stdin'[v] = <<>> /\ v \in eof'
  <2>1. UNCHANGED child /\ eof \subseteq eof'
    BY <1>2 DEF WritePath, Bail
  <2>2. v = w => UNCHANGED stdin
    <3>1. ASSUME v = w, stdin' # stdin PROVE FALSE
      <4>1. w \in eof
        BY <2>1, <3>1 DEF ReadAll
      <4>2. coord = At("write", w) /\ coord.what = "write" /\ coord.who = w
        BY <1>2 DEF WritePath, At
      <4>a. w \in Nat
        BY WorkerFacts
      <4>b. ~Unspawned(w)
        BY <4>2, <4>a DEF Unspawned
      <4>c. Deal(w)
        BY <4>2 DEF Dealt
      <4>3. Deal(w) /\ ~Unspawned(w)
        BY <4>b, <4>c
      <4>. QED
        BY <4>1, <4>2, <4>3 DEF Deal
    <3>. QED
      BY <3>1
  <2>3. stdin'[v] = stdin[v]
    BY <1>2, <2>2 DEF WritePath
  <2>. QED
    BY <2>1, <2>3 DEF ReadAll
<1>3. ASSUME NEW w \in Workers, DropStdin(w) \/ Collect(w)
      PROVE  stdin'[v] = <<>> /\ v \in eof'
  <2>1. UNCHANGED <<child, stdin>> /\ eof \subseteq eof'
    BY <1>3 DEF DropStdin, closes, Collect, Bail
  <2>. QED
    BY <2>1 DEF ReadAll
<1>4. ASSUME NEW w \in Workers, Scan(w) PROVE stdin'[v] = <<>> /\ v \in eof'
  BY <1>4 DEF Scan, ReadAll
<1>5. ASSUME NEW w \in Workers, Finish(w) PROVE stdin'[v] = <<>> /\ v \in eof'
  BY <1>5 DEF Finish, ReadAll
<1>6. ASSUME NEW w \in Workers, WriteBlock(w) \/ Exit(w) \/ Die(w)
      PROVE  stdin'[v] = <<>> /\ v \in eof'
  <2>1. child[v] \in {"writing", "ok"} /\ UNCHANGED <<stdin, eof>>
    BY <1>6 DEF WriteBlock, Exit, Die
  <2>. QED
    BY <2>1 DEF ReadAll
<1>7. CASE AllSpawned \/ Report \/ UNCHANGED vars
  BY <1>7 DEF AllSpawned, Report, vars, ReadAll
<1>. QED
  BY <1>1, <1>2, <1>3, <1>4, <1>5, <1>6, <1>7 DEF Next, CoordStep, WorkerStep

\* While the coordinator goes on, a shard is dealt to its own child.
LEMMA DealtStep == TypeInv /\ Dealt /\ [Next]_vars => Dealt'
<1> SUFFICES ASSUME TypeInv, Dealt, [Next]_vars, coord'.what # "Err", NEW v \in Workers
             PROVE  Deal(v)'
  BY DEF Dealt
<1>a. v \in Nat /\ shard_files' = shard_files /\ shard_files[v] \in Seq(File) /\ Workers \subseteq Nat
      /\ Len(shard_files) \in Nat /\ v <= Len(shard_files)
  BY WorkerFacts DEF Workers
<1>b. stdin[v] \in Seq(File) /\ received[v] \in Seq(File) /\ left \in Seq(File)
  BY DEF TypeInv
<1>c. \A what, w : At(what, w).what = what /\ At(what, w).who = w
  BY DEF At
<1>d. ASSUME coord.what # "Err" PROVE Deal(v)
  BY <1>d DEF Dealt
<1>e. ~Bail
  BY <1>c DEF Bail
<1> USE DEF TypeInv
<1>1. ASSUME NEW w \in Workers, Spawn(w) PROVE Deal(v)'
  <2>1. /\ coord = At("spawn", w) /\ coord' = At("write", w) /\ left' = shard_files[w]
        /\ child' = [child EXCEPT ![w] = "reading"]
        /\ UNCHANGED <<eof, stdin, received>>
    BY <1>1, <1>e DEF Spawn, workerVars, scanVars
  <2>2. Deal(v) /\ coord.what = "spawn" /\ coord.who = w
    BY <1>c, <1>d, <2>1
  <2>3. Unspawned(v)' <=> v > w
    BY <1>c, <2>1 DEF Unspawned
  <2>4. Unspawned(v) <=> v >= w
    BY <2>2 DEF Unspawned
  <2>5. CASE v > w
    <3>1. child[v] = "none" /\ stdin[v] = <<>> /\ received[v] = <<>> /\ v \notin eof
      BY <1>a, <2>2, <2>4, <2>5 DEF Deal
    <3>. QED
      BY <1>a, <2>1, <2>3, <2>5, <3>1 DEF Deal
  <2>6. CASE v = w
    <3>1. stdin[v] = <<>> /\ received[v] = <<>> /\ v \notin eof
      BY <1>a, <2>2, <2>4, <2>6 DEF Deal
    <3>2. Unwritten(v)' = shard_files[v]
      BY <2>1, <2>6 DEF Unwritten
    <3>3. (<<>> \o <<>>) \o shard_files[v] = shard_files[v]
      BY <1>a, EmptySeq, ConcatEmptySeq
    <3>. QED
      BY <1>a, <2>1, <2>3, <2>6, <3>1, <3>2, <3>3 DEF Deal
  <2>7. CASE v < w
    <3>a. v # w /\ ~(v >= w) /\ ~(v > w)
      BY <1>a, <2>7
    <3>b. At("write", v) # At("write", w) /\ At("write", v) # At("spawn", w)
      BY <3>a DEF At
    <3>1. /\ (received[v] \o stdin[v]) \o Unwritten(v) = shard_files[v]
          /\ Unwritten(v) = <<>>
      BY <2>1, <2>2, <2>4, <3>a, <3>b DEF Deal, Unwritten
    <3>2. Unwritten(v)' = <<>> /\ coord' # At("write", v)
      BY <2>1, <3>b DEF Unwritten
    <3>. QED
      BY <1>a, <2>1, <2>3, <3>a, <3>1, <3>2 DEF Deal
  <2>. QED
    BY <1>a, <2>5, <2>6, <2>7
<1>2. ASSUME NEW w \in Workers, WritePath(w) PROVE Deal(v)'
  <2>1. /\ coord = At("write", w) /\ coord' = coord /\ left # <<>> /\ left' = Tail(left)
        /\ stdin' = [stdin EXCEPT ![w] = Append(stdin[w], Head(left))]
        /\ UNCHANGED <<eof, child, received>>
    BY <1>2, <1>e DEF WritePath, workerVars, scanVars
  <2>2. Deal(v) /\ coord.what = "write" /\ coord.who = w
    BY <1>c, <1>d, <2>1
  <2>3. Unspawned(v)' <=> Unspawned(v)
    BY <2>1 DEF Unspawned
  <2>4. CASE v # w
    <3>1. stdin'[v] = stdin[v] /\ Unwritten(v) = <<>> /\ Unwritten(v)' = <<>>
      BY <1>c, <2>1, <2>4 DEF Unwritten
    <3>. QED
      BY <1>a, <2>1, <2>2, <2>3, <3>1 DEF Deal
  <2>5. CASE v = w
    <3>1. ~Unspawned(v) /\ Unwritten(v) = left /\ Unwritten(v)' = Tail(left)
      BY <1>a, <1>c, <2>1, <2>2, <2>5, SMTT(40) DEF Unspawned, Unwritten
    <3>2. (received[v] \o stdin[v]) \o left = shard_files[v] /\ v \notin eof
      BY <2>1, <2>2, <2>5, <3>1 DEF Deal
    <3>3. (received[v] \o Append(stdin[v], Head(left))) \o Tail(left)
             = (received[v] \o stdin[v]) \o left
      BY <1>b, <2>1, MoveBehind, ZenonT(60)
    <3>4. stdin'[v] = Append(stdin[v], Head(left))
      BY <2>1, <2>5
    <3>7. (received'[v] \o stdin'[v]) \o Unwritten(v)' = shard_files[v]
      BY <2>1, <3>1, <3>2, <3>3, <3>4
    <3>. QED
      BY <1>a, <2>1, <2>3, <3>1, <3>2, <3>7 DEF Deal
  <2>. QED
    BY <2>4, <2>5
<1>3. ASSUME NEW w \in Workers, DropStdin(w) PROVE Deal(v)'
  <2>1. /\ coord = At("write", w) /\ coord' = At("spawn", w + 1) /\ left = <<>>
        /\ eof' = eof \cup {w} /\ UNCHANGED <<left, stdin, child, received>>
    BY <1>3 DEF DropStdin, closes, workerVars, scanVars
  <2>2. Deal(v) /\ coord.what = "write" /\ coord.who = w
    BY <1>c, <1>d, <2>1
  <2>3. Unspawned(v) <=> v > w
    BY <2>2 DEF Unspawned
  <2>4. Unspawned(v)' <=> v >= w + 1
    BY <1>c, <2>1 DEF Unspawned
  <2>5. Unwritten(v) = <<>> /\ Unwritten(v)' = <<>> /\ coord' # At("write", v)
    BY <1>c, <2>1 DEF Unwritten
  <2>6. v > w => v # w
    BY <1>a
  <2>7. v >= w + 1 <=> v > w
    BY <1>a, SMTT(40)
  <2>. QED
    BY <1>a, <2>1, <2>2, <2>3, <2>4, <2>5, <2>6, <2>7 DEF Deal
<1>4. CASE AllSpawned \/ Report \/ \E w \in Workers : Collect(w)
  <2>1. /\ UNCHANGED <<eof, stdin, child, received>>
        /\ coord.what # "Err" /\ coord # At("write", v) /\ coord' # At("write", v)
    <3>1. CASE AllSpawned
      BY <3>1, <1>c DEF AllSpawned, workerVars, scanVars
    <3>2. CASE Report
      BY <3>2, <1>c DEF Report, workerVars, scanVars
    <3>3. ASSUME NEW w \in Workers, Collect(w)
          PROVE  /\ UNCHANGED <<eof, stdin, child, received>>
                 /\ coord = At("wait", w) /\ coord' = At("wait", w + 1)
      BY <3>3, <1>e DEF Collect, scanVars
    <3>. QED
      BY <1>4, <1>c, <3>1, <3>2, <3>3
  <2>2. ~Unspawned(v) /\ ~Unspawned(v)'
    <3>1. CASE AllSpawned
      BY <1>a, <1>c, <3>1 DEF AllSpawned, Unspawned
    <3>2. CASE Report \/ \E w \in Workers : Collect(w)
      <4>1. coord.what = "wait" /\ coord'.what \in {"wait", "Ok"}
        <5>1. CASE Report
          BY <1>c, <5>1 DEF Report
        <5>2. ASSUME NEW w \in Workers, Collect(w) PROVE coord.what = "wait" /\ coord'.what = "wait"
          BY <1>c, <1>e, <5>2 DEF Collect
        <5>. QED
          BY <3>2, <5>1, <5>2
      <4>. QED
        BY <4>1 DEF Unspawned
    <3>. QED
      BY <1>4, <3>1, <3>2
  <2>3. Unwritten(v) = <<>> /\ Unwritten(v)' = <<>>
    BY <2>1 DEF Unwritten
  <2>. QED
    BY <1>a, <1>d, <2>1, <2>2, <2>3 DEF Deal
<1>5. ASSUME NEW w \in Workers, Scan(w) PROVE Deal(v)'
  <2>1. /\ child[w] = "reading" /\ stdin[w] # <<>>
        /\ received' = [received EXCEPT ![w] = Append(received[w], Head(stdin[w]))]
        /\ stdin' = [stdin EXCEPT ![w] = Tail(stdin[w])]
        /\ UNCHANGED <<coord, left, eof, child>>
    BY <1>5 DEF Scan
  <2>2. Deal(v) /\ (Unspawned(v)' <=> Unspawned(v)) /\ Unwritten(v)' = Unwritten(v)
    BY <1>d, <2>1 DEF Unspawned, Unwritten
  <2>3. CASE v # w
    BY <1>a, <2>1, <2>2, <2>3 DEF Deal
  <2>4. CASE v = w
    <3>1. ~Unspawned(v)
      BY <2>1, <2>2, <2>4 DEF Deal
    <3>2. received'[v] \o stdin'[v] = received[v] \o stdin[v]
      BY <1>b, <2>1, <2>4, MoveHead
    <3>. QED
      BY <1>a, <2>1, <2>2, <3>1, <3>2 DEF Deal
  <2>. QED
    BY <2>3, <2>4
<1>6. ASSUME NEW w \in Workers, Finish(w) \/ WriteBlock(w) \/ Exit(w) \/ Die(w)
      PROVE  Deal(v)'
  <2>1. /\ UNCHANGED <<coord, left, eof, stdin, received>>
        /\ child[w] # "none" /\ \A u \in Workers : u # w => child'[u] = child[u]
    BY <1>6 DEF Finish, WriteBlock, Exit, Die, workerVars, scanVars
  <2>2. Deal(v) /\ (Unspawned(v)' <=> Unspawned(v)) /\ Unwritten(v)' = Unwritten(v)
    BY <1>d, <2>1 DEF Unspawned, Unwritten
  <2>. QED
    BY <1>a, <2>1, <2>2 DEF Deal
<1>7. CASE UNCHANGED vars
  <2>1. UNCHANGED <<coord, left, eof, stdin, received, child>>
    BY <1>7 DEF vars
  <2>2. Deal(v) /\ (Unspawned(v)' <=> Unspawned(v)) /\ Unwritten(v)' = Unwritten(v)
    BY <1>d, <2>1 DEF Unspawned, Unwritten
  <2>. QED
    BY <1>a, <2>1, <2>2 DEF Deal
<1>. QED
  BY <1>1, <1>2, <1>3, <1>4, <1>5, <1>6, <1>7 DEF Next, CoordStep, WorkerStep

\* What a child has looked into keeps up with what it has received.
LEMMA ScannedStep ==
    ASSUME TypeInv, [Next]_vars, NEW v \in Workers, Scanned(v)
    PROVE  Scanned(v)'
<1>1. ASSUME NEW w \in Workers, Scan(w) PROVE Scanned(v)'
  <2> DEFINE f == Head(stdin[w])
             a == received[v]
             b == Append(received[v], f)
  <2>1. CASE v # w
    <3>1. UNCHANGED lines /\ received'[v] = received[v] /\ looked'[v] = looked[v] /\ files_scanned'[v] = files_scanned[v]
      BY <1>1, <2>1 DEF Scan, TypeInv
    <3>. QED
      BY <3>1 DEF Scanned, plain, elements
  <2>2. CASE v = w
    <3>1. /\ UNCHANGED lines /\ received'[v] = b
          /\ looked'[v] = looked[v] \cup elements(lines[f])
          /\ files_scanned'[v] = files_scanned[v] + Len(lines[f])
      BY <1>1, <2>2 DEF Scan, TypeInv
    <3>2. a \in Seq(File) /\ f \in File /\ files_scanned[v] \in Nat
      BY <1>1, MoveHead DEF Scan, TypeInv
    <3> HIDE DEF f
    <3>3. Len(b) = Len(a) + 1 /\ Len(a) \in Nat /\ elements(b) = elements(a) \cup {f}
      <4>1. /\ b \in Seq(File) /\ Len(b) = Len(a) + 1 /\ Len(a) \in Nat
            /\ \A i \in 1..Len(a) : b[i] = a[i]
            /\ b[Len(a) + 1] = f
        BY <3>2, AppendProperties, LenProperties
      <4>2. DOMAIN a = 1..Len(a) /\ DOMAIN b = 1..(Len(a) + 1)
        BY <3>2, <4>1, LenProperties
      <4> HIDE DEF a, b
      <4>. QED
        BY <4>1, <4>2 DEF elements
    <3>4. plain(f) => elements(lines[f]) = {f} /\ Len(lines[f]) = 1
      BY DEF plain, elements
    <3> HIDE DEF a, b
    <3>5. \A g : plain(g)' <=> plain(g)
      BY <3>1 DEF plain
    <3>6. elements(received[v]') = elements(b)
      BY <3>1
    <3>7. (\A g \in elements(b) : plain(g) => g \in looked'[v])
      BY <3>1, <3>3, <3>4 DEF Scanned, a
    <3>8. ASSUME \A g \in elements(b) : plain(g)
          PROVE  looked'[v] = elements(b) /\ files_scanned'[v] = Len(b)
      <4>1. plain(f) /\ \A g \in elements(a) : plain(g)
        BY <3>3, <3>8
      <4>2. looked[v] = elements(a) /\ files_scanned[v] = Len(a)
        BY <4>1 DEF Scanned, a
      <4>. QED
        BY <3>1, <3>3, <3>4, <4>1, <4>2
    <3>9. elements(received[v])' = elements(b) /\ Len(received[v])' = Len(b)
      BY <3>1 DEF elements
    <3>. QED
      BY <3>5, <3>7, <3>8, <3>9 DEF Scanned
  <2>. QED
    BY <2>1, <2>2
<1>2. CASE UNCHANGED <<lines, received, looked, files_scanned>>
  BY <1>2 DEF Scanned, plain, elements
<1>3. ASSUME NEW w \in Workers,
             Finish(w) \/ WriteBlock(w) \/ Exit(w) \/ Die(w) \/ Spawn(w)
               \/ WritePath(w) \/ DropStdin(w) \/ Collect(w)
      PROVE  UNCHANGED <<lines, received, looked, files_scanned>>
  BY <1>3 DEF Finish, WriteBlock, Exit, Die, Spawn, WritePath, DropStdin, Collect,
              workerVars, scanVars
<1>4. ASSUME AllSpawned \/ Report \/ UNCHANGED vars
      PROVE  UNCHANGED <<lines, received, looked, files_scanned>>
  BY <1>4 DEF AllSpawned, Report, vars, workerVars, scanVars
<1>. QED
  BY <1>1, <1>2, <1>3, <1>4 DEF Next, CoordStep, WorkerStep

\* The texts of paths stay what they are.
LEMMA LinesStay == [Next]_vars => lines' = lines
BY DEF Next, CoordStep, WorkerStep, Scan, Finish, WriteBlock, Exit, Die, Spawn, WritePath,
       DropStdin, Collect, AllSpawned, Report, vars, workerVars

\* The coordinator collects the results of the shards one by one, in order.
LEMMA CollectedStep == IInv /\ [Next]_vars => Collected'
<1> SUFFICES ASSUME IInv, [Next]_vars PROVE Collected'
  OBVIOUS
<1>a. \A what, w : At(what, w).what = what /\ At(what, w).who = w
  BY DEF At
<1>b. /\ Len(shard_files) \in Nat /\ Workers = 1..Len(shard_files) /\ shard_files' = shard_files
  BY WorkerFacts DEF Workers
<1>d. \A i : workers'[i] = workers[i] /\ Covered(i) => Covered(i)'
  BY LinesStay DEF Covered, Covers, plain, elements
<1>c. Collected /\ workers \in Seq(Result) /\ Len(workers) \in Nat
  BY LenProperties DEF IInv, TypeInv
<1>1. CASE coord'.what = "Err"
  BY <1>1 DEF Collected
<1>2. ASSUME coord'.what # "Err", NEW w \in Workers, Spawn(w) \/ WritePath(w) \/ DropStdin(w)
      PROVE  Collected'
  <2>1. /\ coord.what \in {"spawn", "write"} /\ coord'.what \in {"spawn", "write"}
        /\ UNCHANGED workers
    BY <1>2, <1>a DEF Spawn, WritePath, DropStdin, Bail
  <2>. QED
    BY <1>c, <2>1 DEF Collected
<1>3. CASE AllSpawned
  <2>1. workers' = <<>> /\ coord'.what = "wait" /\ coord'.who = 1
    BY <1>3, <1>a, <1>c DEF AllSpawned, Collected
  <2>. QED
    BY <1>b, <2>1 DEF Collected
<1>4. ASSUME coord'.what # "Err", NEW w \in Workers, Collect(w) PROVE Collected'
  <2> DEFINE r == [files_scanned |-> files_scanned[w], looked |-> looked[w]]
  <2>1. /\ coord = At("wait", w) /\ coord' = At("wait", w + 1) /\ child[w] = "ok"
        /\ workers' = Append(workers, r)
    BY <1>4, <1>a DEF Collect, Bail
  <2>2. received[w] = shard_files[w]
    <3>1. stdin[w] = <<>> /\ Unwritten(w) = <<>> /\ ~Unspawned(w)
      BY <1>a, <2>1 DEF IInv, ReadAll, Unwritten, Unspawned
    <3>2. (received[w] \o stdin[w]) \o Unwritten(w) = shard_files[w]
      BY <1>a, <2>1, <3>1 DEF IInv, Dealt, Deal
    <3>3. received[w] \in Seq(File)
      BY DEF IInv, TypeInv
    <3>4. (received[w] \o <<>>) \o <<>> = received[w]
      BY <3>3, ConcatEmptySeq
    <3>. QED
      BY <3>1, <3>2, <3>4
  <2>3. Covers(r, w) /\ r \in Result
    BY <2>2 DEF IInv, TypeInv, Scanned, Covers, Result
  <2> HIDE DEF r
  <2>4. Len(workers) = w - 1 /\ \A i \in 1..(w - 1) : Covered(i)
    BY <1>a, <1>c, <2>1 DEF Collected
  <2>5. /\ Len(workers') = w /\ workers'[w] = r
        /\ \A i \in 1..(w - 1) : workers'[i] = workers[i]
    BY <1>b, <1>c, <2>1, <2>3, <2>4, AppendProperties
  <2>6. Covered(w)'
    BY <2>3, <2>5, LinesStay DEF Covered, Covers, plain, elements
  <2>7. \A i \in 1..w : Covered(i)'
    BY <1>b, <1>d, <2>4, <2>5, <2>6
  <2>8. /\ coord'.what = "wait" /\ coord'.who = w + 1 /\ w + 1 \in 1..(Len(shard_files) + 1)
        /\ (w + 1) - 1 = w
    BY <1>a, <1>b, <2>1
  <2>. QED
    BY <1>b, <2>5, <2>7, <2>8 DEF Collected
<1>5. CASE Report
  <2>1. coord = At("wait", Len(shard_files) + 1) /\ coord' = At("Ok", 0) /\ workers' = workers
    BY <1>5 DEF Report
  <2>2. /\ Len(workers) = Len(shard_files)
        /\ \A i \in 1..Len(shard_files) : Covered(i)
    BY <1>a, <1>b, <1>c, <2>1 DEF Collected
  <2>. QED
    BY <1>a, <1>b, <1>d, <2>1, <2>2 DEF Collected
<1>6. CASE UNCHANGED vars \/ \E w \in Workers : WorkerStep(w) \/ Die(w)
  <2>1. UNCHANGED <<coord, workers>>
    BY <1>6 DEF vars, WorkerStep, Scan, Finish, WriteBlock, Exit, Die
  <2>. QED
    BY <1>b, <1>c, <1>d, <2>1 DEF Collected
<1>. QED
  BY <1>1, <1>2, <1>3, <1>4, <1>5, <1>6 DEF Next, CoordStep

-----------------------------------------------------------------------------
(***************************************************************************)
(* The theorems.                                                           *)
(***************************************************************************)

\* The invariant is inductive: it holds in every reachable state.
THEOREM Invariance == Spec => []IInv
<1>1. Init => IInv
  BY InitIInv
<1>2. IInv /\ [Next]_vars => IInv'
  <2> SUFFICES ASSUME IInv, [Next]_vars PROVE IInv'
    OBVIOUS
  <2>1. \A w \in Workers : Scanned(w)'
    BY ScannedStep DEF IInv
  <2>2. Workers' = Workers
    BY DEF Workers, shard_files
  <2>. QED
    BY <2>1, <2>2, TypeStep, ReadAllStep, DealtStep, CollectedStep DEF IInv
<1>. QED
  BY <1>1, <1>2, PTL DEF Spec

\* run_coordinator returns Ok only with every file of the walk dealt to one
\* worker by its round robin, and every readable one whose path survives the
\* way there scanned by it.
THEOREM ReportCompleteHolds == Spec => []ReportComplete
<1>1. IInv => ReportComplete
  <2> SUFFICES ASSUME IInv, coord.what = "Ok"
               PROVE  DOMAIN workers = Workers /\ \A w \in Workers : Covers(workers[w], w)
    BY RoundRobin DEF ReportComplete
  <2>1. Len(workers) = Len(shard_files) /\ \A i \in 1..Len(shard_files) : Covered(i)
    BY DEF IInv, Collected
  <2>2. DOMAIN workers = 1..Len(workers)
    BY LenProperties DEF IInv, TypeInv
  <2>. QED
    BY <2>1, <2>2 DEF Covered, Workers
<1>. QED
  BY <1>1, Invariance, PTL
=============================================================================
