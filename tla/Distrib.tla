------------------------------- MODULE Distrib -------------------------------
(***************************************************************************)
(* The distributed scan (aether-distrib/src/lib.rs): a coordinator that    *)
(* deals a list of files out to child processes over their stdin pipes and *)
(* collects one result line from the stdout pipe of each.                  *)
(*                                                                         *)
(* A file is its position in the walk, and so is the text of its path,     *)
(* which fills one place of a stdin pipe; what the worker makes of that    *)
(* text is another matter.  A result is some number of blocks, each        *)
(* filling one place of a stdout pipe.  A write to a full pipe waits, a    *)
(* write to a pipe nobody reads fails.                                     *)
(***************************************************************************)
EXTENDS Integers, Sequences

CONSTANTS
    FileCount,      \* files the walk finds
    worker_count,
    Readings,       \* what a worker may make of the text of a path
    InCap, OutCap,  \* places in a pipe
    MaxBlocks       \* bound: blocks of one result

File == 1..FileCount

\* A path that scan_file gets nothing from: there is no such file, or it cannot
\* be read.
Nothing == 0

ASSUME DistribAssumption ==
    /\ Readings \subseteq Seq(File \cup {Nothing})
    /\ FileCount \in Nat /\ worker_count \in Nat
    /\ {InCap, OutCap, MaxBlocks} \subseteq Nat \ {0}

-----------------------------------------------------------------------------
at_least_one(n) == IF n > 1 THEN n ELSE 1

\* Mutant: equal chunks, and the remainder is forgotten.
shard_files_chunks ==
    LET n    == at_least_one(worker_count)
        size == FileCount \div n
    IN  SelectSeq([k \in 1..n |-> [j \in 1..size |-> (k - 1) * size + j]], LAMBDA s : s # <<>>)

fewer_of(a, b) == IF a < b THEN a ELSE b

\* Round robin over n shards: shard k gets file k and every n-th one after it.
\* Shards that no file reaches are empty, and dropped.
shard_files ==
    LET n == at_least_one(worker_count)
    IN  [k \in 1..fewer_of(n, FileCount) |->
            [j \in 1..((FileCount - k) \div n + 1) |-> k + (j - 1) * n]]

Workers == 1..Len(shard_files)

VARIABLES
    lines,      \* how the text of each path reads, line by line
    coord,      \* where the coordinator is: what it does, and with which child
    left,       \* paths of the current shard still to write
    stdin,      \* each child's stdin pipe
    eof,        \* children whose stdin the coordinator has closed
    child,      \* each child: "none", "reading", "writing", "ok" or "dead"
    received,   \* ghost: the texts of paths each child has read, in order
    files_scanned,
    looked,     \* files each child has given to scan_file
    blocks,     \* blocks of its result a child has still to write
    stdout,     \* blocks in each child's stdout pipe
    large,      \* ghost: children whose result is larger than the pipe
    workers     \* results the coordinator has collected

vars == <<lines, coord, left, stdin, eof, child, received, files_scanned, looked, blocks, stdout, large, workers>>

At(what, w) == [what |-> what, who |-> w]

(***************************************************************************)
(* path.display() puts a replacement character for what is no UTF-8, and   *)
(* writeln! escapes nothing; the worker splits its input into lines, trims *)
(* each and passes over the empty ones.  So a path reads as itself only if *)
(* its text is UTF-8, on one line and without space at its ends; any other *)
(* reads as no, one or several paths, of nothing or of other files.        *)
(***************************************************************************)
Init ==
    /\ lines \in [File -> Readings]
    /\ coord = At("spawn", 1)
    /\ left = <<>>
    /\ stdin = [w \in Workers |-> <<>>]
    /\ eof = {}
    /\ child = [w \in Workers |-> "none"]
    /\ received = [w \in Workers |-> <<>>]
    /\ files_scanned = [w \in Workers |-> 0]
    /\ looked = [w \in Workers |-> {}]
    /\ blocks = [w \in Workers |-> 0]
    /\ stdout = [w \in Workers |-> 0]
    /\ large = {}
    /\ workers = <<>>

scanVars   == <<received, files_scanned, looked>>
workerVars == <<lines, scanVars, blocks, stdout, large>>
returned   == coord.what \in {"Ok", "Err"}
exited(w)  == child[w] \in {"ok", "dead"}

\* The coordinator returns an error: it leaves its children alone, neither
\* waited for nor killed, and closes its ends of their pipes.
Bail == /\ coord' = At("Err", coord.who)
        /\ eof' = Workers

-----------------------------------------------------------------------------
(***************************************************************************)
(* run_coordinator                                                         *)
(***************************************************************************)
Spawn(w) ==
    /\ coord = At("spawn", w) /\ w \in Workers
    /\ \/ /\ child' = [child EXCEPT ![w] = "reading"]
          /\ left' = shard_files[w]
          /\ coord' = At("write", w)
          /\ UNCHANGED eof
       \/ Bail /\ UNCHANGED <<child, left>>
    /\ UNCHANGED <<stdin, workerVars, workers>>

\* The text of a path goes into the pipe, or the child that should read it is gone.
WritePath(w) ==
    /\ coord = At("write", w) /\ left # <<>>
    /\ \/ /\ ~exited(w) /\ Len(stdin[w]) < InCap
          /\ stdin' = [stdin EXCEPT ![w] = Append(@, Head(left))]
          /\ left' = Tail(left)
          /\ UNCHANGED <<coord, eof>>
       \/ /\ exited(w)
          /\ Bail
          /\ UNCHANGED <<stdin, left>>
    /\ UNCHANGED <<child, workerVars, workers>>

\* Mutant: stdin is not dropped.
closes_none(w) == UNCHANGED eof

closes(w) == eof' = eof \cup {w}

DropStdin(w) ==
    /\ coord = At("write", w) /\ left = <<>>
    /\ closes(w)
    /\ coord' = At("spawn", w + 1)
    /\ UNCHANGED <<left, stdin, child, workerVars, workers>>

AllSpawned ==
    /\ coord = At("spawn", Len(shard_files) + 1)
    /\ coord' = At("wait", 1)
    /\ UNCHANGED <<left, stdin, eof, child, workerVars, workers>>

\* The child has exited; only now is its stdout read.
Collect(w) ==
    /\ coord = At("wait", w) /\ w \in Workers
    /\ exited(w)
    /\ stdout' = [stdout EXCEPT ![w] = 0]
    /\ IF child[w] = "ok"
       THEN /\ workers' = Append(workers, [files_scanned |-> files_scanned[w], looked |-> looked[w]])
            /\ coord' = At("wait", w + 1)
            /\ UNCHANGED eof
       ELSE Bail /\ UNCHANGED workers
    /\ UNCHANGED <<lines, left, stdin, child, scanVars, blocks, large>>

Report ==
    /\ coord = At("wait", Len(shard_files) + 1)
    /\ coord' = At("Ok", 0)
    /\ UNCHANGED <<left, stdin, eof, child, workerVars, workers>>

-----------------------------------------------------------------------------
(***************************************************************************)
(* run_worker                                                              *)
(***************************************************************************)
elements(s) == {s[j] : j \in DOMAIN s}

\* Every line counts as a file scanned, whatever comes of it: an error of
\* scan_file is swallowed.
Scan(w) ==
    /\ child[w] = "reading" /\ stdin[w] # <<>>
    /\ LET f == Head(stdin[w])
       IN  /\ received' = [received EXCEPT ![w] = Append(@, f)]
           /\ files_scanned' = [files_scanned EXCEPT ![w] = @ + Len(lines[f])]
           /\ looked' = [looked EXCEPT ![w] = @ \cup elements(lines[f])]
    /\ stdin' = [stdin EXCEPT ![w] = Tail(@)]
    /\ UNCHANGED <<lines, coord, left, eof, child, blocks, stdout, large, workers>>

\* End of input: the result is put together.
Finish(w) ==
    /\ child[w] = "reading" /\ stdin[w] = <<>> /\ w \in eof
    /\ \E n \in 1..MaxBlocks :
          /\ blocks' = [blocks EXCEPT ![w] = n]
          /\ large' = IF n > OutCap THEN large \cup {w} ELSE large
    /\ child' = [child EXCEPT ![w] = "writing"]
    /\ UNCHANGED <<lines, coord, left, stdin, eof, scanVars, stdout, workers>>

WriteBlock(w) ==
    /\ child[w] = "writing" /\ blocks[w] > 0
    /\ \/ /\ ~returned /\ stdout[w] < OutCap
          /\ stdout' = [stdout EXCEPT ![w] = @ + 1]
          /\ blocks' = [blocks EXCEPT ![w] = @ - 1]
          /\ UNCHANGED child
       \/ /\ returned
          /\ child' = [child EXCEPT ![w] = "dead"]
          /\ UNCHANGED <<stdout, blocks>>
    /\ UNCHANGED <<lines, coord, left, stdin, eof, scanVars, large, workers>>

Exit(w) ==
    /\ child[w] = "writing" /\ blocks[w] = 0
    /\ child' = [child EXCEPT ![w] = "ok"]
    /\ UNCHANGED <<coord, left, stdin, eof, workerVars, workers>>

\* The child is killed, panics or fails to read or write.
Die(w) ==
    /\ child[w] \in {"reading", "writing"}
    /\ child' = [child EXCEPT ![w] = "dead"]
    /\ UNCHANGED <<coord, left, stdin, eof, workerVars, workers>>

-----------------------------------------------------------------------------
CoordStep ==
    \/ \E w \in Workers : Spawn(w) \/ WritePath(w) \/ DropStdin(w) \/ Collect(w)
    \/ AllSpawned \/ Report

WorkerStep(w) == Scan(w) \/ Finish(w) \/ WriteBlock(w) \/ Exit(w)

Next == CoordStep \/ \E w \in Workers : WorkerStep(w) \/ Die(w)

Spec == Init /\ [][Next]_vars

\* Every process runs on until it waits for another one.
FairSpec ==
    /\ Spec
    /\ WF_vars(CoordStep)
    /\ \A w \in Workers : WF_vars(WorkerStep(w))

-----------------------------------------------------------------------------
\* Every file of the walk is at one place of one of the shards.
EveryFileOnce(shards) ==
    /\ \A w \in DOMAIN shards : \A j \in DOMAIN shards[w] : shards[w][j] \in File
    /\ \A f \in File : \E w \in DOMAIN shards : \E j \in DOMAIN shards[w] : shards[w][j] = f
    /\ \A v, w \in DOMAIN shards : \A i \in DOMAIN shards[v], j \in DOMAIN shards[w] :
          shards[v][i] = shards[w][j] => v = w /\ i = j

\* A readable file whose path survives the way to the worker.
plain(f) == lines[f] = <<f>>

\* Result r has looked into every plain file of shard w; if all of them are, it
\* has looked into nothing else and counted each once.
Covers(r, w) ==
    LET files == elements(shard_files[w])
    IN  /\ \A f \in files : plain(f) => f \in r.looked
        /\ (\A f \in files : plain(f)) =>
              r.looked = files /\ r.files_scanned = Len(shard_files[w])

\* A report that is Ok covers the walk, whatever the order in which the children
\* ran and whichever died: every file is dealt to one worker, and the results,
\* in shard order, cover their shards.  Only so far as names are plain, though:
\* a file with a line break, a space at the end or a byte that is no UTF-8 in
\* its path, and a file that cannot be read, is missing from the scan, and the
\* report is Ok, with a total_files that counts the lines.
ReportComplete ==
    coord.what = "Ok" =>
        /\ EveryFileOnce(shard_files)
        /\ DOMAIN workers = Workers
        /\ \A w \in Workers : Covers(workers[w], w)

\* The coordinator returns, however many children die, unless some child's
\* result is larger than the pipe: that child waits for room, and the
\* coordinator, which reads only after the exit, waits for that child.
ReturnsUnlessLarge == <>(returned \/ large # {})
=============================================================================
