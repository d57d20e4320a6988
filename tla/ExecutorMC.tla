------------------------------ MODULE ExecutorMC -----------------------------
(* An instance of Executor for TLC. *)
EXTENDS Executor

use(name, readonly, filter) == [name |-> name, readonly |-> readonly, filter |-> filter]

\* One use of each class the code tells apart: plain read, file mutator,
\* read-only and writing Bash, a network tool that is both mutating and
\* parallel-safe, the same with filtered arguments, an unregistered tool and
\* one on the blocklist.
MCUseKinds ==
    {use("Read", FALSE, "NoMatch"), use("Write", FALSE, "NoMatch"),
     use("Bash", TRUE, "NoMatch"), use("Bash", FALSE, "Warn"),
     use("WebFetch", FALSE, "NoMatch"), use("WebFetch", FALSE, "Refuse"),
     use("Ghost", FALSE, "NoMatch"), use("Grep", FALSE, "NoMatch")}

MCRegistered == {"Read", "Write", "Bash", "WebFetch", "Grep"}
=============================================================================
