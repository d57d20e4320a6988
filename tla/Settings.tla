------------------------------ MODULE Settings -------------------------------
(***************************************************************************)
(* The settings store (aether-store/src/lib.rs): processes that read       *)
(* ~/.aether/settings.json, change one field and write it back through a   *)
(* temporary file of one fixed name and a rename.                          *)
(*                                                                         *)
(* Nothing locks the file, so the system calls of several processes        *)
(* interleave; a process may die between any two, and each call may fail.  *)
(* A name points to an inode: a rename moves it, and a process goes on     *)
(* writing to the inode it opened, whatever name that has by then.         *)
(***************************************************************************)
EXTENDS Integers, Sequences

CONSTANTS
    Process,
    Strings,        \* values of default_model and of the environment
    Tools,          \* names for always_allow_tools
    EnvKeys,        \* keys nested under env
    MaxOps          \* bound: operations started

\* The marks below for what is no value are no strings or names of tools.
ASSUME SettingsAssumption ==
    /\ MaxOps \in Nat
    /\ {"blank", "broken", "not an object"} \cap Strings = {} /\ "not a list" \notin Tools
    /\ EnvKeys # {}

(***************************************************************************)
(* A settings value: a string field (default_model, permission_mode and    *)
(* provider are set alike), the list of tools, the environment by key, and *)
(* whether keys the program does not know are there.  NotAList and         *)
(* NotAnObject are entries of another JSON type than the program expects.  *)
(***************************************************************************)
Unset       == "unset"
NotAList    == {"not a list"}
NoEnv       == [k \in EnvKeys |-> Unset]
NotAnObject == [k \in EnvKeys |-> "not an object"]
Value(model, allow, env, extra) ==
    [model |-> model, allow |-> allow, env |-> env, extra |-> extra]
Empty       == Value(Unset, {}, NoEnv, FALSE)

\* A file with nothing in it, and one that is no JSON object: a text cut short,
\* or a shorter one written over a longer one.
Blank  == Value("blank", {}, NoEnv, FALSE)
Broken == Value("broken", {}, NoEnv, FALSE)

Op == [kind : {"set_model"}, arg : Strings]
        \cup [kind : {"set_allow"}, arg : SUBSET Tools]
        \cup [kind : {"set_env"}, arg : [key : EnvKeys, value : Strings]]
        \cup [kind : {"set_unknown"}, arg : {Unset}]
        \cup [kind : {"append_always_allow"}, arg : Tools]

VARIABLES
    inodes,     \* contents of every inode ever made
    path,       \* inode of settings.json, 0 if there is none
    tmp,        \* inode of settings.json.tmp, 0 if there is none
    pc,         \* where each process is in its operation
    op,         \* its operation
    body,       \* what it has to write
    fd,         \* the inode it has open
    ops,        \* operations started so far
    alone,      \* ghost: the operation could read the file, and no other one was
                \* under way since it began
    before      \* ghost: what the file said when the operation began

vars == <<inodes, path, tmp, pc, op, body, fd, ops, alone, before>>

NoOp == [kind |-> "none", arg |-> Unset]

Init ==
    /\ \E allow \in {{}, NotAList}, env \in {NoEnv, NotAnObject} :
          inodes = <<Value(Unset, allow, env, TRUE)>>
    /\ path \in {0, 1}
    /\ tmp = 0
    /\ pc = [p \in Process |-> "idle"]
    /\ op = [p \in Process |-> NoOp]
    /\ body = [p \in Process |-> Empty]
    /\ fd = [p \in Process |-> 0]
    /\ ops = 0
    /\ alone = [p \in Process |-> FALSE]
    /\ before = [p \in Process |-> Empty]

InFlight == {p \in Process : pc[p] \in {"create", "write", "rename"}}

-----------------------------------------------------------------------------
(***************************************************************************)
(* set and append_always_allow                                             *)
(***************************************************************************)
\* No file, an empty one, or one that is no JSON, counts as an empty object.
current == IF path = 0 \/ inodes[path] \in {Blank, Broken} THEN Empty ELSE inodes[path]

\* Mutant: the known fields are written, the rest of the file is not.
updated_known(v, o) ==
    CASE o.kind = "set_model"           -> Value(o.arg, v.allow, v.env, FALSE)
      [] o.kind = "set_allow"           -> Value(v.model, o.arg, v.env, FALSE)
      [] OTHER                          -> v

\* A list that is no list, or an env that is no object, is left as it is, and
\* the operation goes on.
updated(v, o) ==
    CASE o.kind = "set_model"           -> [v EXCEPT !.model = o.arg]
      [] o.kind = "set_allow"           -> [v EXCEPT !.allow = o.arg]
      [] o.kind = "set_env"             ->
            IF v.env = NotAnObject THEN v ELSE [v EXCEPT !.env[o.arg.key] = o.arg.value]
      [] o.kind = "append_always_allow" ->
            IF v.allow = NotAList THEN v ELSE [v EXCEPT !.allow = @ \cup {o.arg}]
      [] OTHER                          -> v

already_present(v, o) ==
    o.kind = "append_always_allow" /\ v.allow # NotAList /\ o.arg \in v.allow

\* The file is read, or that fails and counts as an empty object too;
\* append_always_allow returns at once for a tool it finds, and set with an
\* error for a key it does not know.
Begin(p, o) ==
    /\ p \notin InFlight /\ ops < MaxOps
    /\ ops' = ops + 1
    /\ op' = [op EXCEPT ![p] = o]
    /\ before' = [before EXCEPT ![p] = current]
    /\ \E read \in {current, Empty} :
          /\ body' = [body EXCEPT ![p] = updated(read, o)]
          /\ pc' = [pc EXCEPT ![p] = IF o.kind = "set_unknown" THEN "failed"
                                    ELSE IF already_present(read, o) THEN "ok" ELSE "create"]
          /\ alone' = [q \in Process |-> q = p /\ InFlight = {} /\ read = current]
    /\ UNCHANGED <<inodes, path, tmp, fd>>

-----------------------------------------------------------------------------
(***************************************************************************)
(* write_value: fs::write of the temporary file, then the rename.          *)
(***************************************************************************)
opVars == <<op, body, ops, alone, before>>

\* fs::write makes the file or empties the one that is there.
Create(p) ==
    /\ pc[p] = "create"
    /\ inodes' = IF tmp = 0 THEN Append(inodes, Blank) ELSE [inodes EXCEPT ![tmp] = Blank]
    /\ tmp' = IF tmp = 0 THEN Len(inodes') ELSE tmp
    /\ fd' = [fd EXCEPT ![p] = tmp']
    /\ pc' = [pc EXCEPT ![p] = "write"]
    /\ UNCHANGED <<path, opVars>>

\* The text goes to the inode that was opened.  Where another process has
\* written meanwhile, the end of a longer text stays behind it.
Write(p) ==
    /\ pc[p] = "write"
    /\ \E text \in {body[p]} \cup (IF inodes[fd[p]] = Blank THEN {} ELSE {Broken}) :
          inodes' = [inodes EXCEPT ![fd[p]] = text]
    /\ pc' = [pc EXCEPT ![p] = "rename"]
    /\ UNCHANGED <<path, tmp, fd, opVars>>

\* There may be no such file any more.
Rename(p) ==
    /\ pc[p] = "rename"
    /\ pc' = [pc EXCEPT ![p] = IF tmp = 0 THEN "failed" ELSE "ok"]
    /\ path' = IF tmp = 0 THEN path ELSE tmp
    /\ tmp' = 0
    /\ UNCHANGED <<inodes, fd, opVars>>

\* The system call fails and its error is returned, or the process is killed.
\* Either way a write under way may be cut short, and the temporary file stays.
Stop(p, how) ==
    /\ p \in InFlight
    /\ pc' = [pc EXCEPT ![p] = how]
    /\ \/ UNCHANGED inodes
       \/ pc[p] = "write" /\ inodes' = [inodes EXCEPT ![fd[p]] = Broken]
    /\ UNCHANGED <<path, tmp, fd, opVars>>

Next ==
    \E p \in Process :
        \/ \E o \in Op : Begin(p, o)
        \/ Create(p) \/ Write(p) \/ Rename(p)
        \/ \E how \in {"failed", "died"} : Stop(p, how)

Spec == Init /\ [][Next]_vars

-----------------------------------------------------------------------------
\* w is v with nothing but the field of o changed, and that one as o asks.
OnlyField(v, w, o) ==
    /\ w.extra = v.extra
    /\ w.model = IF o.kind = "set_model" THEN o.arg ELSE v.model
    /\ w.allow = CASE o.kind = "set_allow" -> o.arg
                   [] o.kind = "append_always_allow" -> v.allow \cup {o.arg}
                   [] OTHER -> v.allow
    /\ \A k \in EnvKeys :
          w.env[k] = IF o.kind = "set_env" /\ k = o.arg.key THEN o.arg.value ELSE v.env[k]

\* What o is to change has another JSON type in v.
WrongType(v, o) ==
    \/ o.kind = "append_always_allow" /\ v.allow = NotAList
    \/ o.kind = "set_env" /\ v.env = NotAnObject

\* "Atomic single-field update": while an operation runs, if its process dies,
\* and if it returns an error, the file says what it said before; once it has
\* returned Ok, that field alone has changed and keys the program does not know
\* are kept.  The exception is in the code, not in its documentation: over an
\* always_allow_tools that is no list, or an env that is no object, the update
\* is dropped and Ok (for the tool: "newly added") returned all the same; the
\* file is as before then.  So it is for an operation that can read the file and
\* that no other one overlaps, whatever earlier operations that did overlap,
\* failed or died have left behind.  Operations that overlap lose updates,
\* expose empty files and may fail, and one whose read fails puts its field alone
\* in the place of all others.
AloneIsAtomic ==
    \A p \in Process : alone[p] =>
        /\ (p \in InFlight \/ pc[p] \in {"failed", "died"}) => current = before[p]
        /\ pc[p] = "ok" => IF WrongType(before[p], op[p])
                            THEN current = before[p]
                            ELSE OnlyField(before[p], current, op[p])
=============================================================================
