------------------------------ MODULE ScopedRun ------------------------------
(***************************************************************************)
(* One run of an approved command: its secrets are resolved here or taken  *)
(* from a lease, its secret files are written to a directory of its own,   *)
(* the child is started with two pipes, two goroutines copy the pipes line *)
(* by line through the redaction, and the directory is removed when the    *)
(* run returns.                                                            *)
(*                                                                         *)
(* The unit of output is a piece of a line, whose last piece holds the     *)
(* newline; a value that is cut counts for the piece it begins in.  The    *)
(* child writes one piece at a time and blocks while the pipe is full.     *)
(* It may close a stream, and leave a descendant that keeps its streams    *)
(* open.                                                                   *)
(***************************************************************************)
EXTENDS Naturals, Sequences

CONSTANTS
  Env, Files,  \* names of secrets the profile injects, and materialises
  Length,      \* bytes of each value
  MultiLine,   \* names of values with a line break in them: a key, a kubeconfig
  MinRedacted, \* addRedaction ignores shorter values
  Streams,     \* stdout and stderr
  PipeSize,    \* pieces a pipe holds
  LineSize,    \* pieces the scanner's buffer holds
  Contents,    \* the values a piece of the command's output may hold
  MaxPieces,   \* bound: pieces written to a stream
  MaxFaults,   \* bound: failing operations
  Kills        \* the broker may be killed

Names == Env \cup Files

ASSUME ScopedRunAssumption ==
  /\ Env \cap Files = {} /\ Length \in [Names -> Nat] /\ MinRedacted \in Nat
  /\ MultiLine \subseteq Names
  /\ PipeSize \in Nat \ {0} /\ LineSize \in Nat \ {0}
  /\ MaxPieces \in Nat /\ MaxFaults \in Nat
  /\ Contents \subseteq SUBSET Names /\ Kills \in BOOLEAN

VARIABLES
  pc,          \* where the broker's main goroutine is
  resolved,    \* names whose values are at hand
  redactions,  \* names whose values are redacted
  dir,         \* the temporary directory: absent, or the files in it
  stuck,       \* its removal has failed
  child,       \* the command; "left" when a descendant outlives it
  open,        \* streams whose write end is still open
  pending,     \* the piece the child is writing
  wrote,       \* the pieces written to each stream so far
  pipe,        \* the pieces in each pipe
  buffer,      \* the pieces in each scanner's buffer
  pump,        \* the copying goroutine of each stream
  shown,       \* the pieces copied to the broker's own streams
  faults

vars == <<pc, resolved, redactions, dir, stuck, child, open, pending, wrote, pipe, buffer, pump,
          shown, faults>>

Absent == [made |-> FALSE, files |-> {}]

Piece == [holds : Contents, last : BOOLEAN]

-----------------------------------------------------------------------------
\* A plausible bug: a value of exactly the minimal length is not redacted.
LongEnoughStrict(n) == Length[n] > MinRedacted

\* addRedaction.
LongEnough(n) == Length[n] >= MinRedacted

Redactable(names) == {n \in names : LongEnough(n)}

\* A plausible bug: redaction stops at the first secret.
RedactFirst(holds) ==
  LET found == holds \cap (redactions \ MultiLine) IN
  IF found = {} THEN holds ELSE holds \ {CHOOSE n \in found : TRUE}

\* redact of one scanned line: a value with a line break in it is in no line.
Redact(holds) == holds \ (redactions \ MultiLine)

\* The line in a scanner's buffer as Fprintln prints it, with a newline.
Printed(pieces) ==
  [i \in DOMAIN pieces |-> [holds |-> Redact(pieces[i].holds), last |-> i = Len(pieces)]]

Fault == faults < MaxFaults /\ faults' = faults + 1

-----------------------------------------------------------------------------
Init ==
  /\ pc = "approved" /\ resolved = {} /\ redactions = {} /\ dir = Absent /\ stuck = FALSE
  /\ child = "none" /\ open = {} /\ pending = <<>>
  /\ wrote = [s \in Streams |-> <<>>] /\ pipe = [s \in Streams |-> <<>>]
  /\ buffer = [s \in Streams |-> <<>>] /\ pump = [s \in Streams |-> "none"]
  /\ shown = [s \in Streams |-> <<>>] /\ faults = 0

dirVars == <<dir, stuck>>
childVars == <<child, open, pending, wrote>>
ioVars == <<pipe, buffer, pump, shown>>

\* runScopedCommand resolves the secrets itself.
ResolveHere ==
  /\ pc = "approved" /\ pc' = "resolve"
  /\ UNCHANGED <<resolved, redactions, dirVars, childVars, ioVars, faults>>

\* runCommandWithLease finds all of them in the lease.
UseLease ==
  /\ pc = "approved" /\ pc' = "prepare"
  /\ resolved' = Names /\ redactions' = Redactable(Names)
  /\ UNCHANGED <<dirVars, childVars, ioVars, faults>>

\* resolveProfileSecrets: one source after the other, environment first, in
\* the order of a Go map; the first that fails ends the run.
Resolve(n) ==
  /\ pc = "resolve" /\ n \in Names \ resolved /\ (n \in Files => Env \subseteq resolved)
  /\ \/ /\ resolved' = resolved \cup {n}
        /\ redactions' = redactions \cup Redactable({n})
        /\ UNCHANGED <<pc, faults>>
     \/ Fault /\ pc' = "ended" /\ UNCHANGED <<resolved, redactions>>
  /\ UNCHANGED <<dirVars, childVars, ioVars>>

Resolved ==
  /\ pc = "resolve" /\ resolved = Names /\ pc' = "prepare"
  /\ UNCHANGED <<resolved, redactions, dirVars, childVars, ioVars, faults>>

\* prepareCommandEnv up to the directory, which only secret files need.
Prepare ==
  /\ pc = "prepare"
  /\ \/ /\ redactions' = redactions \cup Redactable(Env)
        /\ dir' = IF Files = {} THEN Absent ELSE [made |-> TRUE, files |-> {}]
        /\ pc' = "files" /\ UNCHANGED faults
     \/ Fault /\ pc' = "ended" /\ UNCHANGED <<redactions, dir>>
  /\ UNCHANGED <<resolved, stuck, childVars, ioVars>>

\* The files one by one; one that fails may be there in part, and ends the run
\* by way of the cleanup.
WriteFile(f) ==
  /\ pc = "files" /\ f \in Files \ dir.files
  /\ \/ /\ dir' = [dir EXCEPT !.files = @ \cup {f}]
        /\ redactions' = redactions \cup Redactable({f})
        /\ UNCHANGED <<pc, faults>>
     \/ /\ Fault /\ pc' = "clean" /\ UNCHANGED redactions
        /\ dir' \in {dir, [dir EXCEPT !.files = @ \cup {f}]}
  /\ UNCHANGED <<resolved, stuck, childVars, ioVars>>

\* runChildCommand up to the two goroutines.
Start ==
  /\ pc = "files" /\ dir.files = Files
  /\ \/ /\ pc' = "copy" /\ child' = "running" /\ open' = Streams
        /\ pump' = [s \in Streams |-> "reading"]
        /\ UNCHANGED faults
     \/ Fault /\ pc' = "clean" /\ UNCHANGED <<child, open, pump>>
  /\ UNCHANGED <<resolved, redactions, dirVars, pending, wrote, pipe, buffer, shown>>

\* A plausible bug: the broker waits for one of the two.
CopiedOne ==
  /\ pc = "copy" /\ \E s \in Streams : pump[s] = "done"
  /\ pc' = "wait"
  /\ UNCHANGED <<resolved, redactions, dirVars, childVars, ioVars, faults>>

\* <-done twice.
Copied ==
  /\ pc = "copy" /\ \A s \in Streams : pump[s] = "done"
  /\ pc' = "wait"
  /\ UNCHANGED <<resolved, redactions, dirVars, childVars, ioVars, faults>>

\* A plausible bug: the end of the output is taken for the end of the command.
WaitNot ==
  /\ pc = "wait" /\ pc' = "clean"
  /\ UNCHANGED <<resolved, redactions, dirVars, childVars, ioVars, faults>>

\* cmd.Wait.
Wait ==
  /\ pc = "wait" /\ child \in {"left", "exited"} /\ pc' = "clean"
  /\ UNCHANGED <<resolved, redactions, dirVars, childVars, ioVars, faults>>

\* The cleanup, and the return.  Nobody looks at the error of os.RemoveAll, which
\* leaves the directory with what it did not remove.
Cleanup ==
  /\ pc = "clean" /\ pc' = "ended"
  /\ \/ dir' = Absent /\ UNCHANGED <<stuck, faults>>
     \/ /\ dir.made /\ Fault /\ stuck' = TRUE
        /\ \E left \in SUBSET dir.files : dir' = [dir EXCEPT !.files = left]
  /\ UNCHANGED <<resolved, redactions, childVars, ioVars>>

-----------------------------------------------------------------------------
\* A plausible bug: one goroutine copies one stream after the other.
ReadInTurn(s) ==
  /\ pump[s] = "reading" /\ pipe[s] # <<>> /\ Len(buffer[s]) < LineSize
  /\ ~(buffer[s] # <<>> /\ buffer[s][Len(buffer[s])].last)
  /\ s = (CHOOSE t \in Streams : TRUE) \/ \A t \in Streams \ {s} : pump[t] = "done"
  /\ pipe' = [pipe EXCEPT ![s] = Tail(@)]
  /\ buffer' = [buffer EXCEPT ![s] = Append(@, Head(pipe[s]))]
  /\ UNCHANGED <<pc, resolved, redactions, dirVars, childVars, pump, shown, faults>>

\* scanner.Scan: the buffer takes what the pipe has, as long as there is room.
Read(s) ==
  /\ pump[s] = "reading" /\ pipe[s] # <<>> /\ Len(buffer[s]) < LineSize
  /\ ~(buffer[s] # <<>> /\ buffer[s][Len(buffer[s])].last)
  /\ pipe' = [pipe EXCEPT ![s] = Tail(@)]
  /\ buffer' = [buffer EXCEPT ![s] = Append(@, Head(pipe[s]))]
  /\ UNCHANGED <<pc, resolved, redactions, dirVars, childVars, pump, shown, faults>>

\* A whole line is redacted and printed.
PrintLine(s) ==
  /\ pump[s] = "reading" /\ buffer[s] # <<>> /\ buffer[s][Len(buffer[s])].last
  /\ shown' = [shown EXCEPT ![s] = @ \o Printed(buffer[s])]
  /\ buffer' = [buffer EXCEPT ![s] = <<>>]
  /\ UNCHANGED <<pc, resolved, redactions, dirVars, childVars, pipe, pump, faults>>

\* At the end of the file the rest is a line too.
Finish(s) ==
  /\ pump[s] = "reading" /\ s \notin open /\ pipe[s] = <<>>
  /\ ~(buffer[s] # <<>> /\ (buffer[s][Len(buffer[s])].last \/ Len(buffer[s]) = LineSize))
  /\ shown' = [shown EXCEPT ![s] = @ \o Printed(buffer[s])]
  /\ buffer' = [buffer EXCEPT ![s] = <<>>]
  /\ pump' = [pump EXCEPT ![s] = "done"]
  /\ UNCHANGED <<pc, resolved, redactions, dirVars, childVars, pipe, faults>>

\* A buffer that is full without a newline ends the scan; what it holds and
\* what follows is not printed, and nobody reads the pipe any more.
GiveUp(s) ==
  /\ pump[s] = "reading" /\ Len(buffer[s]) = LineSize /\ ~buffer[s][LineSize].last
  /\ pump' = [pump EXCEPT ![s] = "done"]
  /\ UNCHANGED <<pc, resolved, redactions, dirVars, childVars, pipe, buffer, shown, faults>>

-----------------------------------------------------------------------------
\* The command, or the descendant it left, decides what to write next.
Compose(s) ==
  /\ child \in {"running", "left"} /\ s \in open /\ pending = <<>>
  /\ Len(wrote[s]) < MaxPieces
  /\ \E piece \in Piece : pending' = <<[on |-> s, piece |-> piece]>>
  /\ UNCHANGED <<pc, resolved, redactions, dirVars, child, open, wrote, ioVars, faults>>

\* Its write returns once the pipe has room.
Push ==
  /\ pending # <<>>
  /\ LET s == pending[1].on IN
       /\ Len(pipe[s]) < PipeSize
       /\ pipe' = [pipe EXCEPT ![s] = Append(@, pending[1].piece)]
       /\ wrote' = [wrote EXCEPT ![s] = Append(@, pending[1].piece)]
  /\ pending' = <<>>
  /\ UNCHANGED <<pc, resolved, redactions, dirVars, child, open, buffer, pump, shown, faults>>

CloseStream(s) ==
  /\ child \in {"running", "left"} /\ s \in open /\ pending = <<>>
  /\ open' = open \ {s}
  /\ UNCHANGED <<pc, resolved, redactions, dirVars, child, pending, wrote, ioVars, faults>>

\* The command exits, and may leave a descendant that holds its streams.
Exit ==
  /\ child = "running" /\ pending = <<>>
  /\ \/ child' = "exited" /\ open' = {}
     \/ child' = "left" /\ UNCHANGED open
  /\ UNCHANGED <<pc, resolved, redactions, dirVars, pending, wrote, ioVars, faults>>

DescendantExits ==
  /\ child = "left" /\ pending = <<>> /\ child' = "exited" /\ open' = {}
  /\ UNCHANGED <<pc, resolved, redactions, dirVars, pending, wrote, ioVars, faults>>

\* A signal to the terminal's process group ends the broker, which handles
\* none, and the command with it.
Kill ==
  /\ Kills /\ pc \notin {"ended", "killed"}
  /\ pc' = "killed" /\ pump' = [s \in Streams |-> "none"]
  /\ child' = IF child = "none" THEN "none" ELSE "exited"
  /\ open' = {} /\ pending' = <<>>
  /\ UNCHANGED <<resolved, redactions, dirVars, wrote, pipe, buffer, shown, faults>>

Broker == \/ ResolveHere \/ UseLease \/ (\E n \in Names : Resolve(n)) \/ Resolved \/ Prepare
          \/ (\E f \in Files : WriteFile(f)) \/ Start \/ Copied \/ Wait \/ Cleanup
Copy(s) == Read(s) \/ PrintLine(s) \/ Finish(s) \/ GiveUp(s)
Command == (\E s \in Streams : Compose(s) \/ CloseStream(s)) \/ Push \/ Exit \/ DescendantExits

Next == Broker \/ (\E s \in Streams : Copy(s)) \/ Command \/ Kill

\* Goroutines run on; a command whose writes return comes to its end.  A
\* descendant that it leaves need not.
Fairness == /\ WF_vars(Broker) /\ \A s \in Streams : WF_vars(Copy(s))
            /\ WF_vars(Push) /\ WF_vars(Exit)

Spec == Init /\ [][Next]_vars /\ Fairness
-----------------------------------------------------------------------------
\* Every variable holds a value of its kind.
TypeOK ==
  /\ pc \in {"approved", "resolve", "prepare", "files", "copy", "wait", "clean", "ended", "killed"}
  /\ resolved \subseteq Names /\ redactions \subseteq Names
  /\ dir \in [made : BOOLEAN, files : SUBSET Files] /\ stuck \in BOOLEAN
  /\ child \in {"none", "running", "left", "exited"} /\ open \subseteq Streams
  /\ pending \in Seq([on : Streams, piece : Piece]) /\ Len(pending) <= 1
  /\ wrote \in [Streams -> Seq(Piece)] /\ shown \in [Streams -> Seq([holds : SUBSET Names, last : BOOLEAN])]
  /\ pipe \in [Streams -> Seq(Piece)] /\ buffer \in [Streams -> Seq(Piece)]
  /\ pump \in [Streams -> {"none", "reading", "done"}]
  /\ \A s \in Streams : Len(pipe[s]) <= PipeSize /\ Len(buffer[s]) <= LineSize
  /\ faults \in 0..MaxFaults

\* Whichever operation failed, when the run returns its directory with the
\* secret files is gone, unless its own removal failed, which nobody is told.
NothingLeft == pc = "ended" /\ ~stuck => dir = Absent

\* The command has every secret value and every secret file from its start to
\* its exit, though it may have closed its output long before.
EquippedThroughout ==
  child = "running" => resolved = Names /\ dir.files = Files

\* The command has its secrets as long as it runs, and the host no longer.
RunSound == TypeOK /\ NothingLeft /\ EquippedThroughout

\* Nothing a stream shows holds a value of one line that is long enough to be
\* redacted, in whatever way the values came.  Redaction is "best-effort and
\* line-oriented": a value of several lines is shown in full.
ShownRedacted ==
  \A s \in Streams : \A i \in DOMAIN shown[s] :
    \A n \in shown[s][i].holds \ MultiLine : Length[n] < MinRedacted

\* A stream shows exactly the first n pieces that were written to it, redacted,
\* in lines that end where they were ended, or at the end of the output.
ShowsFirst(s, n) ==
  /\ Len(shown[s]) = n
  /\ \A i \in 1..n :
       /\ shown[s][i].holds = Redact(wrote[s][i].holds)
       /\ shown[s][i].last = (wrote[s][i].last \/ i = Len(wrote[s]))

ShowsAll(s) == ShowsFirst(s, Len(wrote[s]))

\* Behind the first n pieces a line begins that does not fit into the scanner's
\* buffer with its newline.
LongLineAfter(s, n) ==
  /\ n = 0 \/ wrote[s][n].last
  /\ n + LineSize <= Len(wrote[s])
  /\ \A i \in 1..LineSize : ~wrote[s][n + i].last

\* When a started run returns, each stream has shown every line that was
\* written to it, in order, up to the first line of more than a megabyte.
OutputUpToLongLine ==
  pc = "ended" => \A s \in Streams :
    ShowsAll(s) \/ \E n \in 0..Len(wrote[s]) : ShowsFirst(s, n) /\ LongLineAfter(s, n)

\* README: "The agent sees command output, not the credential".  Of a command
\* that ran to its end the agent sees all of it.
AgentSeesOutput == pc = "ended" => \A s \in Streams : ShowsAll(s)

\* A copy that has ended at a line of more than a megabyte.
GaveUp == \E s \in Streams : pump[s] = "done" /\ buffer[s] # <<>>

\* The run comes to its end unless a descendant keeps a stream open or a copy
\* has given up its stream: the two copies leave no full pipe between the
\* command and its exit.
RunEnds == (pc # "ended") ~> (pc \in {"ended", "killed"} \/ child = "left" \/ GaveUp)

\* README: the secret files are "removed when the command exits", unless an
\* interrupt ends the broker as well or their removal fails.
RemovedAfterExit == (child = "exited") ~> (~dir.made \/ stuck \/ pc = "killed")

\* The run ends, and its secret files with it.
RunReturns == RunEnds /\ RemovedAfterExit
=============================================================================
