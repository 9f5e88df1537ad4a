------------------------------ MODULE VaultRead ------------------------------
(***************************************************************************)
(* One read of a vault on the authority's host (resolveVaultRef): the      *)
(* token of the vault comes from a secret source, then bws or bw runs with *)
(* a time limit while two goroutines copy its output into buffers that     *)
(* keep at most a cap of it.  Run returns when the child has ended and     *)
(* both pipes are closed, which a descendant of the child may hold open.   *)
(***************************************************************************)
EXTENDS Naturals

CONSTANTS
  Cap,         \* vaultOutputCap
  PipeRoom,    \* what a pipe holds
  Timeout,     \* vaultExecTimeout
  Descendants, \* bound: processes the child leaves behind, 0 or 1
  MaxOutput,   \* bound: what is written to one stream
  MaxElapsed   \* bound: the last instant since the child was started

ASSUME VaultReadAssumption ==
  /\ Cap \in Nat \ {0} /\ PipeRoom \in Nat \ {0} /\ Timeout \in Nat \ {0}
  /\ Descendants \in {0, 1} /\ MaxOutput \in Nat /\ MaxElapsed \in Nat /\ Timeout <= MaxElapsed

VARIABLES
  read,      \* what is read, and with which token's source
  stage,     \* of resolveVaultRef
  token,     \* what the child is given
  binary,    \* bws or bw
  forked,    \* descendants that hold the child's pipes
  piped,     \* what is in each pipe
  written,   \* what was written to each stream in all
  kept,      \* what each cappedWriter kept
  exceeded,  \* its flag
  elapsed,   \* since the child was started
  result

readVars == <<read, stage, token, binary, forked, piped, written, kept, exceeded, elapsed, result>>

Outputs == {"stdout", "stderr"}

\* raw: what the secret source yields before its trimming; trim: its option;
\* field: the request names one; text: what the child's whole output means,
\* "no value" being JSON without a value for bws and line ends for bw.
Reads == [vault : {"bsm", "bw"}, field : BOOLEAN, text : {"value", "no value", "malformed"},
         raw : {"fails", "empty", "blank", "token"}, trim : BOOLEAN]

\* A value has the length of the output it was taken from.
Results == [ok : {FALSE}] \cup [ok : {TRUE}, of : Nat]
Failure == [ok |-> FALSE]
-----------------------------------------------------------------------------
\* resolveSecretSource.  Without trimming, blanks are a value.
SourceYields(p) == p.raw = "token" \/ (p.raw = "blank" /\ ~p.trim)

\* resolveVaultRef trims the token once more and refuses an empty one.
Usable(p) == SourceYields(p) /\ p.raw # "blank"

\* A plausible bug: a write that fits in part does not raise the flag.
FlagMissing(s, n) == exceeded[s] \/ kept[s] >= Cap

\* cappedWriter.Write of n bytes: the flag and what is kept.
Flag(s, n) == exceeded[s] \/ kept[s] + n > Cap
Keep(s, n) == IF kept[s] + n > Cap THEN Cap ELSE kept[s] + n

Holders == (IF binary = "running" THEN 1 ELSE 0) + forked

Return(r) == stage' = "done" /\ result' = r
-----------------------------------------------------------------------------
ReadInit ==
  /\ read \in Reads /\ stage = "token" /\ token = "none"
  /\ binary = "none" /\ forked = 0
  /\ piped = [s \in Outputs |-> 0] /\ written = [s \in Outputs |-> 0]
  /\ kept = [s \in Outputs |-> 0] /\ exceeded = [s \in Outputs |-> FALSE]
  /\ elapsed = 0 /\ result = Failure

\* resolveVaultRef up to the call of the executor, runBwGet's check included.
StartRead ==
  /\ stage = "token"
  /\ IF Usable(read) /\ (read.vault = "bw" => read.field)
     THEN /\ stage' = "run" /\ token' = read.raw
          /\ binary' = "running" /\ UNCHANGED result
     ELSE Return(Failure) /\ UNCHANGED <<token, binary>>
  /\ UNCHANGED <<read, forked, piped, written, kept, exceeded, elapsed>>

\* The binary is not there.
StartFails ==
  /\ stage = "token" /\ Usable(read) /\ Return(Failure)
  /\ UNCHANGED <<read, token, binary, forked, piped, written, kept, exceeded, elapsed>>

\* The child or a descendant writes what the pipe takes.
Output(s, n) ==
  /\ Holders > 0 /\ piped[s] + n <= PipeRoom /\ written[s] + n <= MaxOutput
  /\ piped' = [piped EXCEPT ![s] = @ + n] /\ written' = [written EXCEPT ![s] = @ + n]
  /\ UNCHANGED <<read, stage, token, binary, forked, kept, exceeded, elapsed, result>>

\* One round of io.Copy into a cappedWriter, of all or a part of the pipe.
CopyOutput(s, n) ==
  /\ n <= piped[s] /\ piped' = [piped EXCEPT ![s] = @ - n]
  /\ kept' = [kept EXCEPT ![s] = Keep(s, n)]
  /\ exceeded' = [exceeded EXCEPT ![s] = Flag(s, n)]
  /\ UNCHANGED <<read, stage, token, binary, forked, written, elapsed, result>>

Fork ==
  /\ binary = "running" /\ forked < Descendants /\ forked' = forked + 1
  /\ UNCHANGED <<read, stage, token, binary, piped, written, kept, exceeded, elapsed, result>>

DescendantExit ==
  /\ forked > 0 /\ forked' = forked - 1
  /\ UNCHANGED <<read, stage, token, binary, piped, written, kept, exceeded, elapsed, result>>

ChildExit ==
  /\ binary = "running" /\ binary' \in {"succeeded", "failed"}
  /\ UNCHANGED <<read, stage, token, forked, piped, written, kept, exceeded, elapsed, result>>

\* A plausible bug: a child that has written is not killed.
KillSilent ==
  /\ binary = "running" /\ elapsed >= Timeout /\ written["stdout"] = 0 /\ binary' = "killed"
  /\ UNCHANGED <<read, stage, token, forked, piped, written, kept, exceeded, elapsed, result>>

\* The deadline of the context kills the child, not what it has started.
KillAtTimeout ==
  /\ binary = "running" /\ elapsed >= Timeout /\ binary' = "killed"
  /\ UNCHANGED <<read, stage, token, forked, piped, written, kept, exceeded, elapsed, result>>

\* What runBsmGet and runBwGet take for a value.
Meaningful == read.text # IF read.vault = "bsm" THEN "malformed" ELSE "no value"

\* cmd.Run has returned, and with it the executor and the read.
Finished ==
  Return(IF /\ binary = "succeeded" /\ ~exceeded["stdout"]
            /\ kept["stdout"] > 0 /\ Meaningful
         THEN [ok |-> TRUE, of |-> kept["stdout"]] ELSE Failure)

FinishRead ==
  /\ stage = "run" /\ Holders = 0 /\ \A s \in Outputs : piped[s] = 0
  /\ Finished
  /\ UNCHANGED <<read, token, binary, forked, piped, written, kept, exceeded, elapsed>>

Elapse ==
  /\ stage = "run" /\ elapsed < MaxElapsed /\ elapsed' = elapsed + 1
  /\ UNCHANGED <<read, stage, token, binary, forked, piped, written, kept, exceeded, result>>

ReadNext ==
  \/ StartRead \/ StartFails \/ Fork \/ DescendantExit \/ ChildExit \/ KillAtTimeout
  \/ FinishRead \/ Elapse
  \/ \E s \in Outputs, n \in 1..PipeRoom : Output(s, n) \/ CopyOutput(s, n)

ReadSpec == ReadInit /\ [][ReadNext]_readVars

\* The secret source answers, the goroutines run, time passes and the context
\* kills.  Nothing makes the child or its descendants end or write.
FairReadSpec ==
  /\ ReadSpec /\ WF_readVars(StartRead) /\ WF_readVars(FinishRead)
  /\ WF_readVars(Elapse) /\ WF_readVars(KillAtTimeout)
  /\ \A s \in Outputs : WF_readVars(\E n \in 1..PipeRoom : CopyOutput(s, n))
-----------------------------------------------------------------------------
\* Every variable holds a value of its kind; what was written to a stream is
\* in the pipe, kept, or was dropped with the flag raised.
ReadTypeOK ==
  /\ read \in Reads /\ stage \in {"token", "run", "done"} /\ token \in {"none", "blank", "token"}
  /\ binary \in {"none", "running", "succeeded", "failed", "killed"} /\ forked \in 0..Descendants
  /\ \A s \in Outputs :
       /\ piped[s] \in 0..PipeRoom /\ written[s] \in 0..MaxOutput /\ kept[s] \in 0..Cap
       /\ exceeded[s] \in BOOLEAN
       /\ IF exceeded[s] THEN written[s] > Cap ELSE written[s] = kept[s] + piped[s]
  /\ elapsed \in 0..MaxElapsed /\ result \in Results

\* "silently truncating could ship a corrupted credential": a value is made of
\* all that a successful child and its descendants wrote, wherever the writes
\* were cut and however the kill and the exit fell together.
WholeOrNothing ==
  stage = "done" /\ result.ok =>
    binary = "succeeded" /\ result.of = written["stdout"] /\ result.of > 0

\* A read is refused for a reason: no token, a child that failed, did not end
\* in time or wrote too much, or an output that means nothing.  A value of just
\* the cap is returned, whatever is on the other stream.
RefusedForAReason ==
  stage = "done" /\ ~result.ok =>
    \/ binary \in {"none", "failed", "killed"}
    \/ written["stdout"] \notin 1..Cap
    \/ ~Meaningful

\* The binary runs only with a token that is more than blanks.
NoTokenNoRead == binary # "none" => token = "token"

\* A read yields the whole value, and yields one unless there is a reason.
ReadSound == ReadTypeOK /\ WholeOrNothing /\ RefusedForAReason /\ NoTokenNoRead

\* A read ends though the child hangs or floods both streams, unless a
\* descendant stays for ever.
ReadEnds == <>[](forked > 0) \/ <>(stage = "done")
=============================================================================
