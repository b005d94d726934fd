--------------------------- MODULE BackgroundJobs ---------------------------
(***************************************************************************)
(* The background commands of one turn (core/tools/background_jobs.py and  *)
(* the job methods of TerminalExecutor in core/tools/terminal.py).         *)
(*                                                                         *)
(* A command is started detached, a watcher task waits for its process and *)
(* enforces the timeout, kill_command and the end of the turn kill it, and *)
(* await_command pages through its log, which the process appends to.  The *)
(* log is a sequence of bytes: "a" stands for a character of one byte, "L" *)
(* and "T" for the first and the second byte of a longer one.              *)
(***************************************************************************)
EXTENDS Integers, Sequences, FiniteSets, Sublists

CONSTANTS MaxStarts, \* bound: commands started
          JobCap,    \* max_background_jobs
          PageBytes, \* OUTPUT_CHUNK_BYTES
          MaxLog     \* bound: bytes in the log that is read

\* The cap is at least 1, a page has room for a character of two bytes.
ASSUME JobsAssumption ==
    /\ MaxStarts \in Nat \ {0} /\ JobCap \in Nat \ {0}
    /\ PageBytes \in Nat /\ PageBytes >= 2 /\ MaxLog \in Nat

Jobs == 1..MaxStarts
NoJob == [status |-> "none", proc |-> "none", asked |-> FALSE, watch |-> "none", own |-> FALSE]

VARIABLES job,      \* the registry, the processes and their watchers
          turn,     \* "open", then aclose: "closing", "closed" or "cut" by a cancellation
          toKill,   \* the jobs aclose has not come to
          killing,  \* the jobs a kill waits for
          killed,   \* what aclose returns
          output,      \* the bytes in the log of job 1
          cursor,   \* the cursor the model passes back
          pages     \* the text it was given

jobsVars == <<job, turn, toKill, killing, killed, output, cursor, pages>>
readerVars == <<output, cursor, pages>>

JobsTypeOK ==
    /\ job \in [Jobs -> [status : {"none", "running", "exited", "killed", "lost"},
                         proc : {"none", "spawning", "alive", "signalled", "gone"}, asked : BOOLEAN,
                         watch : {"none", "waiting", "draining", "done"}, own : BOOLEAN]]
    /\ turn \in {"open", "closing", "closed", "cut"} /\ killing \subseteq Jobs /\ killed \subseteq Jobs
    /\ cursor \in 0..Len(output) /\ Len(output) <= MaxLog

JobsInit ==
    /\ job = [j \in Jobs |-> NoJob] /\ turn = "open" /\ toKill = <<>> /\ killing = {} /\ killed = {}
    /\ output = <<>> /\ cursor = 0 /\ pages = <<>>

\* A bound: the log is read in behaviours with one job, the jobs of the others
\* write nothing.
Alone == \A j \in Jobs \ {1} : job[j] = NoJob

Live == {j \in Jobs : job[j].status = "running"}
Change(j, how) == job' = [job EXCEPT ![j] = how]

-----------------------------------------------------------------------------
(* Start, watcher and process.                                             *)

\* start_background: the job is registered before its process exists.
Start(j) ==
    /\ turn = "open" /\ job[j] = NoJob /\ \A i \in 1..j - 1 : job[i] # NoJob
    /\ Cardinality(Live) < JobCap /\ output = <<>>
    /\ Change(j, [NoJob EXCEPT !.status = "running", !.proc = "spawning"])
    /\ UNCHANGED <<turn, toKill, killing, killed, readerVars>>

\* _spawn_local_job: the process starts, does not start, or the call is
\* cancelled meanwhile, which leaves a running job without a process.
Spawn(j) ==
    /\ job[j].proc = "spawning"
    /\ \/ Change(j, [job[j] EXCEPT !.proc = "alive", !.watch = "waiting"])
       \/ Change(j, [job[j] EXCEPT !.proc = "none", !.status = "lost"])
       \/ Change(j, [job[j] EXCEPT !.proc = "none"])
    /\ UNCHANGED <<turn, toKill, killing, killed, readerVars>>

\* The process ends: by itself, or because of a signal.
ProcessEnds(j) ==
    /\ job[j].proc \in {"alive", "signalled"}
    /\ Change(j, [job[j] EXCEPT !.proc = "gone", !.own = job[j].proc = "alive"])
    /\ UNCHANGED <<turn, toKill, killing, killed, readerVars>>

\* The deadline of the job passes; a job that is being killed is left alone.
TimeoutStrikes(j) ==
    /\ job[j].watch = "waiting" /\ job[j].proc \in {"alive", "signalled"}
    /\ Change(j, IF job[j].asked THEN [job[j] EXCEPT !.watch = "done", !.status = "killed"]
                 ELSE [job[j] EXCEPT !.watch = "draining", !.proc = "signalled"])
    /\ UNCHANGED <<turn, toKill, killing, killed, readerVars>>

\* Mutant: a job that ends while it is killed counts as exited.
WatchEndsExited(j) ==
    /\ job[j].watch = "waiting" /\ job[j].proc = "gone"
    /\ Change(j, [job[j] EXCEPT !.watch = "done", !.status = "exited"])
    /\ UNCHANGED <<turn, toKill, killing, killed, readerVars>>

\* _watch_local after the process has ended.
WatchEnds(j) ==
    /\ job[j].watch = "waiting" /\ job[j].proc = "gone"
    /\ Change(j, [job[j] EXCEPT !.watch = "done", !.status = IF job[j].asked THEN "killed" ELSE "exited"])
    /\ UNCHANGED <<turn, toKill, killing, killed, readerVars>>

\* After the timeout the watcher waits a little for the process, and notes the
\* reason in the log.
DrainEnds(j) ==
    /\ job[j].watch = "draining"
    /\ Change(j, [job[j] EXCEPT !.watch = "done", !.status = "killed"])
    /\ output' = IF Alone /\ ~job[j].asked /\ Len(output) < MaxLog THEN Append(output, "a") ELSE output
    /\ UNCHANGED <<turn, toKill, killing, killed, cursor, pages>>

-----------------------------------------------------------------------------
(* kill and aclose.                                                        *)

\* Mutant: a job without a process is left as it is.
KillProcess(j) ==
    IF job[j].status = "running" /\ job[j].watch # "none"
    THEN Change(j, [job[j] EXCEPT !.asked = TRUE, !.proc = IF @ = "alive" THEN "signalled" ELSE @])
         /\ killing' = killing \union {j}
    ELSE UNCHANGED <<job, killing>>

\* kill, up to the wait: a job that is over is left as it is.
Kill(j) ==
    IF job[j].status # "running" THEN UNCHANGED <<job, killing>>
    ELSE IF job[j].watch = "none" THEN Change(j, [job[j] EXCEPT !.status = "lost"]) /\ UNCHANGED killing
    ELSE Change(j, [job[j] EXCEPT !.asked = TRUE, !.proc = IF @ = "alive" THEN "signalled" ELSE @])
         /\ killing' = killing \union {j}

\* kill_command, for a job whose start has returned.
KillCommand(j) ==
    /\ turn = "open" /\ j \notin killing /\ job[j].watch # "none" /\ Kill(j)
    /\ UNCHANGED <<turn, toKill, killed, readerVars>>

\* The watcher is done, or the drain timeout passes: the job is killed anyhow.
KillReturns(j) ==
    /\ j \in killing /\ killing' = killing \ {j}
    /\ Change(j, [job[j] EXCEPT !.status = IF @ = "running" THEN "killed" ELSE @])
    /\ UNCHANGED <<turn, toKill, killed, readerVars>>

\* aclose, when the turn is over and its tool calls have returned.
Close ==
    /\ turn = "open" /\ killing = {} /\ \A j \in Jobs : job[j].proc # "spawning"
    /\ turn' = "closing"
    /\ toKill' = Ascending(Live)
    /\ UNCHANGED <<job, killing, killed, readerVars>>

CloseNext ==
    /\ turn = "closing" /\ killing = {}
    /\ IF toKill = <<>> THEN turn' = "closed" /\ UNCHANGED <<job, toKill, killing, killed>>
       ELSE /\ Kill(Head(toKill)) /\ toKill' = Tail(toKill) /\ killed' = killed \union {Head(toKill)}
            /\ UNCHANGED turn
    /\ UNCHANGED readerVars

\* The turn's task is cancelled while aclose waits: the other jobs are not killed.
CloseCut ==
    /\ turn = "closing" /\ killing # {} /\ turn' = "cut" /\ killing' = {}
    /\ UNCHANGED <<job, toKill, killed, readerVars>>

-----------------------------------------------------------------------------
(* The log and its pages.                                                  *)

\* A process that has its SIGKILL writes nothing more.
Emit(b) ==
    /\ job[1].proc = "alive" /\ Alone /\ Len(output) < MaxLog /\ output' = Append(output, b)
    /\ UNCHANGED <<job, turn, toKill, killing, killed, cursor, pages>>

\* What the bytes s say, where a byte that belongs to no character is "?".
Second(s, i) == s[i] = "T" /\ i > 1 /\ s[i - 1] = "L"
Character(s, i) ==
    CASE s[i] = "a" -> "a"
      [] s[i] = "L" /\ i < Len(s) /\ s[i + 1] = "T" -> "LT"
      [] OTHER -> "?"
Starts(s) == {i \in DOMAIN s : ~Second(s, i)}
Decode(s) == [k \in DOMAIN Ascending(Starts(s)) |-> Character(s, Ascending(Starts(s))[k])]

\* Mutant: a character that is cut by the end of the page is not kept back.
KeepsNothing(data, final) == 0

\* The bytes the decoder keeps: the first one of a character that is not complete.
KeptBack(data, final) == IF data # <<>> /\ data[Len(data)] = "L" /\ ~final THEN 1 ELSE 0

\* await_command: read_output at a cursor it returned before.
ReadPage ==
    LET end  == IF cursor + PageBytes < Len(output) THEN cursor + PageBytes ELSE Len(output)
        data == SubSeq(output, cursor + 1, end)
        kept == KeptBack(data, job[1].status # "running" /\ end = Len(output))
    IN /\ turn = "open" /\ job[1].watch # "none" /\ end - kept > cursor
       /\ cursor' = end - kept /\ pages' = pages \o Decode(SubSeq(data, 1, Len(data) - kept))
       /\ UNCHANGED <<job, turn, toKill, killing, killed, output>>

JobsNext ==
    \/ \E j \in Jobs : \/ Start(j) \/ Spawn(j) \/ ProcessEnds(j) \/ TimeoutStrikes(j) \/ WatchEnds(j)
                       \/ DrainEnds(j) \/ KillCommand(j) \/ KillReturns(j)
    \/ Close \/ CloseNext \/ CloseCut \/ ReadPage \/ \E b \in {"a", "L", "T"} : Emit(b)

JobsSpec == JobsInit /\ [][JobsNext]_jobsVars

-----------------------------------------------------------------------------
(* Properties.                                                             *)

\* A job that counts as over has no process that was not told to end, so the
\* cap on jobs is a cap on commands at work, and a job that exited did so by
\* itself: no kill or timeout that races its end is taken for a result.
OutcomesTrue ==
    /\ \A j \in Jobs : /\ job[j].status \in {"exited", "killed", "lost"} => job[j].proc # "alive"
                       /\ job[j].status = "exited" => job[j].own /\ ~job[j].asked
    /\ Cardinality({j \in Jobs : job[j].proc = "alive"}) <= JobCap

\* aclose leaves nothing behind: every job has an end and every process of the
\* turn is told to end, also the job whose start was cancelled and the ones
\* that end while aclose waits for another.
ClosedIsClean == turn = "closed" => \A j \in Jobs : job[j].status # "running" /\ job[j].proc # "alive"

\* The pages put together are the text of the log up to the cursor: no page
\* cuts a character, and none is given twice or lost while the log grows.
PagesExact == pages = Decode(SubSeq(output, 1, cursor))

JobsSafe == OutcomesTrue /\ ClosedIsClean /\ PagesExact
=============================================================================
