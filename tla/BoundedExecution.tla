--------------------------- MODULE BoundedExecution ---------------------------
(***************************************************************************)
(* One tool call of the MCP adapter (src/src/docsystem/mcp_server.py): the  *)
(* CLI runs as a child process, two threads drain its pipes up to a limit,  *)
(* and the caller polls for its end, for an overflow and for the deadline,  *)
(* terminates it if need be and joins the threads.                          *)
(*                                                                         *)
(* Output is counted in units of which a pipe holds Pipe, time in ticks of  *)
(* which a poll takes one. Whoever can act does so before the clock moves,  *)
(* except for the child: that is the assumption under which a thread that   *)
(* is joined for two seconds has read what was in the pipe.                 *)
(***************************************************************************)
EXTENDS Naturals, FiniteSets

CONSTANTS
  Streams,  \* "stdout" and "stderr"
  Limit,    \* Limit[n]: max_stdout_bytes, max_stderr_bytes
  Pipe,     \* what a pipe holds
  MaxWrite, \* bound on what the child writes to a stream
  Deadline, \* timeout_seconds
  Grace,    \* seconds between SIGTERM and SIGKILL
  Join      \* seconds that join waits for a thread

\* What the constants are: sizes and durations; a deadline and the time a
\* thread is joined for are not zero (mcp_server.py: timeout_seconds, 2.0).
Sizes ==
  /\ Streams = {"stdout", "stderr"}
  /\ Limit \in [Streams -> Nat] /\ Pipe \in Nat /\ MaxWrite \in Nat
  /\ Deadline \in Nat /\ Deadline >= 1
  /\ Grace \in Nat /\ Join \in Nat /\ Join >= 1

VARIABLES
  child,    \* "running", "exited", or "killed" by a signal
  code,     \* its exit status
  stubborn, \* it ignores SIGTERM
  wrote, taken,          \* units written to each pipe, and read from it
  buffer, thread,        \* what each thread has kept, and its state
  overflow,              \* streams that exceeded their limit
  pc, due, now, timedOut, \* the caller
  interrupted,           \* where in the call it was interrupted
  outcome

process == <<child, code, stubborn, wrote>>
threads == <<taken, buffer, thread, overflow>>
caller == <<pc, due, timedOut, interrupted, outcome>>
vars == <<child, code, stubborn, wrote, taken, buffer, thread, overflow,
          pc, due, now, timedOut, interrupted, outcome>>

Init ==
  /\ child = "running" /\ code \in {0, 1} /\ stubborn \in BOOLEAN
  /\ wrote = [n \in Streams |-> 0] /\ taken = [n \in Streams |-> 0]
  /\ buffer = [n \in Streams |-> 0] /\ thread = [n \in Streams |-> "new"]
  /\ overflow = {}
  /\ pc = "start" /\ due = 0 /\ now = 0
  /\ timedOut = FALSE /\ interrupted = {} /\ outcome = "none"

-----------------------------------------------------------------------------
(* The child; it blocks on a full pipe, and may never end *)

Write(n) ==
  /\ child = "running" /\ wrote[n] < MaxWrite /\ wrote[n] - taken[n] < Pipe
  /\ wrote' = [wrote EXCEPT ![n] = @ + 1]
  /\ UNCHANGED <<child, code, stubborn, threads, caller, now>>

Exit ==
  /\ child = "running"
  /\ child' = "exited"
  /\ UNCHANGED <<code, stubborn, wrote, threads, caller, now>>

-----------------------------------------------------------------------------
(* drain *)

\* A chunk that does not fit is cut, and the thread returns.
Readable(n) == thread[n] = "reading" /\ wrote[n] > taken[n]
Drain(n) ==
  /\ Readable(n)
  /\ \E k \in 1 .. wrote[n] - taken[n] :
       LET remaining == Limit[n] - buffer[n] IN
       /\ taken' = [taken EXCEPT ![n] = @ + k]
       /\ IF k > remaining
          THEN /\ buffer' = [buffer EXCEPT ![n] = Limit[n]]
               /\ thread' = [thread EXCEPT ![n] = "returned"]
               /\ overflow' = overflow \cup {n}
          ELSE /\ buffer' = [buffer EXCEPT ![n] = @ + k]
               /\ UNCHANGED <<thread, overflow>>
  /\ UNCHANGED <<process, caller, now>>

AtEnd(n) == thread[n] = "reading" /\ wrote[n] = taken[n] /\ child # "running"
EndOfFile(n) ==
  /\ AtEnd(n)
  /\ thread' = [thread EXCEPT ![n] = "returned"]
  /\ UNCHANGED <<process, taken, buffer, overflow, caller, now>>

-----------------------------------------------------------------------------
(* _execute *)

Goto(p, wait) ==
  /\ pc' = p /\ due' = now + wait
  /\ UNCHANGED <<timedOut, interrupted, outcome>>

\* The child runs before the threads do and before the try begins.
Begin ==
  /\ pc = "start"
  /\ pc' = "poll" /\ thread' = [n \in Streams |-> "reading"]
  /\ UNCHANGED <<process, taken, buffer, overflow, due, now, timedOut, interrupted,
                 outcome>>

Poll ==
  /\ pc = "poll"
  /\ IF child = "running" THEN Goto("wait", 1) ELSE Goto("join", Join)
  /\ UNCHANGED <<process, threads, now>>

\* overflow_event.wait: on an overflow, or after the interval.
WaitEnds == overflow # {} \/ now >= due
Wait ==
  /\ pc = "wait" /\ WaitEnds
  /\ timedOut' = (overflow = {} /\ now >= Deadline)
  /\ pc' = (IF overflow # {} \/ now >= Deadline THEN "terminate" ELSE "poll")
  /\ UNCHANGED <<process, threads, due, now, interrupted, outcome>>

\* A Python interruption of the wrapper may strike anywhere. In the try, the
\* handler terminates the child, once more if a termination was under way; an
\* interruption of that leaves only the joins; before the try and in the joins
\* nothing handles it.
Place ==
  IF pc = "start" THEN "start"
  ELSE IF pc \notin {"poll", "wait", "terminate", "grace"} THEN "end"
  ELSE IF interrupted = {} THEN "try" ELSE "handler"
Interrupt ==
  /\ pc # "done"
  /\ interrupted' = interrupted \cup {Place}
  /\ \/ Place = "try" /\ pc' = "terminate" /\ UNCHANGED <<due, outcome>>
     \/ Place = "handler" /\ pc' = "join" /\ due' = now + Join /\ UNCHANGED outcome
     \/ Place \in {"start", "end"} /\ pc' = "done" /\ outcome' = "interrupted"
        /\ UNCHANGED due
  /\ UNCHANGED <<process, threads, now, timedOut>>

-----------------------------------------------------------------------------
(* _terminate_process: SIGTERM, a second to obey, SIGKILL *)

Terminate ==
  /\ pc = "terminate"
  /\ IF child # "running" THEN Goto("join", Join) /\ UNCHANGED child
     ELSE /\ Goto("grace", Grace)
          /\ child' = IF stubborn THEN child ELSE "killed"
  /\ UNCHANGED <<code, stubborn, wrote, threads, now>>

GraceEnds == child # "running" \/ now >= due
Kill_Waits == UNCHANGED child
Kill == child' = IF child = "running" THEN "killed" ELSE child
Reap ==
  /\ pc = "grace" /\ GraceEnds
  /\ Kill /\ Goto("join", Join)
  /\ UNCHANGED <<code, stubborn, wrote, threads, now>>

-----------------------------------------------------------------------------
(* The threads are joined, one after the other, and the answer is given *)

JoinEnds ==
  \/ pc = "join" /\ (thread["stdout"] = "returned" \/ now >= due)
  \/ pc = "join again" /\ (thread["stderr"] = "returned" \/ now >= due)
JoinThread ==
  /\ JoinEnds
  /\ IF pc = "join" THEN Goto("join again", Join) ELSE Goto("answer", 0)
  /\ UNCHANGED <<process, threads, now>>

\* _invoke: a failed command answers only if it printed a payload and the tool
\* takes it from one that fails.
Verdict_LoopOnly(allow) ==
  IF interrupted # {} THEN "interrupted"
  ELSE IF timedOut THEN "timeout"
  ELSE IF child = "killed" THEN "output limit"
  ELSE IF code # 0 /\ ~(allow /\ buffer["stdout"] > 0) THEN "failed"
  ELSE "payload"
Verdict(allow) ==
  IF interrupted # {} THEN "interrupted"
  ELSE IF timedOut THEN "timeout"
  ELSE IF overflow # {} THEN "output limit"
  ELSE IF code # 0 /\ ~(allow /\ buffer["stdout"] > 0) THEN "failed"
  ELSE "payload"

Return ==
  /\ pc = "answer"
  /\ \E allow \in BOOLEAN : outcome' = Verdict(allow)
  /\ pc' = "done"
  /\ UNCHANGED <<process, threads, due, now, timedOut, interrupted>>

\* The clock moves when nobody but the child can act.
Tick ==
  /\ \/ pc = "wait" /\ ~WaitEnds
     \/ pc = "grace" /\ ~GraceEnds
     \/ pc \in {"join", "join again"} /\ ~JoinEnds
  /\ \A n \in Streams : ~Readable(n) /\ ~AtEnd(n)
  /\ now' = now + 1
  /\ UNCHANGED <<process, threads, caller>>

Next ==
  \/ \E n \in Streams : Write(n) \/ Drain(n) \/ EndOfFile(n)
  \/ Exit \/ Begin \/ Poll \/ Wait \/ Interrupt \/ Terminate \/ Reap \/ JoinThread \/ Return
  \/ Tick

Spec == Init /\ [][Next]_vars

-----------------------------------------------------------------------------
(* Properties *)

\* A tool never answers with a part of the output: what it returns is all that
\* the child wrote before it ended by itself, within both limits, whenever the
\* overflow, the deadline and the child's end meet.
PayloadIsWhole ==
  outcome = "payload" =>
    /\ child = "exited"
    /\ \A n \in Streams : buffer[n] = wrote[n] /\ buffer[n] <= Limit[n]

\* A call ends by its deadline, the interval of a poll and the time granted to
\* the termination later, whatever the child does; an interruption adds at most
\* a second termination, one of that termination the two joins. A child is left
\* behind only if the call was interrupted before the try, or a second time
\* while the handler of the first terminated it (_execute, _terminate_process).
CallIsBounded ==
  /\ interrupted \subseteq {"end"} => now <= Deadline + 1 + Grace
  /\ "handler" \notin interrupted => now <= Deadline + 1 + 2 * Grace
  /\ now <= Deadline + 1 + 2 * Grace + 2 * Join
  /\ pc \in {"join", "join again", "answer", "done"} /\ child = "running" =>
       "start" \in interrupted \/ {"try", "handler"} \subseteq interrupted

\* The documentation's word (docs/mcp-adapter.md): an interruption of the
\* wrapper terminates and reaps the child.
InterruptionReaps == pc = "done" /\ interrupted # {} => child # "running"

=============================================================================
