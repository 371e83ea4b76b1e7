------------------------------ MODULE LogStream ------------------------------
(***************************************************************************)
(* Log lines of one operation and the clients that stream them:            *)
(* append_log, _publish, stream_logs and the ways an operation ends, in    *)
(* api/gem_api/services/operations.py and runner.py, and the SSE endpoint  *)
(* of routers/operations.py.                                               *)
(*                                                                         *)
(* A log line is its position in `log`, which holds the line's text; two   *)
(* lines may have the same text (timestamps have a resolution of one       *)
(* second).  The end-of-stream sentinel None is the number 0.  A stream    *)
(* is suspended at a yield or in queue.get(); everything between is one    *)
(* step.                                                                   *)
(*                                                                         *)
(* append_log raises when _get_log_file_path cannot create the log         *)
(* directory: the line is in the buffer by then and is never published.    *)
(* This may happen to any line.                                            *)
(***************************************************************************)
EXTENDS Naturals, Sequences

CONSTANTS
    Clients,       \* SSE connections
    Texts,         \* texts of log lines
    BufferSize,    \* settings.max_log_buffer_lines, the deque's maxlen
    QueueSize,     \* asyncio.Queue(maxsize=100)
    MaxLines       \* bound on the lines the pipeline writes

ASSUME LogConstants ==
    /\ BufferSize \in Nat \ {0}
    /\ QueueSize \in Nat \ {0, 1}
    /\ MaxLines \in Nat

None == 0

VARIABLES
    log,       \* every line of the operation that reached its buffer
    buffer,    \* record.log_buffer
    status,    \* "REGISTERING" (register_operation holds _lock), "ACTIVE", or terminal
    phase,     \* the pipeline: "running", "failing" (on its way to _fail_pipeline),
               \* "absent" (register_operation raised), "ended", or "unannounced"
               \* (ended, but an exception kept the sentinel from being published)
    stream,    \* stream[c]: "off", "history", "drain", "live", "closed", "gone"
    queue,     \* the asyncio.Queue of c, in record.subscribers while c streams
    seen,      \* seen[c]: snapshot of the buffer, then what is left of it to yield
    seenSet,   \* seenSet[c]: the texts of the snapshot
    out,       \* out[c]: lines sent to the client
    dropped,   \* dropped[c]: _publish discarded a line of c's full queue
    unpublished,    \* the lines whose append_log raised (history)
    logsCompletion  \* the pipeline is run_cluster_create (log_completion=True)

vars == <<log, buffer, status, phase, stream, queue, seen, seenSet, out, dropped, unpublished,
          logsCompletion>>
clientVars == <<stream, seen, seenSet, out>>
recordVars == <<log, buffer, status, phase, dropped, unpublished, logsCompletion>>

Streaming == {"history", "drain", "live"}       \* queue is in record.subscribers

-----------------------------------------------------------------------------
(***************************************************************************)
(* Definitions whose comment starts with "Wrong:" are variants of the      *)
(* definition below them with a plausible bug.  No specification uses      *)
(* them; PROJECT.json names the property that each one violates.           *)
(***************************************************************************)

\* Wrong: the newest item is lost instead of the oldest.
PushUnlessFull(d, x, size) == IF Len(d) < size THEN Append(d, x) ELSE d

\* deque(maxlen): appending to a full deque discards its oldest element.
Push(d, x, size) == IF Len(d) < size THEN Append(d, x) ELSE Append(Tail(d), x)

\* _publish: put_nowait, dropping the oldest item of a full queue first, for every
\* subscriber.  Publish(q, x) is one queue after x.
Publish(q, x) == Push(q, x, QueueSize)

Deliver(q) ==
    queue' = [c \in Clients |-> IF stream[c] \in Streaming THEN q[c] ELSE queue[c]]

NoteDrops(count) ==
    dropped' = [c \in Clients |->
                   dropped[c] \/ (stream[c] \in Streaming /\ Len(queue[c]) + count > QueueSize)]

\* The record's share of append_log, once and twice.
Write(text) ==
    /\ log' = Append(log, text)
    /\ buffer' = Push(buffer, Len(log) + 1, BufferSize)

WriteTwo(first, second) ==
    /\ log' = Append(Append(log, first), second)
    /\ buffer' = Push(Push(buffer, Len(log) + 1, BufferSize), Len(log) + 2, BufferSize)

NewLine == Len(log) + 1

-----------------------------------------------------------------------------
Init ==
    /\ log = <<>>
    /\ buffer = <<>>
    /\ status = "REGISTERING"
    /\ phase = "running"
    /\ stream = [c \in Clients |-> "off"]
    /\ queue = [c \in Clients |-> <<>>]
    /\ seen = [c \in Clients |-> <<>>]
    /\ seenSet = [c \in Clients |-> {}]
    /\ out = [c \in Clients |-> <<>>]
    /\ dropped = [c \in Clients |-> FALSE]
    /\ unpublished = {}
    /\ logsCompletion \in BOOLEAN

\* register_operation after its await: the first line is buffered, not published.
Registered(text) ==
    /\ status = "REGISTERING"
    /\ status' = "ACTIVE"
    /\ Write(text)
    /\ UNCHANGED <<phase, queue, dropped, unpublished, clientVars, logsCompletion>>

\* register_operation raises before its await, when nobody has seen the record yet, which
\* stays in the table without a line or a task.
RegisterRaises ==
    /\ status = "REGISTERING"
    /\ \A c \in Clients : stream[c] = "off"
    /\ status' = "ACTIVE"
    /\ phase' = "absent"
    /\ UNCHANGED <<log, buffer, queue, dropped, unpublished, clientVars, logsCompletion>>

Running == status = "ACTIVE" /\ phase = "running"

AppendLog(text) ==
    /\ Running
    /\ Len(log) < MaxLines
    /\ Write(text)
    /\ Deliver([c \in Clients |-> Publish(queue[c], NewLine)])
    /\ NoteDrops(1)
    /\ UNCHANGED <<status, phase, unpublished, clientVars, logsCompletion>>

\* append_log raises, for a line that the pipeline logs outside the try of
\* _execute_command ("> Running", _mock_step); _fail_pipeline is next.
AppendRaises(text) ==
    /\ Running
    /\ Len(log) < MaxLines
    /\ phase' = "failing"
    /\ Write(text)
    /\ unpublished' = unpublished \cup {NewLine}
    /\ UNCHANGED <<status, queue, dropped, clientVars, logsCompletion>>

\* append_log raises for a line of output: the except clause of _execute_command logs the
\* exception, which may raise again or not.
OutputRaises(text, exception) ==
    /\ Running
    /\ Len(log) < MaxLines
    /\ phase' = "failing"
    /\ WriteTwo(text, exception)
    /\ \/ /\ unpublished' = unpublished \cup {NewLine, NewLine + 1}
          /\ UNCHANGED <<queue, dropped>>
       \/ /\ unpublished' = unpublished \cup {NewLine}
          /\ Deliver([c \in Clients |-> Publish(queue[c], NewLine + 1)])
          /\ NoteDrops(1)
    /\ UNCHANGED <<status, clientVars, logsCompletion>>

\* _fail_pipeline; the operation has SUCCEEDED already if the completion line raised.
FailPipeline ==
    /\ status \in {"ACTIVE", "SUCCEEDED"}
    /\ phase \in {"running", "failing"}
    /\ status' = "FAILED"
    /\ phase' = "ended"
    /\ Deliver([c \in Clients |-> Publish(queue[c], None)])
    /\ NoteDrops(1)
    /\ UNCHANGED <<log, buffer, unpublished, clientVars, logsCompletion>>

\* _finalize_pipeline of every pipeline but run_cluster_create.
EndSilently ==
    /\ Running
    /\ ~logsCompletion
    /\ status' = "SUCCEEDED"
    /\ phase' = "ended"
    /\ Deliver([c \in Clients |-> Publish(queue[c], None)])
    /\ NoteDrops(1)
    /\ UNCHANGED <<log, buffer, unpublished, clientVars, logsCompletion>>

\* _finalize_pipeline of run_cluster_create: the completion line follows the sentinel.
EndWithCompletion(text) ==
    /\ Running
    /\ logsCompletion
    /\ status' = "SUCCEEDED"
    /\ phase' = "ended"
    /\ Write(text)
    /\ Deliver([c \in Clients |-> Publish(Publish(queue[c], None), NewLine)])
    /\ NoteDrops(2)
    /\ UNCHANGED <<unpublished, clientVars, logsCompletion>>

\* The same, but append_log raises: run_cluster_create goes on to _fail_pipeline.
CompletionRaises(text) ==
    /\ Running
    /\ logsCompletion
    /\ status' = "SUCCEEDED"
    /\ phase' = "failing"
    /\ Write(text)
    /\ unpublished' = unpublished \cup {NewLine}
    /\ Deliver([c \in Clients |-> Publish(queue[c], None)])
    /\ NoteDrops(1)
    /\ UNCHANGED <<clientVars, logsCompletion>>

\* The status of cancel_operation, and of _finalize_task if there is a task.
LastStatus == IF phase = "absent" THEN {"CANCELLED"} ELSE {"CANCELLED", "FAILED"}

\* cancel_operation and _finalize_task: the last line precedes the sentinel.
EndWithLine(text) ==
    /\ status = "ACTIVE"
    /\ status' \in LastStatus
    /\ phase' = "ended"
    /\ Write(text)
    /\ Deliver([c \in Clients |-> Publish(Publish(queue[c], NewLine), None)])
    /\ NoteDrops(2)
    /\ UNCHANGED <<unpublished, clientVars, logsCompletion>>

\* The same, but append_log raises: the operation has ended and no sentinel is published,
\* now or later.
EndRaises(text) ==
    /\ status = "ACTIVE"
    /\ status' \in LastStatus
    /\ phase' = "unannounced"
    /\ Write(text)
    /\ unpublished' = unpublished \cup {NewLine}
    /\ UNCHANGED <<queue, dropped, clientVars, logsCompletion>>

-----------------------------------------------------------------------------
(***************************************************************************)
(* stream_logs, for one client.                                            *)
(***************************************************************************)
Ended == {"SUCCEEDED", "FAILED", "CANCELLED"}

\* Wrong: the queue is created with the history in it.
ConnectPrefilled(c) ==
    /\ stream[c] = "off"
    /\ stream' = [stream EXCEPT ![c] = "history"]
    /\ seen' = [seen EXCEPT ![c] = buffer]
    /\ seenSet' = [seenSet EXCEPT ![c] = {}]
    /\ queue' = [queue EXCEPT ![c] = buffer]
    /\ UNCHANGED <<recordVars, out>>

Connect(c) ==
    /\ stream[c] = "off"
    /\ stream' = [stream EXCEPT ![c] = "history"]
    /\ seen' = [seen EXCEPT ![c] = buffer]
    /\ seenSet' = [seenSet EXCEPT ![c] = {log[buffer[i]] : i \in 1..Len(buffer)}]
    /\ UNCHANGED <<recordVars, queue, out>>

YieldHistory(c) ==
    /\ stream[c] = "history"
    /\ seen[c] # <<>>
    /\ out' = [out EXCEPT ![c] = Append(@, Head(seen[c]))]
    /\ seen' = [seen EXCEPT ![c] = Tail(@)]
    /\ UNCHANGED <<recordVars, stream, queue, seenSet>>

\* Wrong: the stream of an ended operation closes after the snapshot.
HistoryDoneWithoutDrain(c) ==
    /\ stream[c] = "history"
    /\ seen[c] = <<>>
    /\ stream' = [stream EXCEPT ![c] = IF status \in Ended THEN "closed" ELSE "live"]
    /\ UNCHANGED <<recordVars, queue, seen, seenSet, out>>

\* Wrong: the status is not looked at, the sentinel is relied on.
HistoryDoneWaits(c) ==
    /\ stream[c] = "history"
    /\ seen[c] = <<>>
    /\ stream' = [stream EXCEPT ![c] = "live"]
    /\ UNCHANGED <<recordVars, queue, seen, seenSet, out>>

HistoryDone(c) ==
    /\ stream[c] = "history"
    /\ seen[c] = <<>>
    /\ stream' = [stream EXCEPT ![c] = IF status \in Ended THEN "drain" ELSE "live"]
    /\ UNCHANGED <<recordVars, queue, seen, seenSet, out>>

\* Wrong: the sentinel is sent to the client.
TakeAnything(c, skipped) ==
    /\ queue[c] # <<>>
    /\ queue' = [queue EXCEPT ![c] = Tail(@)]
    /\ out' = [out EXCEPT ![c] = Append(@, Head(queue[c]))]
    /\ UNCHANGED <<recordVars, stream, seen, seenSet>>

\* Take the next item of the queue, and yield it unless it is in skipped.
Take(c, skipped) ==
    /\ queue[c] # <<>>
    /\ LET x == Head(queue[c]) IN
       /\ queue' = [queue EXCEPT ![c] = Tail(@)]
       /\ stream' = IF x = None THEN [stream EXCEPT ![c] = "closed"] ELSE stream
       /\ out' = IF x \in skipped \cup {None} THEN out ELSE [out EXCEPT ![c] = Append(@, x)]
    /\ UNCHANGED <<recordVars, seen, seenSet>>

\* The operation had ended when the history was through: drain, without the lines
\* whose text the snapshot contains.
Drain(c) ==
    /\ stream[c] = "drain"
    /\ Take(c, {n \in 1..Len(log) : log[n] \in seenSet[c]})

DrainDone(c) ==
    /\ stream[c] = "drain"
    /\ queue[c] = <<>>
    /\ stream' = [stream EXCEPT ![c] = "closed"]
    /\ UNCHANGED <<recordVars, queue, seen, seenSet, out>>

Live(c) ==
    /\ stream[c] = "live"
    /\ Take(c, {})

\* The client goes away: the finally clause unsubscribes the queue.
Disconnect(c) ==
    /\ stream[c] \in Streaming
    /\ stream' = [stream EXCEPT ![c] = "gone"]
    /\ UNCHANGED <<recordVars, queue, seen, seenSet, out>>

Read(c) == YieldHistory(c) \/ HistoryDone(c) \/ Drain(c) \/ DrainDone(c) \/ Live(c)

Next ==
    \/ RegisterRaises \/ FailPipeline \/ EndSilently
    \/ \E t \in Texts : \/ Registered(t) \/ AppendLog(t) \/ AppendRaises(t)
                       \/ EndWithCompletion(t) \/ CompletionRaises(t)
                       \/ EndWithLine(t) \/ EndRaises(t)
                       \/ \E e \in Texts : OutputRaises(t, e)
    \/ \E c \in Clients : Connect(c) \/ Read(c) \/ Disconnect(c)

Spec == Init /\ [][Next]_vars

\* A connected client keeps reading, and the event loop resumes its generator.
FairSpec == Spec /\ \A c \in Clients : WF_vars(Read(c))

-----------------------------------------------------------------------------
\* Type correctness.
TypeOK ==
    /\ log \in Seq(Texts)
    /\ buffer \in Seq(Nat \ {None})
    /\ status \in {"REGISTERING", "ACTIVE"} \cup Ended
    /\ phase \in {"absent", "running", "failing", "ended", "unannounced"}
    /\ stream \in [Clients -> {"off", "closed", "gone"} \cup Streaming]
    /\ queue \in [Clients -> Seq(Nat)]
    /\ seen \in [Clients -> Seq(Nat \ {None})]
    /\ seenSet \in [Clients -> SUBSET Texts]
    /\ out \in [Clients -> Seq(Nat \ {None})]
    /\ dropped \in [Clients -> BOOLEAN]
    /\ unpublished \subseteq 1..Len(log)
    /\ logsCompletion \in BOOLEAN

\* A client in queue.get() of an ended operation still has the sentinel to come: neither
\* a full queue nor the completion line or a second sentinel behind it evicts it.  There is
\* no sentinel only if append_log raised on the last line of cancel_operation or
\* _finalize_task.
SentinelKept ==
    \A c \in Clients :
        stream[c] = "live" /\ status \in Ended =>
            \/ \E i \in 1..Len(queue[c]) : queue[c][i] = None
            \/ phase = "unannounced" /\ Len(log) \in unpublished

Increasing(s) == \A i, j \in 1..Len(s) : i < j => s[i] < s[j]

\* A client receives lines in the order they were logged and none twice, across the
\* hand-over from the snapshot to the queue.
InOrder == \A c \in Clients : Increasing(out[c] \o seen[c])

\* Line n should have reached client c, and did not.
Missed(c, n) ==
    /\ out[c] # <<>>
    /\ n \in out[c][1]..Len(log)
    /\ \A i \in 1..Len(out[c]) : out[c][i] # n

\* A stream read to its end by a client that kept up misses at most the completion line
\* of a cluster build, lines whose append_log raised before _publish, and lines whose text
\* was in the snapshot.
LossIsAccounted ==
    \A c \in Clients : \A n \in 1..Len(log) :
        stream[c] = "closed" /\ ~dropped[c] /\ Missed(c, n) =>
            \/ logsCompletion /\ status = "SUCCEEDED" /\ n = Len(log)
            \/ n \in unpublished
            \/ log[n] \in seenSet[c]

\* A stream of an ended operation ends, whenever its client connected and whatever
\* append_log did, except for a client that waits in queue.get() when append_log raises on
\* the last line of cancel_operation or _finalize_task.
StreamEnds ==
    \A c \in Clients :
        (status \in Ended /\ stream[c] \in Streaming) ~>
            (stream[c] \notin Streaming \/ (stream[c] = "live" /\ phase = "unannounced"))

\* A stream of an ended operation ends (docs/gem-api.md: "Stream live output over
\* Server-Sent Events until the operation finishes").
StreamsUntilFinished ==
    \A c \in Clients :
        (status \in Ended /\ stream[c] \in Streaming) ~> stream[c] \notin Streaming
=============================================================================
