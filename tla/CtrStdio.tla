------------------------------- MODULE CtrStdio -------------------------------
(***************************************************************************)
(* The progress reports of a download (src/cmd/ctr, StartDownload of       *)
(* src/daemon).  A client makes named pipes in a directory of its own,     *)
(* opens them, and calls the daemon with the path of one; the daemon opens *)
(* it to write, reports what it does, closes it and answers; the client    *)
(* copies what it reads to the terminal until it exits.                    *)
(*                                                                         *)
(* The download itself is in Daemon; here a request has some reports to    *)
(* write, may end before any of them, or get stuck in its wait for a       *)
(* download that never completes.                                          *)
(***************************************************************************)
EXTENDS Integers

CONSTANTS
    Clients,   \* runs of "ctr start"
    Quiet,     \* those with --quiet
    Remote,    \* those whose daemon is on another machine (--address)
    Reports,   \* bound on the reports of a request
    PipeSize   \* reports that a pipe holds

ASSUME ClientAssumption == Quiet \subseteq Clients /\ Remote \subseteq Clients
ASSUME PipeAssumption == Reports \in Nat /\ PipeSize \in Nat \ {0}

VARIABLES
    client,   \* where the client is
    stdin,    \* whether s.stdin is set
    dir,      \* whether the client's directory exists
    handler,  \* what the daemon does for the client
    left,     \* the reports it has yet to write
    pipe      \* the reports in the pipe

vars == <<client, stdin, dir, handler, left, pipe>>

TypeOK ==
    /\ client \in [Clients -> {"idle", "made", "ready", "calling", "ending",
                               "ended", "killed"}]
    /\ stdin \in [Clients -> BOOLEAN]
    /\ dir \in [Clients -> BOOLEAN]
    /\ handler \in [Clients -> {"none", "opening", "open", "stuck", "answered",
                                "lost"}]
    /\ left \in [Clients -> 0 .. Reports]
    /\ pipe \in [Clients -> 0 .. PipeSize]

Init ==
    /\ client = [c \in Clients |-> "idle"]
    /\ stdin = [c \in Clients |-> FALSE]
    /\ dir = [c \in Clients |-> FALSE]
    /\ handler = [c \in Clients |-> "none"]
    /\ left = [c \in Clients |-> 0]
    /\ pipe = [c \in Clients |-> 0]

\* The client has the pipe open until its process is gone.
Reads(c) == c \notin Quiet /\ client[c] \in {"ready", "calling", "ending"}

Goto(c, place) == client' = [client EXCEPT ![c] = place]
-----------------------------------------------------------------------------
(* The client *)

createStdio(c) ==
    /\ client[c] = "idle"
    /\ Goto(c, "made")
    /\ stdin' = [stdin EXCEPT ![c] = TRUE]
    /\ dir' = [dir EXCEPT ![c] = TRUE]
    /\ UNCHANGED <<handler, left, pipe>>

\* TempDir or one of three Mkfifo fails, in the random order of a map.
createStdioFails(c) ==
    /\ client[c] = "idle"
    /\ Goto(c, "ending")
    /\ dir' \in {dir, [dir EXCEPT ![c] = TRUE]}
    /\ stdin' \in {stdin, [stdin EXCEPT ![c] = dir'[c]]}
    /\ UNCHANGED <<handler, left, pipe>>

\* Opened for reading and writing, a pipe does not wait for its other end.
attachReadOnly(c) ==  \* mutant: opened for reading it does
    /\ client[c] = "made"
    /\ c \in Quiet \/ handler[c] = "opening"
    /\ Goto(c, "ready")
    /\ UNCHANGED <<stdin, dir, handler, left, pipe>>
attachStdio(c) ==
    /\ client[c] = "made"
    /\ Goto(c, "ready")
    /\ UNCHANGED <<stdin, dir, handler, left, pipe>>

StartDownload(c) ==
    /\ client[c] = "ready"
    /\ Goto(c, "calling")
    /\ handler' = [handler EXCEPT ![c] = "opening"]
    /\ left' = [left EXCEPT ![c] = Reports]
    /\ UNCHANGED <<stdin, dir, pipe>>

\* A pipe cannot be opened, or the daemon not be reached.
fatal(c) ==
    /\ client[c] \in {"made", "ready"}
    /\ Goto(c, "ending")
    /\ UNCHANGED <<stdin, dir, handler, left, pipe>>

\* The call returns; it has no deadline.
ReturnEarly(c) ==  \* mutant: the connection's timeout ends a call
    /\ client[c] = "calling"
    /\ Goto(c, "ending")
    /\ UNCHANGED <<stdin, dir, handler, left, pipe>>
Return(c) ==
    /\ client[c] = "calling"
    /\ handler[c] \in {"answered", "lost"}
    /\ Goto(c, "ending")
    /\ UNCHANGED <<stdin, dir, handler, left, pipe>>

\* fatal panics, so the deferred removal runs whatever went wrong.
Exit(c) ==
    /\ client[c] = "ending"
    /\ Goto(c, "ended")
    /\ dir' = [dir EXCEPT ![c] = @ /\ ~stdin[c]]
    /\ UNCHANGED <<stdin, handler, left, pipe>>

\* The client catches no signal: an interrupt runs nothing deferred.
Kill(c) ==
    /\ client[c] \in {"made", "ready", "calling", "ending"}
    /\ Goto(c, "killed")
    /\ UNCHANGED <<stdin, dir, handler, left, pipe>>

\* The goroutine that copies the pipe to the terminal.
Copy(c) ==
    /\ Reads(c)
    /\ pipe[c] > 0
    /\ pipe' = [pipe EXCEPT ![c] = @ - 1]
    /\ UNCHANGED <<client, stdin, dir, handler, left>>
-----------------------------------------------------------------------------
(* The daemon *)

\* Opened for writing, a pipe waits for a reader.
Open(c) ==
    /\ handler[c] = "opening"
    /\ c \notin Remote /\ dir[c] /\ Reads(c)
    /\ handler' = [handler EXCEPT ![c] = "open"]
    /\ UNCHANGED <<client, stdin, dir, left, pipe>>

\* There is no such path.
OpenFails(c) ==
    /\ handler[c] = "opening"
    /\ c \in Remote \/ ~dir[c]
    /\ handler' = [handler EXCEPT ![c] = "answered"]
    /\ UNCHANGED <<client, stdin, dir, left, pipe>>

\* The reports of a request are bounded, but while it is stuck.
TakeReport(c) ==
    \/ handler[c] = "open" /\ left[c] > 0 /\ left' = [left EXCEPT ![c] = @ - 1]
    \/ handler[c] = "stuck" /\ UNCHANGED left

\* A write waits for room; without a reader it fails, which nobody looks at.
ReportAlways(c) ==  \* mutant: the daemon has the pipe open to read, too
    /\ TakeReport(c)
    /\ pipe[c] < PipeSize
    /\ pipe' = [pipe EXCEPT ![c] = @ + 1]
    /\ UNCHANGED <<client, stdin, dir, handler>>
writeReport(c) ==
    /\ TakeReport(c)
    /\ \/ Reads(c) /\ pipe[c] < PipeSize /\ pipe' = [pipe EXCEPT ![c] = @ + 1]
       \/ ~Reads(c) /\ UNCHANGED pipe
    /\ UNCHANGED <<client, stdin, dir, handler>>

\* waitComplete polls a torrent that never completes, being dropped or with all
\* its peers banned (WaiterReturns of BtEngine): nothing ends the request.
PollForEver(c) ==
    /\ handler[c] = "open"
    /\ handler' = [handler EXCEPT ![c] = "stuck"]
    /\ UNCHANGED <<client, stdin, dir, left, pipe>>

\* The request ends, at its end or with an error: close the pipe and answer.
Answer(c) ==
    /\ handler[c] = "open"
    /\ handler' = [handler EXCEPT ![c] = "answered"]
    /\ UNCHANGED <<client, stdin, dir, left, pipe>>

\* The daemon dies and is started again.
Crash ==
    /\ handler' = [c \in Clients |->
                     IF handler[c] \in {"opening", "open", "stuck"} THEN "lost"
                     ELSE handler[c]]
    /\ handler' # handler
    /\ UNCHANGED <<client, stdin, dir, left, pipe>>
-----------------------------------------------------------------------------

Client(c) ==
    \/ createStdio(c) \/ attachStdio(c)
    \/ StartDownload(c) \/ Return(c) \/ Exit(c)

Failure(c) == createStdioFails(c) \/ fatal(c) \/ Kill(c)

Handle(c) == Open(c) \/ OpenFails(c) \/ writeReport(c)

Next ==
    \/ \E c \in Clients :
         \/ Client(c) \/ Failure(c) \/ Copy(c)
         \/ Handle(c) \/ Answer(c) \/ PollForEver(c)
    \/ Crash

Spec == Init /\ [][Next]_vars

\* Processes run.  A request that is not stuck ends once its reports are written:
\* none of its other steps waits for anything that does not come or fail.
Fairness ==
    \A c \in Clients :
        /\ WF_vars(Client(c)) /\ WF_vars(Copy(c)) /\ WF_vars(Handle(c))
        /\ WF_vars(left[c] = 0 /\ Answer(c))

FairSpec == Spec /\ Fairness
-----------------------------------------------------------------------------
(* Safety *)

\* A handler that waits for the pipe's other end has one to wait for, unless
\* the client is quiet or killed: the client is still there and the directory
\* has not been removed under the handler's feet.
OpenHasReader ==
    \A c \in Clients \ (Quiet \cup Remote) :
        handler[c] = "opening" =>
            (dir[c] /\ Reads(c)) \/ client[c] = "killed"

\* The client shows what a download reports, down to its last line
\* (src/README.md:32-41): no report is in the pipe when the client is gone.
ReportsAreShown ==
    \A c \in Clients :
        client[c] = "ended" /\ handler[c] = "answered" => pipe[c] = 0

-----------------------------------------------------------------------------
(* Liveness *)

Gone(c) == client[c] \in {"ended", "killed"}

\* A client that attaches gets its answer, though both sides wait for one
\* another at the pipe, which may be full, and though the daemon may die; only
\* a wait for a download that never completes has no answer.
StartReturns ==
    \A c \in Clients \ Quiet :
        client[c] = "made" ~> Gone(c) \/ handler[c] = "stuck"

\* A request that has its pipe open goes on to its end, also when the client is
\* killed with reports still to come, unless its download never completes.
RequestEnds ==
    \A c \in Clients :
        handler[c] = "open" ~> handler[c] \in {"answered", "lost", "stuck"}

\* A quiet client, "not attach stdio" (src/cmd/ctr/main.go:102), gets its
\* answer as well.
QuietReturns == \A c \in Quiet : client[c] = "calling" ~> Gone(c)
=============================================================================
