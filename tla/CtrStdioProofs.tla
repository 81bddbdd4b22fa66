---------------------------- MODULE CtrStdioProofs ----------------------------
(***************************************************************************)
(* Proofs about the pipes between clients and daemon, for any number of    *)
(* clients and reports and pipes of any size.                              *)
(***************************************************************************)
EXTENDS CtrStdio, TLAPS

\* A daemon that opens a pipe does it for a client that waits for the answer,
\* and that client still has its directory.
CallIsBacked ==
    \A c \in Clients :
        /\ client[c] \in {"made", "ready", "calling"} => dir[c]
        /\ client[c] \in {"idle", "made", "ready"} => handler[c] = "none"
        /\ handler[c] = "opening" => client[c] \in {"calling", "killed"}

IInv == TypeOK /\ CallIsBacked

LEMMA TypeStep == TypeOK /\ [Next]_vars => TypeOK'
<1> SUFFICES ASSUME TypeOK, [Next]_vars PROVE TypeOK'
  OBVIOUS
<1> USE DEF TypeOK
<1>1. ASSUME NEW c \in Clients, Client(c) \/ Failure(c) PROVE TypeOK'
  <2>1. CASE createStdio(c)
    BY <2>1 DEF createStdio, Goto
  <2>5. CASE attachStdio(c) \/ Return(c)
    BY <2>5 DEF attachStdio, Return, Goto
  <2>6. CASE StartDownload(c)
    <3>1. Reports \in 0 .. Reports
      BY PipeAssumption
    <3>. QED
      BY <2>6, <3>1 DEF StartDownload, Goto
  <2>2. CASE Exit(c)
    <3>1. dir' \in [Clients -> BOOLEAN]
      BY <2>2 DEF Exit
    <3>2. client' \in [Clients -> {"idle", "made", "ready", "calling", "ending",
                                  "ended", "killed"}]
      BY <2>2 DEF Exit, Goto
    <3>. QED
      BY <2>2, <3>1, <3>2 DEF Exit
  <2>3. CASE createStdioFails(c)
    <3>1. dir' \in [Clients -> BOOLEAN]
      BY <2>3 DEF createStdioFails
    <3>2. stdin' \in [Clients -> BOOLEAN]
      BY <2>3, <3>1 DEF createStdioFails
    <3>3. client' \in [Clients -> {"idle", "made", "ready", "calling", "ending",
                                  "ended", "killed"}]
      BY <2>3 DEF createStdioFails, Goto
    <3>. QED
      BY <2>3, <3>1, <3>2, <3>3 DEF createStdioFails
  <2>4. CASE fatal(c) \/ Kill(c)
    BY <2>4 DEF fatal, Kill, Goto
  <2>. QED
    BY <1>1, <2>1, <2>2, <2>3, <2>4, <2>5, <2>6 DEF Client, Failure
<1>2. ASSUME NEW c \in Clients, Copy(c) \/ Handle(c) \/ Answer(c) \/ PollForEver(c) PROVE TypeOK'
  BY <1>2, PipeAssumption DEF Copy, Handle, Open, OpenFails, writeReport, TakeReport,
                                  Answer, PollForEver
<1>3. CASE Crash \/ UNCHANGED vars
  BY <1>3 DEF Crash, vars
<1>. QED
  BY <1>1, <1>2, <1>3 DEF Next

LEMMA CallStep == IInv /\ [Next]_vars => CallIsBacked'
<1> SUFFICES ASSUME IInv, [Next]_vars PROVE CallIsBacked'
  OBVIOUS
<1> USE DEF IInv, TypeOK, CallIsBacked
<1>1. ASSUME NEW c \in Clients, Client(c) PROVE CallIsBacked'
  <2>1. CASE createStdio(c)
    BY <2>1 DEF createStdio, Goto
  <2>2. CASE attachStdio(c) \/ StartDownload(c)
    BY <2>2 DEF attachStdio, StartDownload, Goto
  <2>3. CASE Return(c) \/ Exit(c)
    BY <2>3 DEF Return, Exit, Goto
  <2>. QED
    BY <1>1, <2>1, <2>2, <2>3 DEF Client
<1>2. ASSUME NEW c \in Clients, Failure(c) PROVE CallIsBacked'
  <2>1. CASE createStdioFails(c)
    BY <2>1 DEF createStdioFails, Goto
  <2>2. CASE fatal(c) \/ Kill(c)
    BY <2>2 DEF fatal, Kill, Goto
  <2>. QED
    BY <1>2, <2>1, <2>2 DEF Failure
<1>3. ASSUME NEW c \in Clients, Copy(c) \/ Handle(c) \/ Answer(c) \/ PollForEver(c)
      PROVE  CallIsBacked'
  BY <1>3 DEF Copy, Handle, Open, OpenFails, writeReport, TakeReport,
                                  Answer, PollForEver
<1>4. CASE Crash \/ UNCHANGED vars
  BY <1>4 DEF Crash, vars
<1>. QED
  BY <1>1, <1>2, <1>3, <1>4 DEF Next

\* A pipe never holds more than fits, a request never writes more than it has,
\* and client and handler are at one of their steps.
THEOREM TypeCorrect == Spec => []TypeOK
<1>1. Init => TypeOK
  BY PipeAssumption DEF Init, TypeOK
<1>. QED
  BY <1>1, TypeStep, PTL DEF Spec

\* The strengthened invariant: every call of a daemon has its client behind it.
THEOREM CallInvariant == Spec => []IInv
<1>1. Init => IInv
  BY PipeAssumption DEF Init, IInv, TypeOK, CallIsBacked
<1>2. IInv /\ [Next]_vars => IInv'
  BY TypeStep, CallStep DEF IInv
<1>. QED
  BY <1>1, <1>2, PTL DEF Spec

\* A handler that waits to open a pipe waits for a client that reads it, unless
\* the client is quiet, remote or killed.
THEOREM OpenIsAwaited == Spec => []OpenHasReader
<1>1. IInv => OpenHasReader
  BY ClientAssumption DEF IInv, TypeOK, CallIsBacked, OpenHasReader, Reads
<1>. QED
  BY <1>1, CallInvariant, PTL
===============================================================================
