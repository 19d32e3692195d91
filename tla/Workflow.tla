------------------------------ MODULE Workflow ------------------------------
(***************************************************************************)
(* The runs of one network over time: jobs of the apply workflow, one at a *)
(* time and one waiting, each on the file of its ref and the secret of its *)
(* start; and runs from a host, which the queue does not know of.          *)
(* What a run converges is two halves of the chain's content, so that a    *)
(* run can be cut or overtaken in between; the other modules have what is  *)
(* inside.                                                                 *)
(***************************************************************************)
EXTENDS Invocation, Sequences

CONSTANTS
  Files,      \* the versions of the network file, as they are committed
  Job,        \* the dispatches, in their order
  Host        \* the runs from a host

ASSUME WorkflowConstants ==
  /\ Files \in Seq(File) /\ Files # <<>>
  /\ Job \subseteq Nat
  /\ Host \cap Job = {}

VARIABLES
  head,     \* the version committed last
  secret,   \* the environment's RPC_URL, None when unset
  run,      \* run[r]: where each job and each host run is, and what it has
  content,  \* content[c]: the versions the halves of chain c were set from
  late      \* the transaction a killed run left behind

vars == <<head, secret, run, content, late>>

Runs    == Job \cup Host
Flag    == Url \cup {Garbage, None}
Version == 1 .. Len(Files)
Halves  == {"first", "second"}
Content == [Halves -> 0 .. Len(Files)]
Write   == [chain : Chain, half : Halves, by : Version]
Ended   == {"none", "done", "stopped"}

\* Fault: only a job that applies holds the queue.
BusyApplying == {"connect", "first", "second"}

\* The locations of a job that holds the queue.
Busy == {"plan", "connect", "first", "second"}

\* A job or a run from a host: the version it works on, what its calls of
\* libid-deploy are given, and what its plan read, until the chain is
\* changed from outside the queue.
Record == [pc      : Ended \cup Busy \cup {"waiting", "prompt"},
           version : Version,
           mode    : {"plan", "apply"},
           flag    : Flag,
           signer  : Signer \cup {None},
           planned : Content \cup {None}]

\* One that has not begun, or is over.
Idle(l) == [pc |-> l, version |-> 1, mode |-> "apply", flag |-> None,
            signer |-> None, planned |-> None]

TypeOK ==
  /\ head \in Version
  /\ secret \in Flag
  /\ run \in [Runs -> Record]
  /\ content \in [Chain -> Content]
  /\ late \in Write \cup {None}

Init ==
  /\ head = 1
  /\ secret \in Flag
  /\ run = [r \in Runs |-> Idle("none")]
  /\ content = [c \in Chain |-> [h \in Halves |-> 0]]
  /\ late = None

Is(r, l)  == run[r].pc = l
FileOf(r)  == Files[run[r].version]
ChainOf(r) == FileOf(r).chain_id

Goto(r, l) == run' = [run EXCEPT ![r] = IF l \in Ended THEN Idle(l) ELSE [@ EXCEPT !.pc = l]]

\* The chain is changed behind the back of every plan.
Overtaken(f) == [r \in Runs |-> [f[r] EXCEPT !.planned = None]]
-----------------------------------------------------------------------------
(* The repository and its environment.                                     *)

Commit ==
  /\ head < Len(Files) /\ head' = head + 1
  /\ UNCHANGED <<secret, run, content, late>>

\* A dispatch on any ref, or the re-run of an older job, which keeps its
\* commit: any version there is.  It takes the place of the one that waits.
Dispatch(j) ==
  /\ Is(j, "none") /\ \A i \in Job : i < j => ~Is(i, "none")
  /\ \E m \in {"plan", "apply"}, v \in 1 .. head :
       run' = [r \in Runs |->
                 CASE r = j             -> [run[j] EXCEPT !.pc = "waiting", !.mode = m,
                                                          !.version = v]
                   [] Is(r, "waiting") -> Idle("stopped")
                   [] OTHER             -> run[r]]
  /\ UNCHANGED <<head, secret, content, late>>
-----------------------------------------------------------------------------
(* A job.                                                                  *)

Elsewhere == UNCHANGED <<head, secret, content, late>>

\* Fault: the jobs of a network do not wait for each other.
StartBeside(j) ==
  /\ Is(j, "waiting")
  /\ run' = [run EXCEPT ![j].pc = "plan", ![j].flag = secret]
  /\ Elsewhere

\* concurrency: one job of a network at a time, none cancelled on its way.
Start(j) ==
  /\ Is(j, "waiting") /\ \A i \in Job : run[i].pc \notin Busy
  /\ run' = [run EXCEPT ![j].pc = "plan", ![j].flag = secret]
  /\ Elsewhere

\* "Verify KMS signing identity": the role may sign with the file's key.
Identity(f) == Shape[f.kms] = "other" /\ SignsAs[f.kms] # None

\* The steps before the binary: "Load network config", for which an unset
\* secret is an empty one, the identity, and its balance at the endpoint.
Preflight(f, flag) ==
  /\ flag # None
  /\ Identity(f)
  /\ At[flag] # None

\* Those, and "Plan", always: validate, then plan.
PlanStep(j) ==
  /\ Is(j, "plan")
  /\ LET f == FileOf(j)
         u == run[j].flag
         ok == Preflight(f, u) /\ Validates(f, u) /\ Plans(f, u)
     IN CASE ~ok                      -> Goto(j, "stopped")
          [] ok /\ run[j].mode = "plan" -> Goto(j, "done")
          [] OTHER -> run' = [run EXCEPT ![j].pc = "connect",
                                         ![j].planned = content[Reached(f, u)]]
  /\ Elsewhere

\* "Apply", only when asked: main, with --yes, and connect.
Connect(j) ==
  /\ Is(j, "connect")
  /\ Goto(j, IF /\ Asks(FileOf(j), run[j].flag, None)
                /\ Connects(FileOf(j), run[j].flag, None)
             THEN "first" ELSE "stopped")
  /\ Elsewhere

\* Fault: a job that sends is never cut.
TimeoutSpares(j) ==
  /\ run[j].pc \in Busy \ Halves
  /\ Goto(j, "stopped")
  /\ Elsewhere

\* Fault: a job that is cut leaves a call behind also before it sends any.
TimeoutAnywhere(j) ==
  /\ run[j].pc \in Busy
  /\ Goto(j, "stopped")
  /\ late = None
  /\ late' = [chain |-> ChainOf(j), half |-> run[j].pc, by |-> run[j].version]
  /\ UNCHANGED <<head, secret, content>>

\* timeout-minutes, wherever the job is; what it has sent may come later.
Timeout(j) ==
  /\ run[j].pc \in Busy
  /\ Goto(j, "stopped")
  /\ \/ UNCHANGED late
     \/ /\ run[j].pc \in Halves /\ late = None
        /\ late' = [chain |-> ChainOf(j), half |-> run[j].pc, by |-> run[j].version]
  /\ UNCHANGED <<head, secret, content>>

Land ==
  /\ late # None /\ late' = None
  /\ content' = [content EXCEPT ![late.chain][late.half] = late.by]
  /\ run' = Overtaken(run)
  /\ UNCHANGED <<head, secret>>
-----------------------------------------------------------------------------
(* A run from a host, and what both kinds do to the chain.                 *)

\* main: any version checked out there, any flag, any signer.
Invoke(h) ==
  /\ Is(h, "none")
  /\ \E v \in 1 .. head, u \in Flag, s \in Signer \cup {None} :
       IF Asks(Files[v], u, s)
       THEN run' = [run EXCEPT ![h] = [@ EXCEPT !.pc = "prompt", !.version = v,
                                                !.flag = u, !.signer = s]]
       ELSE Goto(h, "stopped")
  /\ Elsewhere

\* The prompt, which only "yes" passes, and connect.
Confirm(h) ==
  /\ Is(h, "prompt")
  /\ \E yes \in BOOLEAN :
       Goto(h, IF yes /\ Connects(FileOf(h), run[h].flag, run[h].signer)
               THEN "first" ELSE "stopped")
  /\ Elsewhere

\* A run sets one half of its chain, then the other.
Converge(r) ==
  /\ run[r].pc \in Halves
  /\ content' = [content EXCEPT ![ChainOf(r)][run[r].pc] = run[r].version]
  /\ LET next == IF Is(r, "first") THEN [run[r] EXCEPT !.pc = "second"] ELSE Idle("done")
         on   == [run EXCEPT ![r] = next]
     IN run' = IF r \in Host THEN Overtaken(on) ELSE on
  /\ UNCHANGED <<head, secret, late>>

\* A run from a host is interrupted.
Interrupt(h) ==
  /\ run[h].pc \in Halves
  /\ Goto(h, "stopped")
  /\ Elsewhere

Next ==
  \/ Commit \/ Land
  \/ \E j \in Job : \/ Dispatch(j) \/ Start(j) \/ PlanStep(j) \/ Connect(j) \/ Timeout(j)
  \/ \E h \in Host : Invoke(h) \/ Confirm(h) \/ Interrupt(h)
  \/ \E r \in Runs : Converge(r)

\* The runner starts what waits when it may, and ends what takes too long.
Spec ==
  /\ Init /\ [][Next]_vars
  /\ \A j \in Job : WF_vars(Start(j)) /\ WF_vars(Timeout(j))
-----------------------------------------------------------------------------
\* Whatever mix of flag, secret, file and signer a run is given, it sends
\* only to the chain its file declares, found at the endpoint it was told
\* to use, and with the key its addresses were predicted from.
RightChain ==
  \A r \in Runs : run[r].pc \in Halves =>
    /\ (IF run[r].flag # None THEN run[r].flag ELSE FileOf(r).rpc_url)
         \in {u \in Url : At[u] = ChainOf(r)}
    /\ SignsAs[IF run[r].signer # None THEN run[r].signer ELSE FileOf(r).kms]
         = FileOf(r).table

\* A job that starts to send finds the chain as the plan in its summary
\* read it, unless a run from a host, or the last call of a killed one, came
\* from outside the queue.
PlanStaysTrue ==
  \A j \in Job : Is(j, "first") => run[j].planned \in {None, content[ChainOf(j)]}

\* A job that ends well leaves the chain at its own file as a whole, also
\* behind jobs that were killed between the halves of another one.
DoneMeansItsFile ==
  [][\A j \in Job : Is(j, "second") /\ run'[j].pc = "done" /\ run[j].planned # None =>
       content'[ChainOf(j)] = [h \in Halves |-> run[j].version]]_vars

\* Every dispatch comes to an end, also behind a job that hangs in a call
\* nobody answers: the queue never stops.
EveryDispatchEnds == \A j \in Job : Is(j, "waiting") ~> run[j].pc \in Ended
=============================================================================
