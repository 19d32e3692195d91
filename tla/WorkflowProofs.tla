--------------------------- MODULE WorkflowProofs ---------------------------
(***************************************************************************)
(* Whatever files, flags, secrets and keys there are, and however many     *)
(* jobs and host runs: what is sent goes to the right chain.               *)
(***************************************************************************)
EXTENDS Workflow, TLAPS

\* A job has no signer of its own; what waits at the prompt has been asked
\* about, what sends has connected.
Given(l, r) == r \in Job => l.signer = None

Checked(l) ==
  /\ l.pc = "prompt" \/ l.pc \in Halves => Asks(Files[l.version], l.flag, l.signer)
  /\ l.pc \in Halves => Connects(Files[l.version], l.flag, l.signer)

Typed(l) == l.pc \in Ended \cup Busy \cup {"waiting", "prompt"} /\ l.version \in Version

RunOK(l, r) == Typed(l) /\ Given(l, r) /\ Checked(l)

IInv == /\ DOMAIN run = Runs
        /\ head \in Version
        /\ \A r \in Runs : RunOK(run[r], r)

\* A call that has asked and connected is at the chain its file declares,
\* with the key the file was predicted from.
LEMMA Reaches ==
  ASSUME NEW f \in File, NEW flag, NEW signer,
         Asks(f, flag, signer), Connects(f, flag, signer)
  PROVE  /\ (IF flag # None THEN flag ELSE f.rpc_url) \in {u \in Url : At[u] = f.chain_id}
         /\ SignsAs[IF signer # None THEN signer ELSE f.kms] = f.table
<1> DEFINE named == IF flag # None THEN flag ELSE f.rpc_url
<1>1. Named(f, flag) # Error /\ Named(f, flag) # None
  BY DEF Asks, Resolve
<1>2. Named(f, flag) = named /\ named \in Url
  BY <1>1 DEF Named, Parses
<1>3. Resolve(f, flag) = named
  BY <1>1, <1>2 DEF Resolve
<1>4. At[named] = f.chain_id
  BY <1>3 DEF Asks, Connects, Reached
<1>5. SignsAs[SpecOf(f, signer)] = f.table
  BY DEF Asks, Connects, Wallet, Valid, Predicted
<1>6. QED BY <1>2, <1>4, <1>5 DEF SpecOf

\* Going on keeps what a run was given; where it ends, it forgets it.
LEMMA GoesOn ==
  ASSUME IInv, NEW r \in Runs, NEW l \in Ended \cup Busy \cup {"waiting", "prompt"},
         Goto(r, l), UNCHANGED head,
         l \notin Ended => Checked([run[r] EXCEPT !.pc = l])
  PROVE  IInv'
<1> DEFINE next == IF l \in Ended THEN Idle(l) ELSE [run[r] EXCEPT !.pc = l]
<1>1. run' = [run EXCEPT ![r] = next]
  BY DEF Goto
<1>2. RunOK(next, r)
  BY WorkflowConstants DEF IInv, RunOK, Typed, Given, Checked, Idle, Version, Ended, Halves
<1>3. QED BY <1>1, <1>2 DEF IInv, RunOK, Typed, Given, Checked, Version, Runs

\* The runs but r stay, and r ends up as it may be.
LEMMA Replaces ==
  ASSUME IInv, NEW r \in Runs, NEW l, run' = [run EXCEPT ![r] = l],
         RunOK(l, r), UNCHANGED head
  PROVE  IInv'
BY DEF IInv, RunOK, Typed, Given, Checked, Version, Runs

\* Forgetting what a plan read changes nothing else.
LEMMA Forgets ==
  ASSUME NEW r, NEW l, RunOK(l, r)
  PROVE  RunOK([l EXCEPT !.planned = None], r)
BY DEF RunOK, Typed, Given, Checked

\* It holds before anyone has run.
LEMMA Starts == Init => IInv
BY WorkflowConstants DEF Init, IInv, RunOK, Typed, Given, Checked, Idle, Version, Ended,
                         Busy, Halves

\* Every step of Next keeps it, one case per action.
LEMMA Invariance == IInv /\ [Next]_vars => IInv'
<1> SUFFICES ASSUME IInv, [Next]_vars PROVE IInv'
  OBVIOUS
<1>1. CASE Commit
  BY <1>1, WorkflowConstants DEF Commit, IInv, RunOK, Typed, Given, Checked, Version
<1>2. CASE Land
  BY <1>2 DEF Land, Overtaken, IInv, RunOK, Typed, Given, Checked, Version, Runs
<1>3. ASSUME NEW j \in Job, Dispatch(j) PROVE IInv'
  <2>1. PICK m \in {"plan", "apply"}, v \in 1 .. head :
          run' = [r \in Runs |->
                    CASE r = j            -> [run[j] EXCEPT !.pc = "waiting", !.mode = m,
                                                            !.version = v]
                      [] Is(r, "waiting") -> Idle("stopped")
                      [] OTHER            -> run[r]]
    BY <1>3 DEF Dispatch
  <2>2. RunOK([run[j] EXCEPT !.pc = "waiting", !.mode = m, !.version = v], j)
    <3>1. v \in Version
      BY WorkflowConstants DEF IInv, Version
    <3>2. QED BY <3>1 DEF IInv, RunOK, Typed, Given, Checked, Runs, Halves
  <2>3. \A r \in Runs : RunOK(Idle("stopped"), r)
    BY WorkflowConstants DEF RunOK, Typed, Given, Checked, Idle, Version, Ended, Halves
  <2>4. \A r \in Runs : RunOK(run'[r], r)
    BY <2>1, <2>2, <2>3 DEF IInv
  <2>5. QED
    BY <1>3, <2>1, <2>4 DEF Dispatch, IInv, RunOK, Typed, Given, Checked, Version
<1>4. ASSUME NEW j \in Job, Start(j) PROVE IInv'
  <2> DEFINE next == [[run[j] EXCEPT !.pc = "plan"] EXCEPT !.flag = secret]
  <2>1. run' = [run EXCEPT ![j] = next]
    BY <1>4 DEF Start, IInv, Runs
  <2>2. RunOK(next, j)
    BY DEF IInv, RunOK, Typed, Given, Checked, Runs, Halves, Busy
  <2>3. QED BY <1>4, <2>1, <2>2, Replaces DEF Start, Elsewhere, Runs
<1>5. ASSUME NEW j \in Job, PlanStep(j) PROVE IInv'
  <2> DEFINE f == FileOf(j)
             u == run[j].flag
             next == [[run[j] EXCEPT !.pc = "connect"]
                        EXCEPT !.planned = content[Reached(f, u)]]
  <2>1. CASE Goto(j, "stopped")
    BY <1>5, <2>1, GoesOn DEF PlanStep, Elsewhere, Ended, Runs
  <2>2. CASE Goto(j, "done")
    BY <1>5, <2>2, GoesOn DEF PlanStep, Elsewhere, Ended, Runs
  <2>3. CASE run' = [run EXCEPT ![j].pc = "connect", ![j].planned = content[Reached(f, u)]]
    <3>1. run' = [run EXCEPT ![j] = next]
      BY <2>3 DEF IInv, Runs
    <3>2. RunOK(next, j)
      BY DEF IInv, RunOK, Typed, Given, Checked, Runs, Halves, Busy
    <3>3. QED BY <1>5, <3>1, <3>2, Replaces DEF PlanStep, Elsewhere, Runs
  <2>4. QED BY <1>5, <2>1, <2>2, <2>3 DEF PlanStep
<1>6. ASSUME NEW j \in Job, Connect(j) PROVE IInv'
  <2>1. run[j].signer = None
    BY DEF IInv, RunOK, Given, Runs
  <2>2. CASE /\ Asks(FileOf(j), run[j].flag, None)
             /\ Connects(FileOf(j), run[j].flag, None)
    <3>1. Checked([run[j] EXCEPT !.pc = "first"])
      BY <2>1, <2>2 DEF Checked, FileOf, IInv, RunOK, Typed, Runs
    <3>2. QED BY <1>6, <2>2, <3>1, GoesOn DEF Connect, Elsewhere, Busy, Runs
  <2>3. CASE Goto(j, "stopped")
    BY <1>6, <2>3, GoesOn DEF Connect, Elsewhere, Ended, Runs
  <2>4. QED BY <1>6, <2>2, <2>3 DEF Connect
<1>7. ASSUME NEW j \in Job, Timeout(j) PROVE IInv'
  BY <1>7, GoesOn DEF Timeout, Ended, Runs
<1>8. ASSUME NEW h \in Host, Invoke(h) PROVE IInv'
  <2>1. PICK v \in 1 .. head, u \in Flag, s \in Signer \cup {None} :
          IF Asks(Files[v], u, s)
          THEN run' = [run EXCEPT ![h] = [@ EXCEPT !.pc = "prompt", !.version = v,
                                                   !.flag = u, !.signer = s]]
          ELSE Goto(h, "stopped")
    BY <1>8 DEF Invoke
  <2>2. CASE Asks(Files[v], u, s)
    <3> DEFINE next == [run[h] EXCEPT !.pc = "prompt", !.version = v,
                                      !.flag = u, !.signer = s]
    <3>1. RunOK(next, h)
      BY <2>2, WorkflowConstants DEF IInv, RunOK, Typed, Given, Checked, Version, Runs, Halves
    <3>2. QED BY <1>8, <2>1, <2>2, <3>1, Replaces DEF Invoke, Elsewhere, Runs, IInv
  <2>3. CASE ~Asks(Files[v], u, s)
    BY <1>8, <2>1, <2>3, GoesOn DEF Invoke, Elsewhere, Ended, Runs
  <2>4. QED BY <2>2, <2>3
<1>9. ASSUME NEW h \in Host, Confirm(h) PROVE IInv'
  <2>1. CASE Goto(h, "stopped")
    BY <1>9, <2>1, GoesOn DEF Confirm, Elsewhere, Ended, Runs
  <2>2. CASE Goto(h, "first") /\ Connects(FileOf(h), run[h].flag, run[h].signer)
    <3>1. Checked([run[h] EXCEPT !.pc = "first"])
      BY <1>9, <2>2 DEF Confirm, Is, Checked, FileOf, IInv, RunOK, Typed, Runs
    <3>2. QED BY <1>9, <2>2, <3>1, GoesOn DEF Confirm, Elsewhere, Busy, Runs
  <2>3. QED BY <1>9, <2>1, <2>2 DEF Confirm
<1>10. ASSUME NEW h \in Host, Interrupt(h) PROVE IInv'
  BY <1>10, GoesOn DEF Interrupt, Elsewhere, Ended, Runs
<1>11. ASSUME NEW r \in Runs, Converge(r) PROVE IInv'
  <2> DEFINE next == IF Is(r, "first") THEN [run[r] EXCEPT !.pc = "second"] ELSE Idle("done")
             on   == [run EXCEPT ![r] = next]
  <2>1. RunOK(next, r)
    BY <1>11, WorkflowConstants DEF Converge, Is, IInv, RunOK, Typed, Given, Checked, Idle,
                                    Version, Ended, Busy, Halves
  <2>2. \A q \in Runs : RunOK(on[q], q)
    BY <2>1 DEF IInv
  <2>3. \A q \in Runs : RunOK(Overtaken(on)[q], q)
    <3> SUFFICES ASSUME NEW q \in Runs PROVE RunOK(Overtaken(on)[q], q)
      OBVIOUS
    <3>1. Overtaken(on)[q] = [on[q] EXCEPT !.planned = None]
      BY DEF Overtaken
    <3>2. QED BY <2>2, <3>1, Forgets
  <2>4. run' = on \/ run' = Overtaken(on)
    BY <1>11 DEF Converge
  <2>5. \A q \in Runs : RunOK(run'[q], q)
    BY <2>2, <2>3, <2>4
  <2>6. DOMAIN run' = Runs
    BY <2>4 DEF Overtaken, IInv
  <2>7. QED BY <1>11, <2>5, <2>6 DEF Converge, IInv, RunOK, Typed, Given, Checked, Version
<1>12. CASE UNCHANGED vars
  BY <1>12 DEF vars, IInv, RunOK, Typed, Given, Checked, Version
<1>13. QED
  BY <1>1, <1>2, <1>3, <1>4, <1>5, <1>6, <1>7, <1>8, <1>9, <1>10, <1>11, <1>12 DEF Next

\* Whatever is given, a run sends only to the chain its file declares, found
\* at the endpoint it was told to use, with the key of its addresses.
THEOREM SendsRight == Spec => []RightChain
<1>1. IInv => RightChain
  <2> SUFFICES ASSUME IInv, NEW r \in Runs, run[r].pc \in Halves
               PROVE  /\ (IF run[r].flag # None THEN run[r].flag ELSE FileOf(r).rpc_url)
                            \in {u \in Url : At[u] = ChainOf(r)}
                      /\ SignsAs[IF run[r].signer # None THEN run[r].signer
                                 ELSE FileOf(r).kms] = FileOf(r).table
    BY DEF RightChain
  <2>1. /\ Asks(FileOf(r), run[r].flag, run[r].signer)
        /\ Connects(FileOf(r), run[r].flag, run[r].signer)
    BY DEF IInv, RunOK, Checked, FileOf
  <2>2. FileOf(r) \in File
    BY WorkflowConstants DEF IInv, RunOK, Typed, Version, FileOf
  <2>3. QED BY <2>1, <2>2, Reaches DEF ChainOf
<1>2. QED BY <1>1, Starts, Invariance, PTL DEF Spec
-----------------------------------------------------------------------------
(***************************************************************************)
(* The queue of a network, for any number of jobs, host runs and versions. *)
(***************************************************************************)

Waits(j) == run[j].pc = "waiting"
Works(j) == run[j].pc \in Busy

\* One job works and one waits.
OneAtATime ==
  \A i, j \in Job :
    /\ Works(i) /\ Works(j) => i = j
    /\ Waits(i) /\ Waits(j) => i = j

\* What the job at work has read and set is still so.
StillSo ==
  \A j \in Job : run[j].planned # None =>
    /\ Is(j, "connect") => run[j].planned = content[Reached(FileOf(j), run[j].flag)]
    /\ Is(j, "first") => run[j].planned = content[ChainOf(j)]
    /\ Is(j, "second") => content[ChainOf(j)]["first"] = run[j].version

QInv == TypeOK /\ OneAtATime /\ StillSo

\* A run that has not begun, or is over, is a record.
LEMMA IdleTyped ==
  ASSUME NEW l \in Ended PROVE Idle(l) \in Record
<1>1. 1 \in Version
  BY WorkflowConstants DEF Version
<1> DEFINE i == [pc |-> l, version |-> 1, mode |-> "apply", flag |-> None,
                 signer |-> None, planned |-> None]
<1>2. i \in Record
  <2> DEFINE P == Content \cup {None}
             F == Flag
             B == Ended \cup Busy \cup {"waiting", "prompt"}
  <2>1. None \in P /\ None \in F /\ l \in B
    BY DEF Flag
  <2> HIDE DEF P, F, B
  <2>2. i \in [pc : B, version : Version, mode : {"plan", "apply"}, flag : F,
               signer : Signer \cup {None}, planned : P]
    BY <1>1, <2>1
  <2>3. QED BY <2>2 DEF P, F, B, Record
<1>3. QED BY <1>2 DEF Idle

\* The chain a run's file declares is one of the chains.
LEMMA ChainTyped ==
  ASSUME TypeOK, NEW r \in Runs PROVE ChainOf(r) \in Chain
<1>1. Files[run[r].version] \in File
  BY WorkflowConstants DEF TypeOK, Record, Version
<1>2. QED BY <1>1 DEF ChainOf, FileOf, File

\* The initial states are well typed.
LEMMA TypeInit == Init => TypeOK
<1> SUFFICES ASSUME Init PROVE TypeOK
  OBVIOUS
<1>1. 1 \in Version /\ 0 \in 0 .. Len(Files)
  BY WorkflowConstants DEF Version
<1>2. Idle("none") \in Record
  BY IdleTyped DEF Ended
<1>3. QED BY <1>1, <1>2 DEF Init, TypeOK, Content, Flag

\* Where a run goes, it stays a record.
LEMMA GoesTyped ==
  ASSUME TypeOK, NEW r \in Runs, NEW l \in Ended \cup Busy \cup {"waiting", "prompt"},
         Goto(r, l)
  PROVE  run' \in [Runs -> Record]
<1>2. l \in Ended => Idle(l) \in Record
  BY IdleTyped
<1>3. [run[r] EXCEPT !.pc = l] \in Record
  BY DEF TypeOK, Record
<1>4. QED BY <1>2, <1>3 DEF Goto, TypeOK

\* Every step keeps the types, one case per action.
LEMMA TypeStep == TypeOK /\ [Next]_vars => TypeOK'
<1> SUFFICES ASSUME TypeOK, [Next]_vars PROVE TypeOK'
  OBVIOUS
<1>1. CASE Commit
  BY <1>1, WorkflowConstants DEF Commit, TypeOK, Version
<1>2. CASE Land
  <2>1. content' \in [Chain -> Content]
    BY <1>2 DEF Land, TypeOK, Write, Content, Version
  <2>2. run' \in [Runs -> Record]
    BY <1>2 DEF Land, TypeOK, Overtaken, Record
  <2>3. QED BY <1>2, <2>1, <2>2 DEF Land, TypeOK
<1>3. ASSUME NEW j \in Job, Dispatch(j) PROVE TypeOK'
  <2>1. Idle("stopped") \in Record
    BY IdleTyped DEF Ended
  <2>2. \A m \in {"plan", "apply"}, v \in 1 .. head :
          [run[j] EXCEPT !.pc = "waiting", !.mode = m, !.version = v] \in Record
    <3>1. 1 .. head \subseteq Version
      BY WorkflowConstants DEF TypeOK, Version
    <3>2. QED BY <3>1 DEF TypeOK, Record, Runs
  <2>3. run' \in [Runs -> Record]
    BY <1>3, <2>1, <2>2 DEF Dispatch, TypeOK
  <2>4. QED BY <1>3, <2>3 DEF Dispatch, TypeOK
<1>4. ASSUME NEW j \in Job, Start(j) PROVE TypeOK'
  <2> DEFINE next == [[run[j] EXCEPT !.pc = "plan"] EXCEPT !.flag = secret]
  <2>1. run[j] \in Record /\ secret \in Flag
    BY DEF TypeOK, Runs
  <2>2. next \in Record
    BY <2>1 DEF Record, Busy
  <2>3. run' = [run EXCEPT ![j] = next]
    BY <1>4 DEF Start, TypeOK, Runs
  <2>4. run' \in [Runs -> Record]
    BY <2>2, <2>3 DEF TypeOK
  <2>5. QED BY <1>4, <2>4 DEF Start, Elsewhere, TypeOK
<1>5. ASSUME NEW j \in Job, PlanStep(j) PROVE TypeOK'
  <2> DEFINE f == FileOf(j)
             u == run[j].flag
             ok == Preflight(f, u) /\ Validates(f, u) /\ Plans(f, u)
  <2>1. CASE ~ok
    BY <1>5, <2>1, GoesTyped DEF PlanStep, Elsewhere, TypeOK, Ended, Runs
  <2>2. CASE ok /\ run[j].mode = "plan"
    BY <1>5, <2>2, GoesTyped DEF PlanStep, Elsewhere, TypeOK, Ended, Runs
  <2>3. CASE ok /\ run[j].mode # "plan"
    <3>1. content[Reached(f, u)] \in Content
      <4>1. f \in File /\ u \in Flag
        BY WorkflowConstants DEF TypeOK, FileOf, Record, Version, Runs
      <4>2. Reached(f, u) # None
        BY <2>3 DEF Plans
      <4>3. Resolve(f, u) # Error /\ Reached(f, u) = At[Resolve(f, u)]
        BY <4>2 DEF Reached
      <4>4. Resolve(f, u) \in Url
        BY <4>3 DEF Resolve, Named, Parses
      <4>5. Reached(f, u) \in Chain
        BY <4>2, <4>3, <4>4, InvocationConstants
      <4>6. QED BY <4>5 DEF TypeOK
    <3>2. run' = [run EXCEPT ![j].pc = "connect", ![j].planned = content[Reached(f, u)]]
      BY <1>5, <2>3 DEF PlanStep
    <3>3. [[run[j] EXCEPT !.pc = "connect"] EXCEPT !.planned = content[Reached(f, u)]]
            \in Record
      <4> DEFINE value == content[Reached(f, u)]
      <4> HIDE DEF value
      <4>1. value \in Content
        BY <3>1 DEF value
      <4>2. [[run[j] EXCEPT !.pc = "connect"] EXCEPT !.planned = value] \in Record
        BY <4>1 DEF TypeOK, Record, Busy, Runs
      <4>3. QED BY <4>2 DEF value
    <3>4. run' = [run EXCEPT ![j] = [[run[j] EXCEPT !.pc = "connect"]
                                       EXCEPT !.planned = content[Reached(f, u)]]]
      BY <3>2 DEF TypeOK, Runs
    <3>5. run' \in [Runs -> Record]
      BY <3>3, <3>4 DEF TypeOK, Runs
    <3>6. QED BY <1>5, <3>5 DEF PlanStep, Elsewhere, TypeOK
  <2>4. QED BY <2>1, <2>2, <2>3
<1>6. ASSUME NEW j \in Job, Connect(j) PROVE TypeOK'
  BY <1>6, GoesTyped DEF Connect, Elsewhere, TypeOK, Ended, Busy, Runs
<1>7. ASSUME NEW j \in Job, Timeout(j) PROVE TypeOK'
  <2>1. FileOf(j) \in File
    BY WorkflowConstants DEF TypeOK, FileOf, Record, Version, Runs
  <2>2. late' \in Write \cup {None}
    BY <1>7, <2>1 DEF Timeout, ChainOf, File, TypeOK, Write, Record, Runs
  <2>3. run' \in [Runs -> Record]
    BY <1>7, GoesTyped DEF Timeout, Ended, Runs
  <2>4. QED BY <1>7, <2>2, <2>3 DEF Timeout, TypeOK
<1>8. ASSUME NEW h \in Host, Invoke(h) PROVE TypeOK'
  <2>1. PICK v \in 1 .. head, u \in Flag, s \in Signer \cup {None} :
          IF Asks(Files[v], u, s)
          THEN run' = [run EXCEPT ![h] = [@ EXCEPT !.pc = "prompt", !.version = v,
                                                   !.flag = u, !.signer = s]]
          ELSE Goto(h, "stopped")
    BY <1>8 DEF Invoke
  <2>2. CASE Asks(Files[v], u, s)
    <3>1. v \in Version
      BY WorkflowConstants DEF TypeOK, Version
    <3>2. [run[h] EXCEPT !.pc = "prompt", !.version = v, !.flag = u, !.signer = s] \in Record
      BY <3>1 DEF TypeOK, Record, Runs
    <3>3. run' \in [Runs -> Record]
      BY <2>1, <2>2, <3>2 DEF TypeOK, Runs
    <3>4. QED BY <1>8, <3>3 DEF Invoke, Elsewhere, TypeOK
  <2>3. CASE ~Asks(Files[v], u, s)
    BY <1>8, <2>1, <2>3, GoesTyped DEF Invoke, Elsewhere, TypeOK, Ended, Runs
  <2>4. QED BY <2>2, <2>3
<1>9. ASSUME NEW h \in Host, Confirm(h) PROVE TypeOK'
  BY <1>9, GoesTyped DEF Confirm, Elsewhere, TypeOK, Ended, Busy, Runs
<1>10. ASSUME NEW h \in Host, Interrupt(h) PROVE TypeOK'
  BY <1>10, GoesTyped DEF Interrupt, Elsewhere, TypeOK, Ended, Runs
<1>11. ASSUME NEW r \in Runs, Converge(r) PROVE TypeOK'
  <2> DEFINE next == IF Is(r, "first") THEN [run[r] EXCEPT !.pc = "second"] ELSE Idle("done")
             on   == [run EXCEPT ![r] = next]
  <2>1. next \in Record
    <3>1. Idle("done") \in Record
      BY IdleTyped DEF Ended
    <3>2. [run[r] EXCEPT !.pc = "second"] \in Record
      BY DEF TypeOK, Record, Busy
    <3>3. QED BY <3>1, <3>2
  <2>2. on \in [Runs -> Record]
    BY <2>1 DEF TypeOK
  <2>3. Overtaken(on) \in [Runs -> Record]
    <3> SUFFICES ASSUME NEW q \in Runs PROVE [on[q] EXCEPT !.planned = None] \in Record
      BY DEF Overtaken
    <3> HIDE DEF on
    <3>1. on[q] \in Record
      BY <2>2
    <3>2. QED BY <3>1 DEF Record
  <2>4. run' \in [Runs -> Record]
    BY <1>11, <2>2, <2>3 DEF Converge
  <2>5. content' \in [Chain -> Content]
    <3>1. /\ content' = [content EXCEPT ![ChainOf(r)][run[r].pc] = run[r].version]
          /\ run[r].version \in 0 .. Len(Files)
      BY <1>11, WorkflowConstants DEF Converge, TypeOK, Record, Version
    <3>2. QED BY <3>1 DEF TypeOK, Content
  <2>6. QED BY <1>11, <2>4, <2>5 DEF Converge, TypeOK
<1>12. CASE UNCHANGED vars
  BY <1>12 DEF vars, TypeOK
<1>13. QED
  BY <1>1, <1>2, <1>3, <1>4, <1>5, <1>6, <1>7, <1>8, <1>9, <1>10, <1>11, <1>12 DEF Next
-----------------------------------------------------------------------------
Queue == OneAtATime /\ StillSo

\* The queue stays in order where no job comes to work or wait, and what
\* changes a chain comes from outside.
LEMMA Quiet ==
  ASSUME QInv, TypeOK',
         content' = content \/ \A i \in Job : Works(i)' => run'[i].planned = None,
         \A i \in Job :
           /\ Works(i)' => Works(i) /\ run'[i].pc = run[i].pc
           /\ Waits(i)' => Waits(i)
           /\ Works(i)' \/ Waits(i)' =>
                run'[i].version = run[i].version /\ run'[i].flag = run[i].flag
           /\ Works(i)' => run'[i].planned \in {None, run[i].planned}
  PROVE  Queue'
<1>1. OneAtATime'
  BY DEF OneAtATime, QInv
<1>2. StillSo'
  <2> SUFFICES ASSUME NEW j \in Job, run'[j].planned # None, Works(j)'
               PROVE  /\ Is(j, "connect")' =>
                           run'[j].planned = content'[Reached(FileOf(j)', run'[j].flag)]
                      /\ Is(j, "first")' => run'[j].planned = content'[ChainOf(j)']
                      /\ Is(j, "second")' =>
                           content'[ChainOf(j)']["first"] = run'[j].version
    BY DEF StillSo, Is, Works, Busy
  <2>1. /\ content' = content /\ run'[j].planned = run[j].planned
        /\ run'[j].pc = run[j].pc /\ run'[j].version = run[j].version
        /\ run'[j].flag = run[j].flag
    OBVIOUS
  <2>2. FileOf(j)' = FileOf(j) /\ ChainOf(j)' = ChainOf(j)
    BY <2>1 DEF FileOf, ChainOf
  <2>3. QED BY <2>1, <2>2 DEF QInv, StillSo, Is
<1>3. QED BY <1>1, <1>2 DEF Queue

\* A run that ends, or a host run that goes on, leaves the queue in order.
LEMMA QuietGoto ==
  ASSUME QInv, TypeOK', NEW r \in Runs, NEW l, Goto(r, l),
         l \in Ended \/ r \notin Job,
         UNCHANGED content
  PROVE  Queue'
<1>1. \A i \in Job : run'[i] = run[i] \/ (i = r /\ l \in Ended /\ run'[i] = Idle(l))
  BY DEF Goto, QInv, TypeOK, Runs
<1>2. l \in Ended => Idle(l).pc \notin Busy \cup {"waiting"}
  BY DEF Idle, Ended, Busy
<1>3. \A i \in Job : Works(i)' \/ Waits(i)' => run'[i] = run[i]
  BY <1>1, <1>2 DEF Works, Waits
<1>4. QED BY <1>3, Quiet DEF Works, Waits

\* A dispatch waits, and no other does.
LEMMA DispatchQueues ==
  ASSUME QInv, TypeOK', NEW j \in Job, Dispatch(j)
  PROVE  Queue'
<1>1. PICK m \in {"plan", "apply"}, v \in 1 .. head :
        run' = [r \in Runs |->
                  CASE r = j            -> [run[j] EXCEPT !.pc = "waiting", !.mode = m,
                                                          !.version = v]
                    [] Is(r, "waiting") -> Idle("stopped")
                    [] OTHER            -> run[r]]
  BY DEF Dispatch
<1>2. run'[j].pc = "waiting"
  <2>1. run'[j] = [run[j] EXCEPT !.pc = "waiting", !.mode = m, !.version = v]
    BY <1>1 DEF Dispatch, Is, Runs
  <2>2. run[j] \in Record
    BY DEF QInv, TypeOK, Runs
  <2>3. QED BY <2>1, <2>2 DEF Record
<1>3. \A i \in Job \ {j} : \/ run'[i] = run[i] /\ ~Waits(i)
                           \/ run'[i] = Idle("stopped")
  BY <1>1 DEF Is, Waits, Runs
<1>4. Idle("stopped").pc = "stopped" /\ "stopped" \notin Busy
  BY DEF Idle, Busy
<1>5. \A i \in Job \ {j} : ~Waits(i)' /\ (Works(i)' => Works(i) /\ run'[i] = run[i])
  BY <1>3, <1>4 DEF Waits, Works
<1>6. Waits(j)' /\ ~Works(j)'
  BY <1>2 DEF Waits, Works, Busy
<1>7. OneAtATime'
  BY <1>5, <1>6 DEF OneAtATime, QInv
<1>8. StillSo'
  <2> SUFFICES ASSUME NEW i \in Job, run'[i].planned # None, Works(i)'
               PROVE  /\ Is(i, "connect")' =>
                           run'[i].planned = content'[Reached(FileOf(i)', run'[i].flag)]
                      /\ Is(i, "first")' => run'[i].planned = content'[ChainOf(i)']
                      /\ Is(i, "second")' =>
                           content'[ChainOf(i)']["first"] = run'[i].version
    BY DEF StillSo, Is, Works, Busy
  <2>1. run'[i] = run[i] /\ content' = content
    BY <1>5, <1>6 DEF Dispatch
  <2>2. QED BY <2>1 DEF QInv, StillSo, Is, FileOf, ChainOf
<1>9. QED BY <1>7, <1>8 DEF Queue

\* What a job at work does to the queue when it neither ends nor sends.
LEMMA WorksOn ==
  ASSUME QInv, TypeOK', NEW j \in Job,
         UNCHANGED content,
         \A i \in Job \ {j} : run'[i] = run[i],
         Works(j)', run'[j].version = run[j].version,
         Works(j) \/ (Waits(j) /\ \A i \in Job : ~Works(i)),
         run'[j].planned # None =>
           /\ Is(j, "connect")' =>
                run'[j].planned = content[Reached(FileOf(j), run'[j].flag)]
           /\ Is(j, "first")' => run'[j].planned = content[ChainOf(j)]
           /\ ~Is(j, "second")'
  PROVE  Queue'
<1>1. ~Waits(j)'
  BY DEF Waits, Works, Busy
<1>2. \A i \in Job \ {j} : ~Works(i)'
  BY DEF OneAtATime, QInv, Works
<1>3. OneAtATime'
  BY <1>1, <1>2 DEF OneAtATime, QInv, Waits
<1>4. StillSo'
  <2> SUFFICES ASSUME NEW i \in Job, run'[i].planned # None, Works(i)'
               PROVE  /\ Is(i, "connect")' =>
                           run'[i].planned = content'[Reached(FileOf(i)', run'[i].flag)]
                      /\ Is(i, "first")' => run'[i].planned = content'[ChainOf(i)']
                      /\ Is(i, "second")' =>
                           content'[ChainOf(i)']["first"] = run'[i].version
    BY DEF StillSo, Is, Works, Busy
  <2>1. i = j
    BY <1>2
  <2>2. FileOf(j)' = FileOf(j) /\ ChainOf(j)' = ChainOf(j)
    BY DEF FileOf, ChainOf
  <2>3. QED BY <2>1, <2>2
<1>5. QED BY <1>3, <1>4 DEF Queue

\* A job that sends brings its chain to its own version, half by half.
LEMMA Sends ==
  ASSUME QInv, TypeOK', NEW j \in Job, Converge(j)
  PROVE  Queue'
<1>1. /\ j \in Runs /\ run[j] \in Record /\ run[j].pc \in Halves /\ Works(j)
      /\ run' = [run EXCEPT ![j] = IF Is(j, "first") THEN [run[j] EXCEPT !.pc = "second"]
                                                     ELSE Idle("done")]
      /\ content' = [content EXCEPT ![ChainOf(j)][run[j].pc] = run[j].version]
  BY WorkflowConstants DEF Converge, Runs, QInv, TypeOK, Works, Halves, Busy
<1>2. \A i \in Job \ {j} : run'[i] = run[i] /\ ~Works(i)
  BY <1>1 DEF QInv, OneAtATime, TypeOK, Runs
<1>3. \/ run'[j] = [run[j] EXCEPT !.pc = "second"] /\ Is(j, "first")
      \/ run'[j] = Idle("done")
  BY <1>1 DEF QInv, TypeOK
<1>4. /\ ~Waits(j)'
      /\ Works(j)' => /\ Is(j, "first") /\ Is(j, "second")'
                      /\ run'[j].version = run[j].version
                      /\ run'[j].planned = run[j].planned
  BY <1>1, <1>3 DEF Waits, Works, Is, Idle, Busy, Record
<1>5. OneAtATime'
  <2>1. \A i \in Job : Works(i)' => i = j
    BY <1>2 DEF Works
  <2>2. \A i \in Job : Waits(i)' => Waits(i) /\ run'[i] = run[i]
    BY <1>2, <1>4 DEF Waits
  <2>3. QED BY <2>1, <2>2 DEF OneAtATime, QInv
<1>6. StillSo'
  <2> SUFFICES ASSUME NEW i \in Job, run'[i].planned # None, Works(i)'
               PROVE  /\ Is(i, "connect")' =>
                           run'[i].planned = content'[Reached(FileOf(i)', run'[i].flag)]
                      /\ Is(i, "first")' => run'[i].planned = content'[ChainOf(i)']
                      /\ Is(i, "second")' =>
                           content'[ChainOf(i)']["first"] = run'[i].version
    BY DEF StillSo, Is, Works, Busy
  <2>1. i = j /\ Is(j, "first") /\ Is(j, "second")'
    BY <1>2, <1>4 DEF Works
  <2>2. ChainOf(j)' = ChainOf(j) /\ ChainOf(j) \in Chain
    <3>1. run'[j].version = run[j].version
      BY <1>4, <2>1
    <3>2. Files[run[j].version] \in File
      BY <1>1, WorkflowConstants DEF Record, Version
    <3>3. QED BY <3>1, <3>2 DEF ChainOf, FileOf, File
  <2>3. content'[ChainOf(j)]["first"] = run[j].version
    BY <1>1, <2>1, <2>2 DEF Is, QInv, TypeOK, Content, Halves
  <2>4. QED BY <1>4, <2>1, <2>2, <2>3 DEF Is
<1>7. QED BY <1>5, <1>6 DEF Queue

\* Nobody works or waits at first.
LEMMA QueueInit == Init => Queue
<1> SUFFICES ASSUME Init PROVE Queue
  OBVIOUS
<1>1. \A r \in Runs : run[r].pc = "none" /\ run[r].planned = None
  BY DEF Init, Idle
<1>2. \A j \in Job : ~Works(j) /\ ~Waits(j)
  BY <1>1 DEF Works, Waits, Busy, Runs
<1>3. QED BY <1>1, <1>2 DEF Queue, OneAtATime, StillSo, Runs

\* Every step keeps the queue in order, one case per action.
LEMMA QueueStep == QInv /\ TypeOK' /\ [Next]_vars => Queue'
<1> SUFFICES ASSUME QInv, TypeOK', [Next]_vars PROVE Queue'
  OBVIOUS
<1>1. CASE Commit
  <2>1. UNCHANGED <<run, content>>
    BY <1>1 DEF Commit
  <2>2. QED BY <2>1, Quiet DEF Works, Waits
<1>2. CASE Land
  <2>1. \A i \in Job : run'[i] = [run[i] EXCEPT !.planned = None] /\ run[i] \in Record
    BY <1>2 DEF Land, Overtaken, QInv, TypeOK, Runs
  <2>2. \A i \in Job : /\ run'[i].planned = None /\ run'[i].pc = run[i].pc
                       /\ run'[i].version = run[i].version /\ run'[i].flag = run[i].flag
    BY <2>1 DEF Record
  <2>3. QED BY <2>2, Quiet DEF Works, Waits
<1>3. ASSUME NEW j \in Job, Dispatch(j) PROVE Queue'
  BY <1>3, DispatchQueues
<1>4. ASSUME NEW j \in Job, Start(j) PROVE Queue'
  <2>1. /\ run' = [run EXCEPT ![j] = [[run[j] EXCEPT !.pc = "plan"] EXCEPT !.flag = secret]]
        /\ run[j] \in Record
    BY <1>4 DEF Start, QInv, TypeOK, Runs
  <2>2. /\ \A i \in Job \ {j} : run'[i] = run[i]
        /\ run'[j].pc = "plan" /\ run'[j].version = run[j].version
    BY <2>1 DEF QInv, TypeOK, Record, Runs
  <2>3. Waits(j) /\ \A i \in Job : ~Works(i)
    BY <1>4 DEF Start, Is, Waits, Works
  <2>4. QED BY <1>4, <2>2, <2>3, WorksOn DEF Start, Elsewhere, Works, Busy, Is
<1>5. ASSUME NEW j \in Job, PlanStep(j) PROVE Queue'
  <2> DEFINE f == FileOf(j)
             u == run[j].flag
             read == content[Reached(f, u)]
  <2>1. CASE Goto(j, "stopped") \/ Goto(j, "done")
    BY <1>5, <2>1, QuietGoto DEF PlanStep, Elsewhere, Ended, Runs
  <2>2. CASE run' = [run EXCEPT ![j].pc = "connect", ![j].planned = read]
    <3>1. /\ run' = [run EXCEPT ![j] = [[run[j] EXCEPT !.pc = "connect"]
                                          EXCEPT !.planned = read]]
          /\ run[j] \in Record
      BY <2>2 DEF QInv, TypeOK, Runs
    <3>2. /\ \A i \in Job \ {j} : run'[i] = run[i]
          /\ run'[j].pc = "connect" /\ run'[j].version = run[j].version
          /\ run'[j].flag = run[j].flag /\ run'[j].planned = read
      BY <3>1 DEF QInv, TypeOK, Record, Runs
    <3>3. Works(j)
      BY <1>5 DEF PlanStep, Is, Works, Busy
    <3>4. QED BY <1>5, <3>2, <3>3, WorksOn DEF PlanStep, Elsewhere, Works, Busy, Is
  <2>3. QED BY <1>5, <2>1, <2>2 DEF PlanStep
<1>6. ASSUME NEW j \in Job, Connect(j) PROVE Queue'
  <2>1. CASE Goto(j, "stopped")
    BY <1>6, <2>1, QuietGoto DEF Connect, Elsewhere, Ended, Runs
  <2>2. CASE Goto(j, "first") /\ Connects(FileOf(j), run[j].flag, None)
    <3>1. /\ run' = [run EXCEPT ![j] = [run[j] EXCEPT !.pc = "first"]]
          /\ run[j] \in Record
      BY <2>2 DEF Goto, Ended, QInv, TypeOK, Runs
    <3>2. /\ \A i \in Job \ {j} : run'[i] = run[i]
          /\ run'[j].pc = "first" /\ run'[j].version = run[j].version
          /\ run'[j].planned = run[j].planned
      BY <3>1 DEF QInv, TypeOK, Record, Runs
    <3>3. Works(j)
      BY <1>6 DEF Connect, Is, Works, Busy
    <3>4. Reached(FileOf(j), run[j].flag) = ChainOf(j)
      BY <2>2 DEF Connects, ChainOf
    <3>5. run[j].planned # None => run[j].planned = content[ChainOf(j)]
      BY <1>6, <3>4 DEF Connect, QInv, StillSo
    <3>6. QED BY <1>6, <3>2, <3>3, <3>5, WorksOn DEF Connect, Elsewhere, Works, Busy, Is
  <2>3. QED BY <1>6, <2>1, <2>2 DEF Connect
<1>7. ASSUME NEW j \in Job, Timeout(j) PROVE Queue'
  BY <1>7, QuietGoto DEF Timeout, Ended, Runs
<1>8. ASSUME NEW h \in Host, Invoke(h) PROVE Queue'
  <2>1. \A i \in Job : run'[i] = run[i]
    BY <1>8, WorkflowConstants DEF Invoke, Goto, QInv, TypeOK, Runs
  <2>2. QED BY <1>8, <2>1, Quiet DEF Invoke, Elsewhere, Works, Waits
<1>9. ASSUME NEW h \in Host, Confirm(h) PROVE Queue'
  <2>1. h \in Runs /\ h \notin Job
    BY WorkflowConstants DEF Runs
  <2>2. Goto(h, "first") \/ Goto(h, "stopped")
    BY <1>9 DEF Confirm
  <2>3. QED BY <1>9, <2>1, <2>2, QuietGoto DEF Confirm, Elsewhere
<1>10. ASSUME NEW h \in Host, Interrupt(h) PROVE Queue'
  BY <1>10, QuietGoto DEF Interrupt, Elsewhere, Ended, Runs
<1>11. ASSUME NEW j \in Job, Converge(j) PROVE Queue'
  BY <1>11, Sends
<1>12. ASSUME NEW h \in Host, Converge(h) PROVE Queue'
  <2> DEFINE on == [run EXCEPT ![h] = IF Is(h, "first")
                                      THEN [run[h] EXCEPT !.pc = "second"] ELSE Idle("done")]
  <2>1. run' = Overtaken(on)
    BY <1>12 DEF Converge
  <2>2. \A i \in Job : on[i] = run[i] /\ run[i] \in Record
    BY WorkflowConstants DEF QInv, TypeOK, Runs
  <2>3. \A i \in Job : run'[i] = [run[i] EXCEPT !.planned = None] /\ run[i] \in Record
    BY <2>1, <2>2 DEF Overtaken, Runs
  <2>4. \A i \in Job : /\ run'[i].planned = None /\ run'[i].pc = run[i].pc
                       /\ run'[i].version = run[i].version /\ run'[i].flag = run[i].flag
    BY <2>3 DEF Record
  <2>5. QED BY <2>4, Quiet DEF Works, Waits
<1>13. CASE UNCHANGED vars
  <2>1. UNCHANGED <<run, content>>
    BY <1>13 DEF vars
  <2>2. QED BY <2>1, Quiet DEF Works, Waits
<1>14. QED
  BY <1>1, <1>2, <1>3, <1>4, <1>5, <1>6, <1>7, <1>8, <1>9, <1>10, <1>11, <1>12, <1>13
     DEF Next, Runs

\* The strengthening holds in every execution.
LEMMA Always == Spec => []QInv
<1>1. Init => QInv
  BY TypeInit, QueueInit DEF QInv, Queue
<1>2. QInv /\ [Next]_vars => QInv'
  BY TypeStep, QueueStep DEF QInv, Queue
<1>3. QED BY <1>1, <1>2, PTL DEF Spec

\* Every reachable state is well typed.
THEOREM TypeCorrect == Spec => []TypeOK
<1>1. QInv => TypeOK
  BY DEF QInv
<1>2. QED BY <1>1, Always, PTL

\* A job that starts to send finds the chain as its plan read it, whatever
\* version it and the jobs before it were dispatched on, unless someone came
\* from outside the queue.
THEOREM StillTrue == Spec => []PlanStaysTrue
<1>1. QInv => PlanStaysTrue
  BY DEF PlanStaysTrue, QInv, StillSo
<1>2. QED BY <1>1, Always, PTL

\* A job that ends well leaves the chain at its own file, whatever jobs were
\* killed between the halves of theirs.
THEOREM ItsFile == Spec => DoneMeansItsFile
<1> DEFINE Step == \A j \in Job : Is(j, "second") /\ run'[j].pc = "done" /\ run[j].planned # None
                     => content'[ChainOf(j)] = [h \in Halves |-> run[j].version]
<1>1. QInv /\ [Next]_vars => [Step]_vars
  <2> SUFFICES ASSUME QInv, [Next]_vars, NEW j \in Job, Is(j, "second"),
                      run'[j].pc = "done", run[j].planned # None
               PROVE  content'[ChainOf(j)] = [h \in Halves |-> run[j].version]
    OBVIOUS
  <2>1. j \in Runs /\ run[j] \in Record /\ run[j].pc = "second" /\ DOMAIN run = Runs
    BY DEF QInv, TypeOK, Is, Runs
  <2>2. ChainOf(j) \in Chain
    BY <2>1, ChainTyped DEF QInv
  <2>3. CASE Converge(j)
    <3>1. content[ChainOf(j)] \in Content /\ content[ChainOf(j)]["first"] = run[j].version
      BY <2>2 DEF QInv, TypeOK, StillSo
    <3>2. content'[ChainOf(j)] = [content[ChainOf(j)] EXCEPT !["second"] = run[j].version]
      BY <2>1, <2>2, <2>3 DEF Converge, QInv, TypeOK
    <3>3. QED BY <3>1, <3>2 DEF Content, Halves
  <2>4. CASE ~Converge(j)
    <3>1. \A l : l # "done" /\ Goto(j, l) => run'[j].pc # "done"
      BY <2>1 DEF Goto, Idle, Record
    <3>2. \A i \in Runs \ {j} : \A l : Goto(i, l) => run'[j] = run[j]
      BY <2>1 DEF Goto
    <3>3. \A f : f[j] = run[j] => Overtaken(f)[j].pc = "second"
      BY <2>1 DEF Overtaken, Record
    <3>4. CASE Commit \/ Land \/ UNCHANGED vars
      BY <2>1, <3>3, <3>4 DEF Commit, Land, vars
    <3>5. ASSUME NEW i \in Job, Dispatch(i) PROVE FALSE
      BY <2>1, <3>5 DEF Dispatch, Is, Runs
    <3>6. ASSUME NEW i \in Job, Start(i) \/ PlanStep(i) \/ Connect(i) PROVE FALSE
      <4>1. i \in Runs \ {j}
        BY <2>1, <3>6 DEF Start, PlanStep, Connect, Is, Runs
      <4>2. run'[j] = run[j]
        BY <2>1, <3>2, <3>6, <4>1 DEF Start, PlanStep, Connect
      <4>3. QED BY <2>1, <4>2
    <3>7. ASSUME NEW i \in Job, Timeout(i) PROVE FALSE
      BY <2>1, <3>1, <3>2, <3>7 DEF Timeout, Runs
    <3>8. ASSUME NEW h \in Host, Invoke(h) \/ Confirm(h) \/ Interrupt(h) PROVE FALSE
      <4>1. h \in Runs \ {j}
        BY WorkflowConstants DEF Runs
      <4>2. run'[j] = run[j]
        BY <2>1, <3>2, <3>8, <4>1 DEF Invoke, Confirm, Interrupt
      <4>3. QED BY <2>1, <4>2
    <3>9. ASSUME NEW i \in Runs \ {j}, Converge(i) PROVE FALSE
      <4> DEFINE on == [run EXCEPT ![i] = IF Is(i, "first")
                                          THEN [run[i] EXCEPT !.pc = "second"] ELSE Idle("done")]
      <4>1. on[j] = run[j]
        BY <2>1
      <4>2. run' = on \/ run' = Overtaken(on)
        BY <3>9 DEF Converge
      <4>3. QED BY <2>1, <3>3, <4>1, <4>2
    <3>10. QED
      BY <2>4, <3>4, <3>5, <3>6, <3>7, <3>8, <3>9 DEF Next
  <2>5. QED BY <2>3, <2>4
<1>2. QED BY <1>1, Always, PTL DEF DoneMeansItsFile, Spec
=============================================================================
