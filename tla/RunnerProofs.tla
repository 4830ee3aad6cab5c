---------------------------- MODULE RunnerProofs ----------------------------
(***************************************************************************)
(* Proofs about Runner, for every number of processes, runs, crashes and   *)
(* commands of a home: a success is backed by what the harness did, the    *)
(* accounting adds up, a plan lists its runs, and what the service stores  *)
(* is what a preview showed.                                               *)
(*                                                                         *)
(* A command keeps what it read across its awaits.  The invariant says of  *)
(* every command what stays true of that: no second command runs its run,  *)
(* and for a run that is previewed under one policy and by one command at  *)
(* a time, there is one body, from the first file to the stored row.       *)
(***************************************************************************)
EXTENDS Runner, FiniteSetTheorems, TLAPS

RunPcs == {"manifest", "harness", "draft", "meta", "plan"}
PreviewPcs == {"preview", "run.json", "preview.json"}
SubmitPcs == {"read", "submit", "receipt.json"}
Pcs == {"idle", "edit"} \cup RunPcs \cup PreviewPcs \cup SubmitPcs

\* What the records of the state are made of.
IsCommand(c) ==
  c = [pc |-> c.pc, run |-> c.run, ask |-> c.ask, planned |-> c.planned, policy |-> c.policy,
       share |-> c.share, body |-> c.body, shown |-> c.shown]
IsEntry(e) ==
  e = [dir |-> e.dir, input |-> e.input, draft |-> e.draft, meta |-> e.meta,
       signed |-> e.signed, preview |-> e.preview, receipt |-> e.receipt]
IsHarness(h) ==
  /\ h = [state |-> h.state, at |-> h.at, lines |-> h.lines, bad |-> h.bad, result |-> h.result,
          context |-> h.context, offSchema |-> h.offSchema, egress |-> h.egress, code |-> h.code,
          timedOut |-> h.timedOut]
  /\ h.lines \in [Statuses -> Nat]

Policies == [allow : BOOLEAN, target : BOOLEAN, budget : Nat]

Shape ==
  /\ proc = [p \in Procs |-> proc[p]] /\ \A p \in Procs : IsCommand(proc[p])
  /\ vault = [r \in Runs |-> vault[r]] /\ \A r \in Runs : IsEntry(vault[r])
  /\ child = [r \in Runs |-> child[r]] /\ \A r \in Runs : IsHarness(child[r])
  /\ work \in [Runs -> BOOLEAN]
  /\ shared = [r \in Runs |-> shared[r]] /\ \A r \in Runs : IsFiniteSet(shared[r])
  /\ service = [previews |-> service.previews, stored |-> [r \in Runs |-> service.stored[r]]]
  /\ IsFiniteSet(service.previews) /\ service.previews \subseteq Entries
  /\ left \in [Kinds -> Nat] /\ clock \in Nat
  /\ policy \in {None, Torn} \cup Policies

\* What a command knows.
CommandOK(p) ==
  LET c == proc[p] IN
  /\ c.pc \in Pcs
  /\ c.pc = "idle" => c = Idle
  /\ c.pc = "edit" => c.run = None /\ c.policy \in Policies
  /\ c.pc \in RunPcs => c.run \in Runs /\ c.ask \in Asks
  /\ c.pc = "manifest" => ~vault[c.run].dir
  /\ c.pc \in RunPcs \ {"manifest"} => vault[c.run].dir
  /\ c.pc = "harness" => vault[c.run].draft = None /\ child[c.run].state # "none"
  /\ c.pc = "draft" => vault[c.run].draft = None /\ vault[c.run].input = c.ask.context
  /\ c.pc \in PreviewPcs \cup SubmitPcs => c.run \in Runs /\ vault[c.run].dir
  /\ c.pc \in PreviewPcs \cup {"submit", "receipt.json"} => c.body \in Bodies
  /\ c.pc \in {"run.json", "preview.json"} => c.shown \in service.previews /\ c.shown.body = c.body
  /\ c.pc \in SubmitPcs => c.shown \in service.previews
  /\ c.pc = "receipt.json" => c.body = service.stored[c.run]

\* No two commands run the same run.
RunsApart ==
  \A p, q \in Procs :
    proc[p].pc \in RunPcs /\ proc[q].pc \in RunPcs /\ proc[p].run = proc[q].run => p = q

\* A recorded draft is what the runner makes of what the harness left.
Drawn(r) ==
  Ready(vault[r].draft) /\ child[r].state # "none" =>
    \E a \in Asks : vault[r].input = a.context /\ vault[r].draft = Draft(Seen(r, a), Planned)

EntryOK(r) ==
  /\ vault[r].signed \in {None, Torn} \cup Bodies
  /\ vault[r].preview \in {None, Torn} \cup service.previews
  /\ vault[r].receipt \in {None, Torn, service.stored[r]}
  /\ vault[r].meta \in {None, Torn} \cup BOOLEAN
  /\ Ready(vault[r].draft) => (vault[r].draft.status = "excluded" <=> vault[r].draft.reason # "none")
  /\ ~vault[r].dir => vault[r] = NoEntry /\ child[r] = NoHarness
  /\ Drawn(r)

\* One sharing policy, one command at a time.
Solo(r) == r \notin crossed /\ \A s, t \in shared[r] : s = t

\* Then there is one body.
OneBody(r) ==
  LET e == vault[r]
      row == service.stored[r]
  IN  /\ row # None => e.signed \in {row, Torn}
      /\ Ready(e.preview) => e.signed \in {e.preview.body, Torn}
      /\ Ready(e.signed) => e.signed.share \in shared[r]
      /\ \A p, q \in Procs : proc[p].run = r /\ proc[q].run = r => p = q
      /\ \A p \in Procs : proc[p].run = r =>
           LET c == proc[p] IN
           /\ c.pc \in {"preview", "run.json"} =>
                /\ c.body.share \in shared[r]
                /\ e.signed = c.body \/ (e.signed = None /\ ~Ready(e.preview) /\ row = None)
           /\ c.pc \in {"preview.json", "submit"} => e.signed = c.body

OneBodyOK == \A r \in Runs : Solo(r) => OneBody(r)

AnswersOK ==
  \A a \in answers :
    /\ a.run \in Runs
    /\ a.kind \in {"accepted", "again"} =>
         a.body = a.shown /\ service.stored[a.run] = a.body /\ a.body # None
    /\ a.kind = "conflict" => ~Solo(a.run)

IInv ==
  /\ Shape /\ \A p \in Procs : CommandOK(p)
  /\ RunsApart /\ \A r \in Runs : EntryOK(r)
  /\ OneBodyOK /\ AnswersOK

-----------------------------------------------------------------------------
LEMMA InitOK == Init => IInv
<1> SUFFICES ASSUME Init PROVE IInv
  OBVIOUS
<1> USE RunnerAssumption
<1>1. PICK w \in Workload :
        /\ left = w.left
        /\ policy = CASE w.home = "empty" -> None
                      [] w.home = "ready" -> [allow |-> TRUE, target |-> TRUE, budget |-> 1]
                      [] OTHER -> DefaultPolicy
        /\ vault = [r \in Runs |-> IF r \in w.recorded THEN Recorded ELSE NoEntry]
  BY DEF Init
<1>2. IsCommand(Idle) /\ IsHarness(NoHarness) /\ NoHarness.state = "none"
  <2>1. NoHarness.lines \in [Statuses -> Nat]
    BY DEF NoHarness
  <2>2. NoHarness.state = "none"
    BY DEF NoHarness
  <2>3. IsHarness(NoHarness)
    BY <2>1 DEF IsHarness, NoHarness
  <2>4. IsCommand(Idle)
    BY DEF IsCommand, Idle
  <2> QED BY <2>2, <2>3, <2>4
<1>3. \A r \in Runs : IsEntry(vault[r]) /\ vault[r] \in {Recorded, NoEntry}
  <2>1. IsEntry(NoEntry)
    BY DEF IsEntry, NoEntry
  <2>3. IsEntry(Recorded)
    BY DEF Recorded, IsEntry
  <2> QED BY <1>1, <2>1, <2>3
<1>4. Shape
  <2>1. left \in [Kinds -> Nat]
    BY <1>1
  <2>2. policy \in {None, Torn} \cup Policies
    BY <1>1 DEF Policies, DefaultPolicy
  <2>3. vault = [r \in Runs |-> vault[r]]
    BY <1>1
  <2> QED BY <1>2, <1>3, <2>1, <2>2, <2>3, FS_EmptySet DEF Init, Shape
<1>5. ASSUME NEW p \in Procs PROVE CommandOK(p)
  <2>1. proc[p] = Idle
    BY DEF Init
  <2> QED BY <2>1 DEF CommandOK, Idle, Pcs, RunPcs, PreviewPcs, SubmitPcs
<1>6. RunsApart
  BY DEF Init, RunsApart, Idle, RunPcs
<1>7. ASSUME NEW r \in Runs PROVE EntryOK(r)
  <2>1. child[r] = NoHarness
    BY DEF Init
  <2>2. CASE vault[r] = NoEntry
    BY <1>2, <2>1, <2>2 DEF NoEntry, EntryOK, Drawn, Ready
  <2>3. CASE vault[r] = Recorded
    <3>1. /\ vault[r].dir /\ vault[r].signed = None /\ vault[r].preview = None /\ vault[r].receipt = None
          /\ vault[r].meta = FALSE
          /\ vault[r].draft.status = "succeeded" /\ vault[r].draft.reason = "none"
      BY <2>3 DEF Recorded, NoEntry
    <3> QED BY <1>2, <2>1, <3>1 DEF EntryOK, Drawn
  <2> QED BY <1>3, <2>2, <2>3
<1>8. OneBodyOK
  <2>1. \A r \in Runs : vault[r].signed = None /\ vault[r].preview = None /\ service.stored[r] = None
    <3>1. Recorded.signed = None /\ Recorded.preview = None /\ NoEntry.signed = None /\ NoEntry.preview = None
      BY DEF Recorded, NoEntry
    <3> QED BY <1>3, <3>1 DEF Init
  <2>2. \A p \in Procs : proc[p].run = None
    BY DEF Init, Idle
  <2> QED BY <2>1, <2>2 DEF OneBodyOK, OneBody, Ready
<1>10. AnswersOK
  BY DEF Init, AnswersOK
<1> QED BY <1>4, <1>5, <1>6, <1>7, <1>8, <1>10 DEF IInv

-----------------------------------------------------------------------------
(* What a step leaves as it is.                                              *)

\* Only the command itself moves.
LEMMA Going ==
  ASSUME Shape, NEW p \in Procs, NEW c, IsCommand(c), Goes(p, c)
  PROVE  /\ proc' = [q \in Procs |-> proc'[q]] /\ \A q \in Procs : IsCommand(proc'[q])
         /\ proc'[p] = c /\ \A q \in Procs \ {p} : proc'[q] = proc[q]
  BY DEF Shape, Goes

LEMMA Stepping ==
  ASSUME Shape, NEW p \in Procs, NEW at, Steps(p, at)
  PROVE  /\ proc' = [q \in Procs |-> proc'[q]] /\ \A q \in Procs : IsCommand(proc'[q])
         /\ \A q \in Procs \ {p} : proc'[q] = proc[q]
         /\ proc'[p].pc = at /\ proc'[p].run = proc[p].run /\ proc'[p].ask = proc[p].ask
         /\ proc'[p].body = proc[p].body /\ proc'[p].shown = proc[p].shown
         /\ proc'[p].planned = proc[p].planned
  BY DEF Shape, Steps, Goes, IsCommand

LEMMA Ending ==
  ASSUME Shape, NEW p \in Procs, Ends(p)
  PROVE  /\ proc' = [q \in Procs |-> proc'[q]] /\ \A q \in Procs : IsCommand(proc'[q])
         /\ \A q \in Procs \ {p} : proc'[q] = proc[q]
         /\ proc'[p] = Idle /\ Idle.pc = "idle" /\ Idle.run = None
  BY Going DEF Ends, IsCommand, Idle

LEMMA Spending ==
  ASSUME Shape, NEW k \in Kinds, Spend(k)
  PROVE  left' \in [Kinds -> Nat]
  BY DEF Shape, Spend

\* The part of a run's entry that the command that runs it writes.
RunSame(r) ==
  /\ vault'[r].dir = vault[r].dir /\ vault'[r].draft = vault[r].draft
  /\ vault'[r].input = vault[r].input /\ child'[r] = child[r]

\* Previews and rows are not taken back, and the clock goes forward.
ServiceGrows ==
  /\ clock \in Nat /\ clock' \in Nat /\ clock' >= clock
  /\ service.previews \subseteq service'.previews
  /\ \A r \in Runs : service.stored[r] # None => service'.stored[r] = service.stored[r]

LEMMA BodiesGrow == ASSUME ServiceGrows PROVE Bodies \subseteq Bodies'
  BY DEF ServiceGrows, Bodies

LEMMA NoneIsNoBody == ASSUME clock \in Nat PROVE None \notin Bodies /\ Torn \notin Bodies
  BY RunnerAssumption DEF Bodies

LEMMA StillKnows ==
  ASSUME NEW q \in Procs, CommandOK(q), ServiceGrows, proc'[q] = proc[q],
         \A r \in Runs : vault[r].dir => vault'[r].dir,
         proc[q].pc \in RunPcs => RunSame(proc[q].run)
  PROVE  CommandOK(q)'
<1>1. Bodies \subseteq Bodies'
  BY BodiesGrow
<1>2. proc[q].pc = "receipt.json" => proc[q].body = service'.stored[proc[q].run]
  BY <1>1, NoneIsNoBody DEF CommandOK, ServiceGrows, SubmitPcs
<1> QED BY <1>1, <1>2 DEF CommandOK, RunSame, ServiceGrows, RunPcs

LEMMA OthersKnow ==
  ASSUME \A q \in Procs : CommandOK(q), RunsApart, NEW p \in Procs, ServiceGrows,
         \A q \in Procs \ {p} : proc'[q] = proc[q],
         \A r \in Runs : vault[r].dir => vault'[r].dir,
         \A r \in Runs : ~(proc[p].pc \in RunPcs /\ proc[p].run = r) => RunSame(r),
         CommandOK(p)'
  PROVE  \A q \in Procs : CommandOK(q)'
<1> SUFFICES ASSUME NEW q \in Procs \ {p} PROVE CommandOK(q)'
  OBVIOUS
<1>1. proc[q].pc \in RunPcs => RunSame(proc[q].run)
  BY DEF RunsApart, CommandOK
<1> QED BY <1>1, StillKnows

LEMMA ApartKept ==
  ASSUME RunsApart,
         \A q \in Procs : proc'[q].pc \in RunPcs => proc[q].pc \in RunPcs /\ proc'[q].run = proc[q].run
  PROVE  RunsApart'
  BY DEF RunsApart

LEMMA EntryKept ==
  ASSUME NEW r \in Runs, EntryOK(r), ServiceGrows, vault'[r] = vault[r], child'[r] = child[r]
  PROVE  EntryOK(r)'
<1>1. Bodies \subseteq Bodies'
  BY BodiesGrow
<1>2. Drawn(r)'
  BY DEF EntryOK, Drawn, Seen
<1> QED BY <1>1, <1>2 DEF EntryOK, ServiceGrows

LEMMA OneBodyKept ==
  ASSUME NEW r \in Runs, OneBodyOK,
         shared[r] \subseteq shared'[r], crossed \subseteq crossed',
         vault'[r].signed = vault[r].signed, vault'[r].preview = vault[r].preview,
         service'.stored[r] = service.stored[r],
         \A q \in Procs : proc'[q].run = r =>
           /\ proc[q].run = r
           /\ proc'[q] = proc[q] \/ proc'[q].pc \notin PreviewPcs \cup {"submit"}
  PROVE  Solo(r)' => OneBody(r)'
<1>1. Solo(r)' => Solo(r)
  BY DEF Solo
<1>2. Solo(r) => OneBody(r)
  BY DEF OneBodyOK
<1> QED BY <1>1, <1>2 DEF OneBody, PreviewPcs

LEMMA AnswersKept ==
  ASSUME AnswersOK, answers' = answers, ServiceGrows,
         \A r \in Runs : shared[r] \subseteq shared'[r], crossed \subseteq crossed'
  PROVE  AnswersOK'
<1>1. \A r \in Runs : Solo(r)' => Solo(r)
  BY DEF Solo
<1> QED BY <1>1 DEF AnswersOK, ServiceGrows

\* A step in which one command learns or forgets something, and no file of a run changes.
LEMMA OnlyMoves ==
  ASSUME IInv, NEW p \in Procs, Shape', UNCHANGED <<record, service, shared, crossed, answers>>,
         crashed \subseteq crashed', clock' >= clock,
         \A q \in Procs \ {p} : proc'[q] = proc[q],
         CommandOK(p)', proc[p].pc # "harness" \/ proc'[p] = proc[p],
         proc'[p].pc \in RunPcs => proc[p].pc \in RunPcs /\ proc'[p].run = proc[p].run,
         proc'[p].run \in Runs =>
           /\ proc[p].run = proc'[p].run
           /\ proc'[p] = proc[p] \/ proc'[p].pc \notin PreviewPcs \cup {"submit"}
  PROVE  IInv'
<1>0. /\ Shape /\ RunsApart /\ OneBodyOK /\ AnswersOK
      /\ \A q \in Procs : CommandOK(q)
      /\ \A r \in Runs : EntryOK(r)
  BY DEF IInv
<1>1. UNCHANGED <<vault, work, child, service, shared, crossed, answers>>
  BY DEF record
<1>2. ServiceGrows
  BY <1>0, <1>1 DEF ServiceGrows, Shape
<1>3. \A q \in Procs : CommandOK(q)'
  BY <1>0, <1>1, <1>2, OthersKnow DEF RunSame
<1>4. RunsApart'
  BY <1>0, ApartKept
<1>5. \A r \in Runs : EntryOK(r)'
  BY <1>0, <1>1, <1>2, EntryKept
<1>6. OneBodyOK'
  <2>1. \A r \in Runs : Solo(r)' => OneBody(r)'
    BY <1>0, <1>1, OneBodyKept
  <2> QED BY <2>1 DEF OneBodyOK
<1>8. AnswersOK'
  BY <1>0, <1>1, <1>2, AnswersKept
<1> QED BY <1>3, <1>4, <1>5, <1>6, <1>8 DEF IInv

\* A step in which a command writes to the entry, the work directory or the harness of its run.
LEMMA Writes ==
  ASSUME IInv, NEW p \in Procs, NEW r \in Runs, proc[p].run = r,
         Shape', UNCHANGED <<service, clock, shared, crossed, answers>>, crashed \subseteq crashed',
         \A q \in Procs \ {p} : proc'[q] = proc[q],
         \A o \in Runs \ {r} : vault'[o] = vault[o] /\ child'[o] = child[o] /\ work'[o] = work[o],
         vault[r].dir => vault'[r].dir,
         proc[p].pc \in RunPcs \/ RunSame(r),
         CommandOK(p)', EntryOK(r)',
         proc'[p].pc \in RunPcs => proc[p].pc \in RunPcs /\ proc'[p].run = r,
         proc'[p].run \in {r, None},
         Solo(r)' => OneBody(r)'
  PROVE  IInv'
<1>0. /\ Shape /\ RunsApart /\ OneBodyOK /\ AnswersOK
      /\ \A q \in Procs : CommandOK(q)
      /\ \A o \in Runs : EntryOK(o)
  BY DEF IInv
<1>1. ServiceGrows
  BY <1>0 DEF ServiceGrows, Shape
<1>2. \A q \in Procs : CommandOK(q)'
  BY <1>0, <1>1, OthersKnow DEF RunSame
<1>3. RunsApart'
  BY <1>0, ApartKept
<1>4. \A o \in Runs : EntryOK(o)'
  <2>1. ASSUME NEW o \in Runs, o # r PROVE EntryOK(o)'
    <3>1. vault'[o] = vault[o] /\ child'[o] = child[o]
      BY <2>1
    <3> QED BY <1>0, <1>1, <3>1, EntryKept
  <2> QED BY <2>1
<1>5. OneBodyOK'
  <2>1. ASSUME NEW o \in Runs, o # r PROVE Solo(o)' => OneBody(o)'
    <3>1. \A q \in Procs : proc'[q].run = o => proc'[q] = proc[q]
      BY <2>1, RunnerAssumption
    <3>2. vault'[o].signed = vault[o].signed /\ vault'[o].preview = vault[o].preview
      BY <2>1
    <3>3. /\ shared[o] \subseteq shared'[o] /\ crossed \subseteq crossed'
          /\ service'.stored[o] = service.stored[o]
      OBVIOUS
    <3> QED BY <1>0, <3>1, <3>2, <3>3, OneBodyKept
  <2> QED BY <2>1 DEF OneBodyOK
<1>7. AnswersOK'
  BY <1>0, <1>1, AnswersKept
<1> QED BY <1>2, <1>3, <1>4, <1>5, <1>7 DEF IInv

LEMMA TickOK ==
  ASSUME IInv, Tick
  PROVE  IInv'
<1>0. /\ Shape /\ RunsApart /\ OneBodyOK /\ AnswersOK
      /\ \A q \in Procs : CommandOK(q)
      /\ \A r \in Runs : EntryOK(r)
  BY DEF IInv
<1>1. UNCHANGED <<policy, vault, work, child, proc, service, crashed, shared, crossed, answers>>
  BY DEF Tick, record, history, files
<1>2. ServiceGrows
  BY <1>0, <1>1 DEF ServiceGrows, Shape, Tick
<1>3. Shape'
  <2>1. left' \in [Kinds -> Nat]
    BY <1>0, Spending DEF Tick, Kinds
  <2>2. service.previews \subseteq Entries'
    BY <1>0, <1>2, BodiesGrow DEF Shape, Entries
  <2> QED BY <1>0, <1>1, <1>2, <2>1, <2>2 DEF Shape, ServiceGrows
<1>4. \A q \in Procs : CommandOK(q)'
  BY <1>0, <1>1, <1>2, StillKnows DEF RunSame
<1>5. RunsApart'
  BY <1>0, <1>1, ApartKept
<1>6. \A r \in Runs : EntryOK(r)'
  BY <1>0, <1>1, <1>2, EntryKept
<1>7. OneBodyOK'
  <2>1. \A r \in Runs : Solo(r)' => OneBody(r)'
    BY <1>0, <1>1, OneBodyKept
  <2> QED BY <2>1 DEF OneBodyOK
<1>9. AnswersOK'
  BY <1>0, <1>1, <1>2, AnswersKept
<1> QED BY <1>3, <1>4, <1>5, <1>6, <1>7, <1>9 DEF IInv

\* A command that gives up, or is done, having written no file of a run.
LEMMA GivesUp ==
  ASSUME IInv, NEW p \in Procs, Ends(p), UNCHANGED <<record, service, shared, crossed, answers>>,
         crashed \subseteq crashed', clock' = clock,
         left' \in [Kinds -> Nat], policy' \in {None, Torn} \cup Policies,
         proc[p].pc # "harness"
  PROVE  IInv'
<1>0. Shape /\ clock \in Nat
  BY DEF IInv, Shape
<1>1. UNCHANGED <<vault, work, child, shared>>
  BY DEF record
<1>2. Shape'
  BY <1>0, <1>1, Ending DEF Shape, Entries, Bodies
<1>3. proc'[p] = Idle /\ Idle.pc = "idle" /\ Idle.run = None
  BY <1>0, Ending
<1>4. CommandOK(p)'
  BY <1>3 DEF CommandOK, Pcs, RunPcs, PreviewPcs, SubmitPcs
<1>5. \A q \in Procs \ {p} : proc'[q] = proc[q]
  BY <1>0, Ending
<1>6. proc'[p].pc \notin RunPcs /\ proc'[p].run \notin Runs
  BY <1>3, RunnerAssumption DEF RunPcs
<1> QED BY <1>0, <1>2, <1>4, <1>5, <1>6, OnlyMoves

-----------------------------------------------------------------------------
(* The home.                                                                 *)
LEMMA HomeSteps ==
  ASSUME IInv, NEW p \in Procs,
         InitHome(p) \/ EditPolicy(p) \/ SavePolicy(p) \/ MakePlan(p) \/ SavePlan(p)
  PROVE  IInv'
<1>0. Shape /\ CommandOK(p) /\ clock \in Nat
  BY DEF IInv, Shape
<1>1. /\ UNCHANGED <<record, service, shared, crossed, answers>> /\ clock' = clock
      /\ UNCHANGED <<vault, work, child, shared>> /\ crashed \subseteq crashed'
  BY DEF InitHome, EditPolicy, SavePolicy, MakePlan, SavePlan, files, record, history
<1>2. left' \in [Kinds -> Nat]
  <2>1. left' = left \/ \E k \in Kinds : Spend(k)
    BY DEF InitHome, EditPolicy, SavePolicy, MakePlan, SavePlan, Begins, Kinds
  <2> QED BY <1>0, <2>1, Spending DEF Shape
<1>3. DefaultPolicy \in Policies
  BY DEF DefaultPolicy, Policies
<1>4. policy' \in {None, Torn} \cup Policies
  <2>1. CASE SavePolicy(p)
    BY <1>0, <2>1 DEF SavePolicy, CommandOK, At
  <2>2. CASE ~SavePolicy(p)
    BY <1>0, <1>3, <2>2 DEF InitHome, EditPolicy, MakePlan, SavePlan, files, Shape
  <2> QED BY <2>1, <2>2
<1>5. ASSUME proc' = proc PROVE IInv'
  <2>1. Shape'
    BY <1>0, <1>1, <1>2, <1>4, <1>5 DEF Shape, Entries, Bodies
  <2>2. CommandOK(p)'
    BY <1>0, <1>1, <1>5 DEF CommandOK, Bodies
  <2>3. proc[p].run \in Runs => proc[p].pc \in Pcs
    BY <1>0 DEF CommandOK
  <2> QED BY <1>0, <1>1, <1>5, <2>1, <2>2, OnlyMoves
<1>6. ASSUME Ends(p), proc[p].pc # "harness" PROVE IInv'
  BY <1>1, <1>2, <1>4, <1>6, GivesUp
<1>7. CASE InitHome(p) \/ MakePlan(p)
  BY <1>5, <1>7 DEF InitHome, MakePlan
<1>8. CASE SavePolicy(p) \/ SavePlan(p)
  BY <1>6, <1>8 DEF SavePolicy, SavePlan, At
<1>9. CASE EditPolicy(p)
  <2>1. CASE Ends(p)
    BY <1>6, <1>9, <2>1 DEF EditPolicy, Begins
  <2>2. CASE ~Ends(p)
    <3>0. PICK new \in Edited(LoadedPolicy) : Goes(p, [Idle EXCEPT !.pc = "edit", !.policy = new])
      BY <1>9, <2>2 DEF EditPolicy
    <3>1. PICK c : c = [Idle EXCEPT !.pc = "edit", !.policy = new] /\ Goes(p, c)
      BY <3>0
    <3>2. c.pc = "edit" /\ c.run = None /\ c.policy = new /\ IsCommand(c)
      BY <3>1 DEF Idle, IsCommand
    <3>3. new \in Policies
      <4>1. LoadedPolicy \in Policies
        BY <1>0, <1>3, <1>9, <2>2 DEF LoadedPolicy, EditPolicy, Shape
      <4> QED BY <4>1 DEF Edited, Policies
    <3>4. /\ proc' = [q \in Procs |-> proc'[q]] /\ \A q \in Procs : IsCommand(proc'[q])
          /\ proc'[p] = c /\ \A q \in Procs \ {p} : proc'[q] = proc[q]
      BY <1>0, <3>1, <3>2, Going
    <3>5. Shape'
      BY <1>0, <1>1, <1>2, <1>4, <3>4 DEF Shape, Entries, Bodies
    <3>6. CommandOK(p)'
      <4>1. proc'[p].pc = "edit" /\ proc'[p].run = None /\ proc'[p].policy \in Policies
        BY <3>2, <3>3, <3>4
      <4> QED BY <4>1 DEF CommandOK, Pcs, RunPcs, PreviewPcs, SubmitPcs
    <3>7. proc'[p].pc \notin RunPcs /\ proc'[p].run \notin Runs /\ proc[p].pc # "harness"
      BY <1>9, <3>2, <3>4, RunnerAssumption DEF RunPcs, EditPolicy, Begins
    <3> QED BY <1>0, <1>1, <3>4, <3>5, <3>6, <3>7, OnlyMoves
  <2> QED BY <2>1, <2>2
<1> QED BY <1>7, <1>8, <1>9

-----------------------------------------------------------------------------
(* A run.                                                                    *)
LEMMA RunStartOK ==
  ASSUME IInv, NEW p \in Procs, RunStart(p)
  PROVE  IInv'
<1>0. /\ Shape /\ RunsApart /\ OneBodyOK /\ AnswersOK /\ clock \in Nat
      /\ \A q \in Procs : CommandOK(q)
      /\ \A o \in Runs : EntryOK(o)
  BY DEF IInv, Shape
<1>1. /\ UNCHANGED <<files, record, service, clock>>
      /\ UNCHANGED <<policy, vault, work, child, shared, crossed, crashed, answers>>
      /\ proc[p].pc = "idle" /\ Fresh # {}
  BY DEF RunStart, files, record, history, Begins
<1>2. left' \in [Kinds -> Nat]
  BY <1>0, Spending DEF RunStart, Begins, Kinds
<1>3. CASE Ends(p)
  BY <1>0, <1>1, <1>2, <1>3, GivesUp DEF Shape
<1>4. CASE ~Ends(p)
  <2>0. PICK r : r = CHOOSE o \in Fresh : TRUE
    OBVIOUS
  <2>1. PICK fromPlan \in BOOLEAN, a \in Asks :
          Goes(p, [Idle EXCEPT !.pc = "manifest", !.run = r, !.ask = a, !.policy = LoadedPolicy,
                               !.planned = IF fromPlan THEN plan ELSE None])
    BY <1>4, <2>0 DEF RunStart
  <2>2. r \in Runs /\ ~vault[r].dir /\ ~Busy(r)
    <3>1. r \in Fresh
      BY <1>1, <2>0
    <3> QED BY <3>1 DEF Fresh
  <2>3. PICK planned : planned = IF fromPlan THEN plan ELSE None
    OBVIOUS
  <2>4. PICK c : c = [Idle EXCEPT !.pc = "manifest", !.run = r, !.ask = a, !.policy = LoadedPolicy,
                                  !.planned = planned] /\ Goes(p, c)
    BY <2>1, <2>3
  <2>5. c.pc = "manifest" /\ c.run = r /\ c.ask = a /\ IsCommand(c)
    BY <2>4 DEF Idle, IsCommand
  <2>6. /\ proc' = [q \in Procs |-> proc'[q]] /\ \A q \in Procs : IsCommand(proc'[q])
        /\ proc'[p] = c /\ \A q \in Procs \ {p} : proc'[q] = proc[q]
    BY <1>0, <2>4, <2>5, Going
  <2>7. Shape'
    BY <1>0, <1>1, <1>2, <2>6 DEF Shape, Entries, Bodies
  <2>8. \A q \in Procs : proc[q].run # r
    BY <1>0, <2>2, RunnerAssumption DEF Busy, CommandOK, Idle
  <2>9. ServiceGrows
    BY <1>0, <1>1 DEF ServiceGrows
  <2>10. CommandOK(p)'
    <3>1. proc'[p].pc = "manifest" /\ proc'[p].run = r /\ proc'[p].ask \in Asks
      BY <2>5, <2>6
    <3> QED BY <1>1, <2>2, <3>1 DEF CommandOK, Pcs, RunPcs, PreviewPcs, SubmitPcs
  <2>11. \A q \in Procs : CommandOK(q)'
    BY <1>0, <1>1, <2>6, <2>9, <2>10, OthersKnow DEF RunSame
  <2>12. RunsApart'
    BY <1>0, <2>5, <2>6, <2>8 DEF RunsApart
  <2>13. \A o \in Runs : EntryOK(o)'
    BY <1>0, <1>1, <2>9, EntryKept
  <2>14. OneBodyOK'
    <3>1. ASSUME NEW o \in Runs, o # r PROVE Solo(o)' => OneBody(o)'
      <4>1. \A q \in Procs : proc'[q].run = o => proc'[q] = proc[q] /\ proc[q].run = o
        BY <2>5, <2>6, <3>1
      <4>2. /\ OneBodyOK /\ shared[o] \subseteq shared'[o] /\ crossed \subseteq crossed'
            /\ vault'[o].signed = vault[o].signed /\ vault'[o].preview = vault[o].preview
            /\ service'.stored[o] = service.stored[o]
        BY <1>0, <1>1
      <4> QED BY <4>1, <4>2, OneBodyKept
    <3>2. Solo(r)' => OneBody(r)'
      <4>1. Solo(r)' => OneBody(r)
        BY <1>0, <1>1, <2>2 DEF Solo, OneBodyOK
      <4>2. \A q \in Procs : proc'[q].run = r => q = p
        BY <2>6, <2>8
      <4>3. proc'[p].pc = "manifest"
        BY <2>5, <2>6
      <4>4. UNCHANGED <<vault, service, shared>>
        BY <1>1
      <4> QED BY <4>1, <4>2, <4>3, <4>4 DEF OneBody
    <3> QED BY <3>1, <3>2 DEF OneBodyOK
    <2>16. AnswersOK'
    BY <1>0, <1>1, <2>9, AnswersKept
  <2> QED BY <2>7, <2>11, <2>12, <2>13, <2>14, <2>16 DEF IInv
<1> QED BY <1>3, <1>4

\* The entry and the harness of a run that is launched.
LEMMA MakesDir ==
  ASSUME Shape, NEW r \in Runs, vault' = [vault EXCEPT ![r].dir = TRUE]
  PROVE  /\ vault' = [o \in Runs |-> vault'[o]] /\ \A o \in Runs : IsEntry(vault'[o])
         /\ vault'[r].dir /\ \A o \in Runs \ {r} : vault'[o] = vault[o]
         /\ vault'[r].draft = vault[r].draft /\ vault'[r].input = vault[r].input
         /\ vault'[r].meta = vault[r].meta /\ vault'[r].signed = vault[r].signed
         /\ vault'[r].preview = vault[r].preview /\ vault'[r].receipt = vault[r].receipt
<1>1. PICK yes : yes = TRUE
  OBVIOUS
<1>2. vault' = [vault EXCEPT ![r].dir = yes]
  BY <1>1
<1>3. vault = [o \in Runs |-> vault[o]] /\ \A o \in Runs : IsEntry(vault[o])
  BY DEF Shape
<1>4. vault'[r].dir = yes
  BY <1>2, <1>3 DEF IsEntry
<1>5. IsEntry(vault'[r])
  BY <1>2, <1>3 DEF IsEntry
<1>6. vault' = [o \in Runs |-> vault'[o]] /\ \A o \in Runs \ {r} : vault'[o] = vault[o]
  BY <1>2, <1>3
<1>7. /\ vault'[r].draft = vault[r].draft /\ vault'[r].input = vault[r].input
      /\ vault'[r].meta = vault[r].meta /\ vault'[r].signed = vault[r].signed
      /\ vault'[r].preview = vault[r].preview /\ vault'[r].receipt = vault[r].receipt
  BY <1>2, <1>3 DEF IsEntry
<1>8. vault'[r].dir
  BY <1>1, <1>4
<1> QED BY <1>3, <1>5, <1>6, <1>7, <1>8

LEMMA Starts ==
  ASSUME Shape, NEW r \in Runs, child' = [child EXCEPT ![r].state = "running"]
  PROVE  /\ child' = [o \in Runs |-> child'[o]] /\ \A o \in Runs : IsHarness(child'[o])
         /\ child'[r].state = "running" /\ \A o \in Runs \ {r} : child'[o] = child[o]
<1>1. child = [o \in Runs |-> child[o]] /\ \A o \in Runs : IsHarness(child[o])
  BY DEF Shape
<1>2. child'[r].state = "running" /\ child'[r].lines = child[r].lines
  BY <1>1 DEF IsHarness
<1>3. IsHarness(child'[r])
  BY <1>1, <1>2 DEF IsHarness
<1>4. child' = [o \in Runs |-> child'[o]] /\ \A o \in Runs \ {r} : child'[o] = child[o]
  BY <1>1
<1> QED BY <1>1, <1>2, <1>3, <1>4

LEMMA RunLaunchOK ==
  ASSUME IInv, NEW p \in Procs, RunLaunch(p)
  PROVE  IInv'
<1>0. /\ Shape /\ OneBodyOK /\ CommandOK(p) /\ clock \in Nat
      /\ \A o \in Runs : EntryOK(o)
  BY DEF IInv, Shape
<1>1. /\ UNCHANGED <<files, service, clock, left, history>>
      /\ UNCHANGED <<policy, service, shared, crossed, crashed, answers>>
      /\ proc[p].pc = "manifest"
  BY DEF RunLaunch, files, history, At
<1>2. CASE Ends(p) /\ UNCHANGED record
  BY <1>0, <1>1, <1>2, GivesUp DEF Shape
<1>3. CASE ~(Ends(p) /\ UNCHANGED record)
  <2>1. PICK r : r = proc[p].run
    OBVIOUS
  <2>2. /\ work' = [work EXCEPT ![r] = TRUE]
        /\ vault' = [vault EXCEPT ![r].dir = TRUE]
        /\ child' = [child EXCEPT ![r].state = "running"]
        /\ Steps(p, "harness")
    BY <1>3, <2>1 DEF RunLaunch
  <2>3. r \in Runs /\ ~vault[r].dir /\ vault[r] = NoEntry /\ child[r] = NoHarness
    BY <1>0, <1>1, <2>1 DEF CommandOK, RunPcs, EntryOK
  <2>4. /\ vault' = [o \in Runs |-> vault'[o]] /\ \A o \in Runs : IsEntry(vault'[o])
        /\ vault'[r].dir /\ vault'[r].draft = None /\ vault'[r].input = None
        /\ vault'[r].meta = None /\ vault'[r].signed = None /\ vault'[r].preview = None
        /\ vault'[r].receipt = None
        /\ \A o \in Runs \ {r} : vault'[o] = vault[o]
    <3>1. /\ vault' = [o \in Runs |-> vault'[o]] /\ \A o \in Runs : IsEntry(vault'[o])
          /\ vault'[r].dir /\ \A o \in Runs \ {r} : vault'[o] = vault[o]
          /\ vault'[r].draft = vault[r].draft /\ vault'[r].input = vault[r].input
          /\ vault'[r].meta = vault[r].meta /\ vault'[r].signed = vault[r].signed
          /\ vault'[r].preview = vault[r].preview /\ vault'[r].receipt = vault[r].receipt
      BY <1>0, <2>2, <2>3, MakesDir
    <3>2. /\ vault[r].draft = None /\ vault[r].input = None /\ vault[r].meta = None
          /\ vault[r].signed = None /\ vault[r].preview = None /\ vault[r].receipt = None
      BY <2>3 DEF NoEntry
    <3> QED BY <3>1, <3>2
  <2>5. /\ child' = [o \in Runs |-> child'[o]] /\ \A o \in Runs : IsHarness(child'[o])
        /\ child'[r].state = "running" /\ \A o \in Runs \ {r} : child'[o] = child[o]
    BY <1>0, <2>2, <2>3, Starts
  <2>6. /\ work' \in [Runs -> BOOLEAN]
        /\ \A o \in Runs \ {r} : work'[o] = work[o]
    BY <1>0, <2>2 DEF Shape
  <2>7. /\ proc' = [q \in Procs |-> proc'[q]] /\ \A q \in Procs : IsCommand(proc'[q])
        /\ \A q \in Procs \ {p} : proc'[q] = proc[q]
        /\ proc'[p].pc = "harness" /\ proc'[p].run = r /\ proc'[p].ask = proc[p].ask
    BY <1>0, <2>1, <2>2, Stepping
  <2>8. Shape'
    BY <1>0, <1>1, <2>4, <2>5, <2>6, <2>7 DEF Shape, Entries, Bodies
  <2>9. CommandOK(p)'
    BY <1>0, <1>1, <2>3, <2>4, <2>5, <2>7 DEF CommandOK, Pcs, RunPcs, PreviewPcs, SubmitPcs
  <2>10. EntryOK(r)'
    BY <2>4 DEF EntryOK, Drawn, Ready
  <2>11. Solo(r)' => OneBody(r)'
    <3>1. vault'[r].signed = vault[r].signed /\ vault'[r].preview = vault[r].preview
      BY <2>3, <2>4 DEF NoEntry
    <3>2. \A q \in Procs : proc'[q].run = r =>
             /\ proc[q].run = r
             /\ proc'[q] = proc[q] \/ proc'[q].pc \notin PreviewPcs \cup {"submit"}
      BY <2>1, <2>7 DEF PreviewPcs
    <3>3. /\ OneBodyOK /\ shared[r] \subseteq shared'[r] /\ crossed \subseteq crossed'
          /\ service'.stored[r] = service.stored[r]
      BY <1>0, <1>1
    <3>4. r \in Runs
      BY <2>3
    <3> QED BY <3>1, <3>2, <3>3, <3>4, OneBodyKept
  <2> QED BY <1>1, <2>1, <2>3, <2>4, <2>5, <2>6, <2>7, <2>8, <2>9, <2>10, <2>11, Writes DEF RunPcs
<1> QED BY <1>2, <1>3

\* Whatever a harness does, it does before its draft is written.
LEMMA HarnessMoves ==
  ASSUME IInv, NEW p \in Procs, proc[p].pc = "harness", NEW h, IsHarness(h), h.state # "none",
         child' = [child EXCEPT ![proc[p].run] = h],
         UNCHANGED <<files, vault, work, proc, service, clock, history>>, left' \in [Kinds -> Nat]
  PROVE  IInv'
<1>0. /\ Shape /\ OneBodyOK /\ CommandOK(p) /\ clock \in Nat
      /\ \A o \in Runs : EntryOK(o)
  BY DEF IInv, Shape
<1>1. PICK r : r = proc[p].run
  OBVIOUS
<1>2. r \in Runs /\ vault[r].dir /\ vault[r].draft = None
  BY <1>0, <1>1 DEF CommandOK, RunPcs
<1>3. UNCHANGED <<policy, vault, work, proc, service, clock, shared, crossed, crashed, answers>>
  BY DEF files, history
<1>4. /\ child' = [o \in Runs |-> child'[o]] /\ \A o \in Runs : IsHarness(child'[o])
      /\ child'[r] = h /\ \A o \in Runs \ {r} : child'[o] = child[o]
  BY <1>0, <1>1, <1>2 DEF Shape
<1>5. Shape'
  BY <1>0, <1>3, <1>4 DEF Shape, Entries, Bodies
<1>6. CommandOK(p)'
  BY <1>0, <1>1, <1>3, <1>4 DEF CommandOK, RunPcs, PreviewPcs, SubmitPcs
<1>7. EntryOK(r)'
  <2>1. EntryOK(r) /\ Bodies' = Bodies
    BY <1>0, <1>2, <1>3 DEF Bodies
  <2>2. ~Ready(vault[r].draft)
    BY <1>2 DEF Ready
  <2> QED BY <1>2, <1>3, <2>1, <2>2 DEF EntryOK, Drawn
<1>8. Solo(r)' => OneBody(r)'
  BY <1>0, <1>2, <1>3, OneBodyKept
<1>9. \A o \in Runs \ {r} : vault'[o] = vault[o] /\ child'[o] = child[o] /\ work'[o] = work[o]
  BY <1>3, <1>4
<1> QED BY <1>1, <1>2, <1>3, <1>5, <1>6, <1>7, <1>8, <1>9, Writes DEF RunPcs

LEMMA HarnessSteps ==
  ASSUME IInv, NEW p \in Procs, TheHarness(p) \/ KillHarness(p)
  PROVE  IInv'
<1>0. Shape /\ CommandOK(p) /\ left \in [Kinds -> Nat]
  BY DEF IInv, Shape
<1>1. PICK h : h = child[proc[p].run]
  OBVIOUS
<1>2. proc[p].pc = "harness"
  BY DEF TheHarness, KillHarness, HarnessRefuses, HarnessConnects, HarnessAttempt, HarnessResult,
         HarnessContext, HarnessCrashes, HarnessStrays, Running, At
<1>3. IsHarness(h) /\ h.state # "none"
  BY <1>0, <1>1, <1>2 DEF Shape, CommandOK, RunPcs
<1>4. ASSUME NEW g, IsHarness(g), g.state # "none", Harness(p, g) PROVE IInv'
  BY <1>0, <1>2, <1>4, HarnessMoves DEF Harness
<1>5. ASSUME NEW g, NEW b, g = [h EXCEPT !.bad = b] PROVE IsHarness(g) /\ g.state = h.state
  BY <1>3, <1>5 DEF IsHarness
<1>6. ASSUME NEW i, IsHarness(i), NEW g, NEW code, g = Exit(i, code) PROVE IsHarness(g) /\ g.state = "exited"
  BY <1>6 DEF IsHarness, Exit
<1>7. CASE HarnessRefuses(p)
  <2>1. PICK g : (\E code \in {2, 3} : g = Exit(h, code)) /\ Harness(p, g)
    BY <1>1, <1>7 DEF HarnessRefuses
  <2> QED BY <1>3, <1>4, <1>6, <2>1
<1>8. CASE HarnessConnects(p)
  <2>1. PICK no : no = FALSE
    OBVIOUS
  <2>2. PICK g : g = [h EXCEPT !.at = "attempts", !.bad = no] /\ Harness(p, g)
    BY <1>1, <1>8, <2>1 DEF HarnessConnects
  <2>3. IsHarness(g) /\ g.state = h.state
    BY <1>3, <2>2 DEF IsHarness
  <2> QED BY <1>3, <1>4, <2>2, <2>3
<1>9. CASE HarnessAttempt(p)
  <2>1. PICK s \in {"succeeded", "failed"} : Harness(p, [h EXCEPT !.lines[s] = @ + 1])
    BY <1>1, <1>9 DEF HarnessAttempt
  <2>2. PICK l : l = [h.lines EXCEPT ![s] = @ + 1]
    OBVIOUS
  <2>3. l \in [Statuses -> Nat]
    <3>1. s \in Statuses /\ h.lines \in [Statuses -> Nat]
      BY <1>3 DEF IsHarness, Statuses
    <3> QED BY <2>2, <3>1
  <2>4. PICK g : g = [h EXCEPT !.lines = l] /\ Harness(p, g)
    BY <2>1, <2>2
  <2>5. IsHarness(g) /\ g.state = h.state
    BY <1>3, <2>3, <2>4 DEF IsHarness
  <2> QED BY <1>3, <1>4, <2>4, <2>5
<1>10. CASE HarnessResult(p)
  <2>1. PICK g : g = [h EXCEPT !.at = "result", !.result = "valid"] /\ Harness(p, g)
    BY <1>1, <1>10 DEF HarnessResult
  <2>2. IsHarness(g) /\ g.state = h.state
    BY <1>3, <2>1 DEF IsHarness
  <2> QED BY <1>3, <1>4, <2>1, <2>2
<1>11. CASE HarnessContext(p)
  <2>1. PICK c : Harness(p, Exit([h EXCEPT !.context = c], 0))
    BY <1>1, <1>11 DEF HarnessContext
  <2>2. PICK i : i = [h EXCEPT !.context = c]
    OBVIOUS
  <2>3. IsHarness(i)
    BY <1>3, <2>2 DEF IsHarness
  <2>4. PICK g : g = Exit(i, 0) /\ Harness(p, g)
    BY <2>1, <2>2
  <2> QED BY <1>4, <1>6, <2>3, <2>4
<1>12. CASE HarnessCrashes(p)
  <2>1. PICK b : Harness(p, Exit([h EXCEPT !.bad = b], 1))
    BY <1>1, <1>12 DEF HarnessCrashes
  <2>2. PICK i : i = [h EXCEPT !.bad = b]
    OBVIOUS
  <2>3. PICK g : g = Exit(i, 1) /\ Harness(p, g)
    BY <2>1, <2>2
  <2> QED BY <1>4, <1>5, <1>6, <2>2, <2>3
<1>13. CASE HarnessStrays(p)
  <2>1. PICK g \in Strays : child' = [child EXCEPT ![proc[p].run] = g]
    BY <1>13 DEF HarnessStrays
  <2>2. IsHarness(g) /\ g.state = "exited"
    <3>1. [Statuses -> 0..1] \subseteq [Statuses -> Nat]
      OBVIOUS
    <3> QED BY <2>1, <3>1 DEF Strays, IsHarness
  <2>3. left' \in [Kinds -> Nat]
    BY <1>0, <1>13, Spending DEF HarnessStrays, Kinds
  <2> QED BY <1>2, <1>13, <2>1, <2>2, <2>3, HarnessMoves DEF HarnessStrays
<1>14. CASE KillHarness(p)
  <2>1. PICK yes : yes = TRUE
    OBVIOUS
  <2>2. PICK b : Harness(p, IF h.state = "running"
                            THEN [h EXCEPT !.state = "exited", !.timedOut = yes, !.bad = b]
                            ELSE [h EXCEPT !.timedOut = yes])
    BY <1>1, <1>14, <2>1 DEF KillHarness
  <2>3. CASE h.state = "running"
    <3>1. PICK g : g = [h EXCEPT !.state = "exited", !.timedOut = yes, !.bad = b] /\ Harness(p, g)
      BY <2>2, <2>3
    <3>2. IsHarness(g) /\ g.state = "exited"
      BY <1>3, <3>1 DEF IsHarness
    <3> QED BY <1>4, <3>1, <3>2
  <2>4. CASE h.state # "running"
    <3>1. PICK g : g = [h EXCEPT !.timedOut = yes] /\ Harness(p, g)
      BY <2>2, <2>4
    <3>2. IsHarness(g) /\ g.state = h.state
      BY <1>3, <3>1 DEF IsHarness
    <3> QED BY <1>3, <1>4, <3>1, <3>2
  <2> QED BY <2>3, <2>4
<1> QED BY <1>7, <1>8, <1>9, <1>10, <1>11, <1>12, <1>13, <1>14 DEF TheHarness

-----------------------------------------------------------------------------
(* What is recorded of a run.                                                *)

\* A file of an entry is written, and nothing else changes.
Written(r) ==
  /\ vault' = [o \in Runs |-> vault'[o]] /\ \A o \in Runs : IsEntry(vault'[o])
  /\ vault'[r].dir = vault[r].dir /\ \A o \in Runs \ {r} : vault'[o] = vault[o]
RunPartStays(r) == vault'[r].input = vault[r].input /\ vault'[r].draft = vault[r].draft
BodyStays(r) == vault'[r].signed = vault[r].signed /\ vault'[r].preview = vault[r].preview

LEMMA Rewrites ==
  ASSUME Shape, NEW r \in Runs, NEW e, IsEntry(e), e.dir = vault[r].dir,
         vault' = [vault EXCEPT ![r] = e]
  PROVE  Written(r) /\ vault'[r] = e
  BY DEF Shape, Written

LEMMA WritesRunFile ==
  ASSUME Shape, NEW r \in Runs, NEW v
  PROVE  /\ vault' = [vault EXCEPT ![r].input = v] =>
              /\ Written(r) /\ BodyStays(r) /\ vault'[r].input = v
              /\ vault'[r].draft = vault[r].draft /\ vault'[r].meta = vault[r].meta
              /\ vault'[r].receipt = vault[r].receipt
         /\ vault' = [vault EXCEPT ![r].draft = v] =>
              /\ Written(r) /\ BodyStays(r) /\ vault'[r].draft = v
              /\ vault'[r].input = vault[r].input /\ vault'[r].meta = vault[r].meta
              /\ vault'[r].receipt = vault[r].receipt
         /\ vault' = [vault EXCEPT ![r].meta = v] =>
              /\ Written(r) /\ BodyStays(r) /\ RunPartStays(r) /\ vault'[r].meta = v
              /\ vault'[r].receipt = vault[r].receipt
<1>0. vault = [o \in Runs |-> vault[o]] /\ \A o \in Runs : IsEntry(vault[o])
  BY DEF Shape
<1>1. ASSUME vault' = [vault EXCEPT ![r].input = v]
      PROVE  /\ Written(r) /\ BodyStays(r) /\ vault'[r].input = v
             /\ vault'[r].draft = vault[r].draft /\ vault'[r].meta = vault[r].meta
             /\ vault'[r].receipt = vault[r].receipt
  <2>1. PICK e : e = [vault[r] EXCEPT !.input = v]
    OBVIOUS
  <2>2. /\ IsEntry(e) /\ e.input = v
        /\ e.dir = vault[r].dir /\ e.draft = vault[r].draft /\ e.meta = vault[r].meta
        /\ e.signed = vault[r].signed /\ e.preview = vault[r].preview /\ e.receipt = vault[r].receipt
    BY <1>0, <2>1 DEF IsEntry
  <2>3. vault' = [vault EXCEPT ![r] = e]
    BY <1>1, <2>1
  <2>4. Written(r) /\ vault'[r] = e
    BY <2>2, <2>3, Rewrites
  <2> QED BY <2>2, <2>4 DEF BodyStays
<1>2. ASSUME vault' = [vault EXCEPT ![r].draft = v]
      PROVE  /\ Written(r) /\ BodyStays(r) /\ vault'[r].draft = v
             /\ vault'[r].input = vault[r].input /\ vault'[r].meta = vault[r].meta
             /\ vault'[r].receipt = vault[r].receipt
  <2>1. PICK e : e = [vault[r] EXCEPT !.draft = v]
    OBVIOUS
  <2>2. /\ IsEntry(e) /\ e.draft = v
        /\ e.dir = vault[r].dir /\ e.input = vault[r].input /\ e.meta = vault[r].meta
        /\ e.signed = vault[r].signed /\ e.preview = vault[r].preview /\ e.receipt = vault[r].receipt
    BY <1>0, <2>1 DEF IsEntry
  <2>3. vault' = [vault EXCEPT ![r] = e]
    BY <1>2, <2>1
  <2>4. Written(r) /\ vault'[r] = e
    BY <2>2, <2>3, Rewrites
  <2> QED BY <2>2, <2>4 DEF BodyStays
<1>3. ASSUME vault' = [vault EXCEPT ![r].meta = v]
      PROVE  /\ Written(r) /\ BodyStays(r) /\ RunPartStays(r) /\ vault'[r].meta = v
             /\ vault'[r].receipt = vault[r].receipt
  <2>1. PICK e : e = [vault[r] EXCEPT !.meta = v]
    OBVIOUS
  <2>2. /\ IsEntry(e) /\ e.meta = v
        /\ e.dir = vault[r].dir /\ e.input = vault[r].input /\ e.draft = vault[r].draft
        /\ e.signed = vault[r].signed /\ e.preview = vault[r].preview /\ e.receipt = vault[r].receipt
    BY <1>0, <2>1 DEF IsEntry
  <2>3. vault' = [vault EXCEPT ![r] = e]
    BY <1>3, <2>1
  <2>4. Written(r) /\ vault'[r] = e
    BY <2>2, <2>3, Rewrites
  <2> QED BY <2>2, <2>4 DEF BodyStays, RunPartStays
<1> QED BY <1>1, <1>2, <1>3

LEMMA WritesBodyFile ==
  ASSUME Shape, NEW r \in Runs, NEW v
  PROVE  /\ vault' = [vault EXCEPT ![r].signed = v] =>
              /\ Written(r) /\ RunPartStays(r) /\ vault'[r].meta = vault[r].meta
              /\ vault'[r].signed = v /\ vault'[r].preview = vault[r].preview
              /\ vault'[r].receipt = vault[r].receipt
         /\ vault' = [vault EXCEPT ![r].preview = v] =>
              /\ Written(r) /\ RunPartStays(r) /\ vault'[r].meta = vault[r].meta
              /\ vault'[r].preview = v /\ vault'[r].signed = vault[r].signed
              /\ vault'[r].receipt = vault[r].receipt
         /\ vault' = [vault EXCEPT ![r].receipt = v] =>
              /\ Written(r) /\ RunPartStays(r) /\ vault'[r].meta = vault[r].meta
              /\ BodyStays(r) /\ vault'[r].receipt = v
<1>0. vault = [o \in Runs |-> vault[o]] /\ \A o \in Runs : IsEntry(vault[o])
  BY DEF Shape
<1>1. ASSUME vault' = [vault EXCEPT ![r].signed = v]
      PROVE  /\ Written(r) /\ RunPartStays(r) /\ vault'[r].meta = vault[r].meta
             /\ vault'[r].signed = v /\ vault'[r].preview = vault[r].preview
             /\ vault'[r].receipt = vault[r].receipt
  <2>1. PICK e : e = [vault[r] EXCEPT !.signed = v]
    OBVIOUS
  <2>2. /\ IsEntry(e) /\ e.signed = v
        /\ e.dir = vault[r].dir /\ e.input = vault[r].input /\ e.draft = vault[r].draft
        /\ e.meta = vault[r].meta /\ e.preview = vault[r].preview /\ e.receipt = vault[r].receipt
    BY <1>0, <2>1 DEF IsEntry
  <2>3. vault' = [vault EXCEPT ![r] = e]
    BY <1>1, <2>1
  <2>4. Written(r) /\ vault'[r] = e
    BY <2>2, <2>3, Rewrites
  <2> QED BY <2>2, <2>4 DEF RunPartStays
<1>2. ASSUME vault' = [vault EXCEPT ![r].preview = v]
      PROVE  /\ Written(r) /\ RunPartStays(r) /\ vault'[r].meta = vault[r].meta
             /\ vault'[r].preview = v /\ vault'[r].signed = vault[r].signed
             /\ vault'[r].receipt = vault[r].receipt
  <2>1. PICK e : e = [vault[r] EXCEPT !.preview = v]
    OBVIOUS
  <2>2. /\ IsEntry(e) /\ e.preview = v
        /\ e.dir = vault[r].dir /\ e.input = vault[r].input /\ e.draft = vault[r].draft
        /\ e.meta = vault[r].meta /\ e.signed = vault[r].signed /\ e.receipt = vault[r].receipt
    BY <1>0, <2>1 DEF IsEntry
  <2>3. vault' = [vault EXCEPT ![r] = e]
    BY <1>2, <2>1
  <2>4. Written(r) /\ vault'[r] = e
    BY <2>2, <2>3, Rewrites
  <2> QED BY <2>2, <2>4 DEF RunPartStays
<1>3. ASSUME vault' = [vault EXCEPT ![r].receipt = v]
      PROVE  /\ Written(r) /\ RunPartStays(r) /\ vault'[r].meta = vault[r].meta
             /\ BodyStays(r) /\ vault'[r].receipt = v
  <2>1. PICK e : e = [vault[r] EXCEPT !.receipt = v]
    OBVIOUS
  <2>2. /\ IsEntry(e) /\ e.receipt = v
        /\ e.dir = vault[r].dir /\ e.input = vault[r].input /\ e.draft = vault[r].draft
        /\ e.meta = vault[r].meta /\ e.signed = vault[r].signed /\ e.preview = vault[r].preview
    BY <1>0, <2>1 DEF IsEntry
  <2>3. vault' = [vault EXCEPT ![r] = e]
    BY <1>3, <2>1
  <2>4. Written(r) /\ vault'[r] = e
    BY <2>2, <2>3, Rewrites
  <2> QED BY <2>2, <2>4 DEF BodyStays, RunPartStays
<1> QED BY <1>1, <1>2, <1>3

LEMMA FirstOfFour ==
  ASSUME NEW d, NEW order, NEW a, NEW b, NEW c, NEW e, order = <<a, b, c, e>>,
         "none" \notin {a, b, c, e}
  PROVE  /\ FirstOf(order, d) \in {"none", a, b, c, e}
         /\ FirstOf(order, d) = "none" <=> d \cap {a, b, c, e} = {}
<1>1. PICK found : found = {i \in DOMAIN order : order[i] \in d}
  OBVIOUS
<1>2. FirstOf(order, d) =
        IF found = {} THEN "none" ELSE order[CHOOSE i \in found : \A j \in found : i <= j]
  BY <1>1 DEF FirstOf
<1>3. DOMAIN order = {1, 2, 3, 4} /\ order[1] = a /\ order[2] = b /\ order[3] = c /\ order[4] = e
  OBVIOUS
<1>4. CASE found = {}
  BY <1>1, <1>2, <1>3, <1>4
<1>5. CASE found # {}
  <2>1. \E i \in found : \A j \in found : i <= j
    <3>1. found \subseteq {1, 2, 3, 4}
      BY <1>1, <1>3
    <3>2. CASE 1 \in found
      <4>1. \A j \in found : 1 <= j
        BY <3>1
      <4> QED BY <3>2, <4>1
    <3>3. CASE 1 \notin found /\ 2 \in found
      BY <3>1, <3>3
    <3>4. CASE 1 \notin found /\ 2 \notin found /\ 3 \in found
      BY <3>1, <3>4
    <3>5. CASE 1 \notin found /\ 2 \notin found /\ 3 \notin found
      <4>1. found = {4}
        BY <1>5, <3>1, <3>5
      <4> QED BY <4>1
    <3> QED BY <3>2, <3>3, <3>4, <3>5
  <2>2. (CHOOSE i \in found : \A j \in found : i <= j) \in found
    BY <2>1
  <2>3. PICK i \in found : FirstOf(order, d) = order[i]
    BY <1>2, <1>5, <2>2
  <2>4. i \in {1, 2, 3, 4} /\ order[i] \in d
    BY <1>1, <1>3, <2>3
  <2> QED BY <1>3, <2>3, <2>4
<1> QED BY <1>4, <1>5

\* The outcome of a run is explained, and a success means that the harness backed it.
LEMMA DraftExplained ==
  ASSUME NEW seen
  PROVE  /\ Draft(seen, Planned).status = "excluded" <=> Draft(seen, Planned).reason # "none"
         /\ Draft(seen, Planned).status = "succeeded" =>
              /\ seen.code = 0 /\ ~seen.timedOut /\ ~seen.egress /\ ~seen.bad /\ ~seen.offSchema
              /\ seen.result = "valid" /\ ~seen.unknown /\ Reported(seen.lines) = Planned
         /\ \E m \in {"excluded", "unobserved"} :
              Draft(seen, Planned).accounting = Accounting(seen.lines, Planned, m)
<1>1. PICK v : v = Verdict(seen)
  OBVIOUS
<1>2. PICK why : why = Unbacked(seen, Planned)
  OBVIOUS
<1>3. PICK o : o = Outcome(seen, Planned)
  OBVIOUS
<1>4. /\ v.status = "excluded" <=> v.reason # "none"
      /\ v.status = "succeeded" => seen.code = 0 /\ ~seen.timedOut /\ ~seen.egress
      /\ v.remainder \in {"excluded", "unobserved"}
      /\ v = [status |-> v.status, reason |-> v.reason, remainder |-> v.remainder]
  <2>1. CASE seen.egress
    BY <1>1, <2>1 DEF Verdict
  <2>2. CASE ~seen.egress /\ seen.timedOut
    BY <1>1, <2>2 DEF Verdict
  <2>3. CASE ~seen.egress /\ ~seen.timedOut
    <3>1. v = ByExitCode(seen.code)
      BY <1>1, <2>3 DEF Verdict
    <3>2. CASE seen.code = 0
      BY <2>3, <3>1, <3>2 DEF ByExitCode
    <3>3. CASE seen.code # 0 /\ seen.code = 2
      BY <3>1, <3>3 DEF ByExitCode
    <3>4. CASE seen.code # 0 /\ seen.code # 2 /\ seen.code = 3
      BY <3>1, <3>4 DEF ByExitCode
    <3>5. CASE seen.code # 0 /\ seen.code # 2 /\ seen.code # 3
      BY <3>1, <3>5 DEF ByExitCode
    <3> QED BY <3>2, <3>3, <3>4, <3>5
  <2> QED BY <2>1, <2>2, <2>3
<1>5. /\ why \in {"none", "attempt_count_mismatch", "result_schema_invalid",
                  "required_context_unknown", "context_schema_violation"}
      /\ why = "none" =>
           /\ ~seen.bad /\ ~seen.offSchema /\ seen.result = "valid" /\ ~seen.unknown
           /\ Reported(seen.lines) = Planned
  <2>1. PICK d : d =
          (IF seen.bad \/ Reported(seen.lines) # Planned THEN {"attempt_count_mismatch"} ELSE {})
          \cup (IF seen.result # "valid" THEN {"result_schema_invalid"} ELSE {})
          \cup (IF seen.unknown THEN {"required_context_unknown"} ELSE {})
          \cup (IF seen.offSchema THEN {"context_schema_violation"} ELSE {})
    OBVIOUS
  <2>2. PICK order : order = <<"attempt_count_mismatch", "result_schema_invalid",
                               "required_context_unknown", "context_schema_violation">>
    OBVIOUS
  <2>3. why = FirstOf(order, d)
    BY <1>2, <2>1, <2>2 DEF Unbacked
  <2>4. /\ FirstOf(order, d) \in {"none", "attempt_count_mismatch", "result_schema_invalid",
                                  "required_context_unknown", "context_schema_violation"}
        /\ FirstOf(order, d) = "none" <=>
             d \cap {"attempt_count_mismatch", "result_schema_invalid",
                     "required_context_unknown", "context_schema_violation"} = {}
    BY <2>2, FirstOfFour
  <2>5. ASSUME why = "none"
        PROVE  /\ ~seen.bad /\ ~seen.offSchema /\ seen.result = "valid" /\ ~seen.unknown
               /\ Reported(seen.lines) = Planned
    <3>1. /\ "attempt_count_mismatch" \notin d /\ "result_schema_invalid" \notin d
          /\ "required_context_unknown" \notin d /\ "context_schema_violation" \notin d
      BY <2>3, <2>4, <2>5
    <3>2. /\ seen.bad \/ Reported(seen.lines) # Planned => "attempt_count_mismatch" \in d
          /\ seen.result # "valid" => "result_schema_invalid" \in d
          /\ seen.unknown => "required_context_unknown" \in d
          /\ seen.offSchema => "context_schema_violation" \in d
      BY <2>1
    <3> QED BY <3>1, <3>2
  <2> QED BY <2>3, <2>4, <2>5
<1>6. CASE v.status = "succeeded" /\ why # "none"
  <2>1. o = [v EXCEPT !.status = "excluded", !.reason = why]
    BY <1>1, <1>2, <1>3, <1>6 DEF Outcome
  <2>2. o.status = "excluded" /\ o.reason = why /\ o.remainder = v.remainder
    BY <1>4, <2>1
  <2> QED BY <1>3, <1>4, <1>6, <2>2 DEF Draft
<1>7. CASE ~(v.status = "succeeded" /\ why # "none")
  <2>1. o = v
    BY <1>1, <1>2, <1>3, <1>7 DEF Outcome
  <2> QED BY <1>3, <1>4, <1>5, <1>7, <2>1 DEF Draft
<1> QED BY <1>6, <1>7

\* The writes that the runner makes after its harness: no body is touched.
LEMMA Records ==
  ASSUME IInv, NEW p \in Procs, NEW r \in Runs, proc[p].run = r, proc[p].pc \in RunPcs,
         vault[r].dir, Written(r), BodyStays(r), UNCHANGED <<files, child, service, clock, left, history>>,
         work' \in [Runs -> BOOLEAN], \A o \in Runs \ {r} : work'[o] = work[o],
         CommandOK(p)', EntryOK(r)',
         \/ Ends(p)
         \/ \E at \in {"draft", "meta", "plan"} : Steps(p, at)
  PROVE  IInv'
<1>0. Shape /\ OneBodyOK /\ clock \in Nat
  BY DEF IInv, Shape
<1>1. /\ UNCHANGED <<policy, child, service, clock, shared, crossed, crashed, answers>>
  BY DEF files, history
<1>2. /\ proc' = [q \in Procs |-> proc'[q]] /\ \A q \in Procs : IsCommand(proc'[q])
      /\ \A q \in Procs \ {p} : proc'[q] = proc[q]
      /\ \/ proc'[p].pc = "idle" /\ proc'[p].run = None
         \/ proc'[p].pc \in {"draft", "meta", "plan"} /\ proc'[p].run = r
  <2>1. CASE Ends(p)
    BY <1>0, <2>1, Ending
  <2>2. ASSUME NEW at \in {"draft", "meta", "plan"}, Steps(p, at)
        PROVE  /\ proc' = [q \in Procs |-> proc'[q]] /\ \A q \in Procs : IsCommand(proc'[q])
               /\ \A q \in Procs \ {p} : proc'[q] = proc[q]
               /\ proc'[p].pc = at /\ proc'[p].run = r
    BY <1>0, <2>2, Stepping
  <2> QED BY <2>1, <2>2
<1>3. Shape'
  BY <1>0, <1>1, <1>2 DEF Shape, Written, Entries, Bodies
<1>4. Solo(r)' => OneBody(r)'
  <2>1. vault'[r].signed = vault[r].signed /\ vault'[r].preview = vault[r].preview
    BY DEF BodyStays
  <2>2. \A q \in Procs : proc'[q].run = r =>
           /\ proc[q].run = r
           /\ proc'[q] = proc[q] \/ proc'[q].pc \notin PreviewPcs \cup {"submit"}
    BY <1>2, RunnerAssumption DEF PreviewPcs
  <2>3. /\ shared[r] \subseteq shared'[r] /\ crossed \subseteq crossed'
        /\ service'.stored[r] = service.stored[r]
    BY <1>1
  <2> QED BY <1>0, <2>1, <2>2, <2>3, OneBodyKept
<1>5. \A o \in Runs \ {r} : vault'[o] = vault[o] /\ child'[o] = child[o] /\ work'[o] = work[o]
  BY <1>1 DEF Written
<1>6. vault'[r].dir /\ proc'[p].run \in {r, None} /\ (proc'[p].pc \in RunPcs => proc'[p].run = r)
  BY <1>2 DEF Written, RunPcs
<1>8. UNCHANGED <<service, clock, shared, crossed, answers>> /\ crashed \subseteq crashed'
  BY <1>1
<1> QED BY <1>2, <1>3, <1>4, <1>5, <1>6, <1>8, Writes

LEMMA RecordSteps ==
  ASSUME IInv, NEW p \in Procs, Collect(p) \/ WriteDraft(p) \/ WriteMeta(p)
  PROVE  IInv'
<1>0. /\ Shape /\ CommandOK(p) /\ clock \in Nat
      /\ \A o \in Runs : EntryOK(o)
  BY DEF IInv, Shape
<1>1. PICK r : r = proc[p].run
  OBVIOUS
<1>2. /\ UNCHANGED <<files, child, service, clock, left, history>>
      /\ UNCHANGED <<child, service, clock>>
      /\ proc[p].pc \in {"harness", "draft", "meta"}
  BY DEF Collect, WriteDraft, WriteMeta, At
<1>3. /\ r \in Runs /\ vault[r].dir /\ proc[p].ask \in Asks /\ EntryOK(r)
      /\ proc[p].pc \in RunPcs /\ proc[p].pc \in RunPcs \ {"manifest"}
  BY <1>0, <1>1, <1>2 DEF CommandOK, RunPcs
<1>4. ServiceGrows /\ Bodies' = Bodies
  BY <1>0, <1>2 DEF ServiceGrows, Bodies
<1>5. ASSUME Ends(p) PROVE CommandOK(p)'
  <2>1. proc'[p] = Idle /\ Idle.pc = "idle" /\ Idle.run = None
    BY <1>0, <1>5, Ending
  <2> QED BY <2>1 DEF CommandOK, Pcs, RunPcs, PreviewPcs, SubmitPcs
<1>6. ASSUME Written(r), BodyStays(r), vault'[r].receipt = vault[r].receipt,
             vault'[r].meta \in {None, Torn} \cup BOOLEAN,
             Ready(vault'[r].draft) => (vault'[r].draft.status = "excluded" <=> vault'[r].draft.reason # "none"),
             Drawn(r)'
      PROVE  EntryOK(r)'
  BY <1>2, <1>3, <1>4, <1>6 DEF EntryOK, Written, BodyStays
<1>7. CASE Collect(p)
  <2>1. /\ work' = [work EXCEPT ![r] = FALSE] /\ proc[p].pc = "harness"
        /\ \/ vault' = [vault EXCEPT ![r].input = proc[p].ask.context] /\ Steps(p, "draft")
           \/ UNCHANGED vault /\ Ends(p)
    BY <1>1, <1>7 DEF Collect, At
  <2>2. /\ work' \in [Runs -> BOOLEAN]
        /\ \A o \in Runs \ {r} : work'[o] = work[o]
    BY <1>0, <1>3, <2>1 DEF Shape
  <2>3. CASE UNCHANGED vault /\ Ends(p)
    <3>1. Written(r) /\ BodyStays(r)
      BY <1>0, <2>3 DEF Shape, Written, BodyStays
    <3>2. EntryOK(r)'
      <4>1. vault'[r] = vault[r] /\ child'[r] = child[r]
        BY <1>2, <2>3
      <4> QED BY <1>3, <1>4, <4>1, EntryKept
    <3>3. CommandOK(p)'
      BY <1>5, <2>3
    <3> QED BY <1>1, <1>2, <1>3, <2>2, <2>3, <3>1, <3>2, <3>3, Records
  <2>4. CASE vault' = [vault EXCEPT ![r].input = proc[p].ask.context] /\ Steps(p, "draft")
    <3>0. PICK v : v = proc[p].ask.context
      OBVIOUS
    <3>1. v = proc[p].ask.context /\ vault' = [vault EXCEPT ![r].input = v]
      BY <2>4, <3>0
    <3>2. /\ Written(r) /\ BodyStays(r) /\ vault'[r].input = v
          /\ vault'[r].draft = vault[r].draft /\ vault'[r].meta = vault[r].meta
          /\ vault'[r].receipt = vault[r].receipt
      BY <1>0, <1>3, <2>4, <3>1, WritesRunFile
    <3>3. vault[r].draft = None
      BY <1>0, <1>1, <2>1 DEF CommandOK
    <3>4. EntryOK(r)'
      <4>1. ~Ready(vault'[r].draft)
        BY <3>2, <3>3 DEF Ready
      <4>3. vault'[r].meta \in {None, Torn} \cup BOOLEAN
        BY <1>3, <3>2 DEF EntryOK
      <4>4. Drawn(r)'
        BY <4>1 DEF Drawn
      <4> QED BY <1>6, <3>2, <4>1, <4>3, <4>4
    <3>5. proc'[p].pc = "draft" /\ proc'[p].run = r /\ proc'[p].ask = proc[p].ask
      BY <1>0, <1>1, <2>4, Stepping
    <3>6. CommandOK(p)'
      <4>1. /\ vault'[proc'[p].run].draft = None /\ vault'[proc'[p].run].dir
            /\ vault'[proc'[p].run].input = proc'[p].ask.context
            /\ proc'[p].run \in Runs /\ proc'[p].ask \in Asks
        BY <1>3, <3>1, <3>2, <3>3, <3>5 DEF Written
      <4> QED BY <3>5, <4>1 DEF CommandOK, Pcs, RunPcs, PreviewPcs, SubmitPcs
    <3> QED BY <1>1, <1>2, <1>3, <2>2, <2>4, <3>2, <3>4, <3>6, Records
  <2> QED BY <2>1, <2>3, <2>4
<1>8. CASE WriteDraft(p)
  <2>1. /\ work' = work /\ proc[p].pc = "draft" /\ Steps(p, "meta")
        /\ vault' = [vault EXCEPT ![r].draft = Draft(Seen(r, proc[p].ask), Planned)]
    BY <1>1, <1>8 DEF WriteDraft, At
  <2>2. PICK a \in Asks : a = proc[p].ask
    BY <1>3
  <2>0. PICK v : v = Draft(Seen(r, a), Planned)
    OBVIOUS
  <2>3. v = Draft(Seen(r, a), Planned) /\ vault' = [vault EXCEPT ![r].draft = v]
    BY <2>0, <2>1, <2>2
  <2>4. /\ Written(r) /\ BodyStays(r) /\ vault'[r].draft = v
        /\ vault'[r].input = vault[r].input /\ vault'[r].meta = vault[r].meta
        /\ vault'[r].receipt = vault[r].receipt
    BY <1>0, <1>3, <2>1, <2>2, <2>3, WritesRunFile
  <2>5. EntryOK(r)'
    <3>1. v.status = "excluded" <=> v.reason # "none"
      BY <2>3, DraftExplained
    <3>2. vault[r].input = a.context
      BY <1>0, <1>1, <2>1, <2>2 DEF CommandOK
    <3>3. Drawn(r)'
      <4>1. Seen(r, a)' = Seen(r, a)
        BY <1>2 DEF Seen
      <4>2. vault'[r].draft = Draft(Seen(r, a)', Planned)
        BY <2>3, <2>4, <4>1
      <4> QED BY <2>4, <3>2, <4>2 DEF Drawn
    <3>4. vault'[r].meta \in {None, Torn} \cup BOOLEAN
      BY <1>3, <2>4 DEF EntryOK
    <3> QED BY <1>6, <2>4, <3>1, <3>3, <3>4
  <2>6. proc'[p].pc = "meta" /\ proc'[p].run = r /\ proc'[p].ask = a
    BY <1>0, <1>1, <2>1, <2>2, Stepping
  <2>7. CommandOK(p)'
    <3>1. vault'[proc'[p].run].dir /\ proc'[p].run \in Runs /\ proc'[p].ask \in Asks
      BY <1>3, <2>4, <2>6 DEF Written
    <3> QED BY <2>6, <3>1 DEF CommandOK, Pcs, RunPcs, PreviewPcs, SubmitPcs
  <2>8. /\ work' \in [Runs -> BOOLEAN]
        /\ \A o \in Runs \ {r} : work'[o] = work[o]
    BY <1>0, <2>1 DEF Shape
  <2> QED BY <1>1, <1>2, <1>3, <2>1, <2>4, <2>5, <2>7, <2>8, Records
<1>9. CASE WriteMeta(p)
  <2>1. PICK m \in BOOLEAN : vault' = [vault EXCEPT ![r].meta = m]
    BY <1>1, <1>9 DEF WriteMeta
  <2>2. work' = work /\ proc[p].pc = "meta" /\ (Ends(p) \/ Steps(p, "plan"))
    BY <1>9 DEF WriteMeta, At
  <2>3. /\ Written(r) /\ BodyStays(r) /\ RunPartStays(r) /\ vault'[r].meta = m
        /\ vault'[r].receipt = vault[r].receipt
    BY <1>0, <1>3, <2>1, WritesRunFile
  <2>4. EntryOK(r)'
    <3>1. Drawn(r)'
      BY <1>2, <1>3, <2>3 DEF EntryOK, Drawn, RunPartStays, Seen
    <3>2. Ready(vault'[r].draft) => (vault'[r].draft.status = "excluded" <=> vault'[r].draft.reason # "none")
      BY <1>3, <2>3 DEF EntryOK, RunPartStays
    <3> QED BY <1>6, <2>3, <3>1, <3>2
  <2>5. CommandOK(p)'
    <3>1. ASSUME Steps(p, "plan") PROVE CommandOK(p)'
      <4>1. proc'[p].pc = "plan" /\ proc'[p].run = r /\ proc'[p].ask = proc[p].ask
        BY <1>0, <1>1, <3>1, Stepping
      <4>2. vault'[proc'[p].run].dir /\ proc'[p].run \in Runs /\ proc'[p].ask \in Asks
        BY <1>3, <2>3, <4>1 DEF Written
      <4> QED BY <4>1, <4>2 DEF CommandOK, Pcs, RunPcs, PreviewPcs, SubmitPcs
    <3> QED BY <1>5, <2>2, <3>1
  <2>6. /\ work' \in [Runs -> BOOLEAN]
        /\ \A o \in Runs \ {r} : work'[o] = work[o]
    BY <1>0, <2>2 DEF Shape
  <2> QED BY <1>1, <1>2, <1>3, <2>2, <2>3, <2>4, <2>5, <2>6, Records
<1> QED BY <1>7, <1>8, <1>9

-----------------------------------------------------------------------------
(* Previews and submissions.                                                 *)

\* A command that starts on a run that stays solo finds no other command on it.
LEMMA Alone ==
  ASSUME IInv, NEW r \in Runs, Crosses(r), shared[r] \subseteq shared'[r], Solo(r)'
  PROVE  OneBody(r) /\ \A q \in Procs : proc[q].run # r
<1>1. r \notin crossed' /\ crossed \subseteq crossed' /\ ~Busy(r)
  BY DEF Crosses, Solo
<1>2. Solo(r)
  BY <1>1 DEF Solo
<1>3. \A q \in Procs : proc[q].run # r
  BY <1>1, RunnerAssumption DEF IInv, Busy, CommandOK, Idle
<1> QED BY <1>2, <1>3 DEF IInv, OneBodyOK

\* A preview or a submission begins, or is refused at once.
LEMMA Opens ==
  ASSUME IInv, NEW p \in Procs, NEW r \in Runs, proc[p].pc = "idle", Crosses(r),
         UNCHANGED <<files, record, service, clock, crashed, answers>>, left' \in [Kinds -> Nat],
         shared' = [o \in Runs |-> shared'[o]], shared[r] \subseteq shared'[r],
         IsFiniteSet(shared'[r]), \A o \in Runs \ {r} : shared'[o] = shared[o],
         proc' = [q \in Procs |-> proc'[q]], \A q \in Procs : IsCommand(proc'[q]),
         \A q \in Procs \ {p} : proc'[q] = proc[q],
         proc'[p].run \in {r, None}, proc'[p].pc \notin RunPcs,
         CommandOK(p)', proc'[p].run = r => (Solo(r)' => OneBody(r)')
  PROVE  IInv'
<1>0. /\ Shape /\ RunsApart /\ OneBodyOK /\ AnswersOK /\ clock \in Nat
      /\ \A q \in Procs : CommandOK(q)
      /\ \A o \in Runs : EntryOK(o)
  BY DEF IInv, Shape
<1>1. UNCHANGED <<policy, vault, work, child, service, clock, crashed, answers>>
  BY DEF files, record
<1>2. crossed \subseteq crossed' /\ \A o \in Runs : shared[o] \subseteq shared'[o]
  BY DEF Crosses
<1>3. Shape'
  BY <1>0, <1>1 DEF Shape, Entries, Bodies
<1>4. ServiceGrows
  BY <1>0, <1>1 DEF ServiceGrows
<1>5. \A q \in Procs : CommandOK(q)'
  BY <1>0, <1>1, <1>4, OthersKnow DEF RunSame
<1>6. RunsApart'
  BY <1>0, ApartKept
<1>7. \A o \in Runs : EntryOK(o)'
  BY <1>0, <1>1, <1>4, EntryKept
<1>8. OneBodyOK'
  <2>1. ASSUME NEW o \in Runs, ~(o = r /\ proc'[p].run = r) PROVE Solo(o)' => OneBody(o)'
    <3>1. \A q \in Procs : proc'[q].run = o => proc'[q] = proc[q] /\ proc[q].run = o
      BY <2>1, RunnerAssumption
    <3>2. /\ shared[o] \subseteq shared'[o]
          /\ vault'[o].signed = vault[o].signed /\ vault'[o].preview = vault[o].preview
          /\ service'.stored[o] = service.stored[o]
      BY <1>1, <1>2
    <3> QED BY <1>0, <1>2, <3>1, <3>2, OneBodyKept
  <2> QED BY <2>1 DEF OneBodyOK
<1>10. AnswersOK'
  BY <1>0, <1>1, <1>2, <1>4, AnswersKept
<1> QED BY <1>3, <1>5, <1>6, <1>7, <1>8, <1>10 DEF IInv

\* A body is of the clock; a preview of an unchanged body is of that body.
LEMMA WireRunIsBody ==
  ASSUME NEW r \in Runs, NEW s \in Shares, clock \in Nat, vault[r].signed \in {None} \cup Bodies
  PROVE  WireRun(r, s) \in Bodies /\ WireRun(r, s).share = s
<1>1. PICK old : old = vault[r].signed
  OBVIOUS
<1>2. CASE WireRun(r, s) = [share |-> s, at |-> clock]
  BY <1>2 DEF Bodies
<1>3. CASE WireRun(r, s) # [share |-> s, at |-> clock]
  <2>1. old # None /\ WireRun(r, s) = [share |-> s, at |-> IF old = None THEN None ELSE old.at]
    BY <1>1, <1>3 DEF WireRun
  <2>2. WireRun(r, s) = [share |-> s, at |-> old.at] /\ old \in Bodies
    BY <1>1, <2>1
  <2> QED BY <2>2 DEF Bodies
<1> QED BY <1>2, <1>3

LEMMA WireRunKept ==
  ASSUME NEW r \in Runs, NEW s \in Shares, vault[r].signed \in Bodies, clock \in Nat,
         vault[r].signed.share = s,
         vault[r].preview = None \/ vault[r].preview.body = vault[r].signed
  PROVE  WireRun(r, s) = vault[r].signed
<1>1. PICK old : old = vault[r].signed
  OBVIOUS
<1>2. old # None /\ old = [share |-> s, at |-> old.at]
  BY <1>1, NoneIsNoBody DEF Bodies
<1>3. Reference(r) = old
  BY <1>1 DEF Reference
<1> QED BY <1>1, <1>2, <1>3 DEF WireRun

LEMMA StartSteps ==
  ASSUME IInv, NEW p \in Procs, NEW r \in Runs, PreviewStart(p, r) \/ SubmitStart(p, r)
  PROVE  IInv'
<1>0. Shape /\ CommandOK(p) /\ clock \in Nat /\ EntryOK(r)
  BY DEF IInv, Shape
<1>1. /\ UNCHANGED <<files, record, service, clock, crashed, answers>>
      /\ UNCHANGED <<vault, service, clock>>
      /\ proc[p].pc = "idle" /\ Crosses(r) /\ vault[r].dir
  BY DEF PreviewStart, SubmitStart, Begins, record
<1>2. left' \in [Kinds -> Nat]
  <2>1. Spend("preview") \/ Spend("submit")
    BY DEF PreviewStart, SubmitStart, Begins
  <2> QED BY <1>0, <2>1, Spending DEF Kinds
<1>3. CASE Ends(p) /\ UNCHANGED shared
  <2>1. /\ proc' = [q \in Procs |-> proc'[q]] /\ \A q \in Procs : IsCommand(proc'[q])
        /\ \A q \in Procs \ {p} : proc'[q] = proc[q]
        /\ proc'[p] = Idle /\ Idle.pc = "idle" /\ Idle.run = None
    BY <1>0, <1>3, Ending
  <2>2. CommandOK(p)'
    BY <2>1 DEF CommandOK, Pcs, RunPcs, PreviewPcs, SubmitPcs
  <2>3. /\ shared' = [o \in Runs |-> shared'[o]] /\ shared[r] \subseteq shared'[r]
        /\ IsFiniteSet(shared'[r]) /\ \A o \in Runs \ {r} : shared'[o] = shared[o]
    BY <1>0, <1>3 DEF Shape
  <2>4. /\ proc'[p].run \in {r, None} /\ proc'[p].pc \notin RunPcs
        /\ proc'[p].run # r
    BY <2>1, RunnerAssumption DEF RunPcs
  <2> QED BY <1>1, <1>2, <2>1, <2>2, <2>3, <2>4, Opens
<1>4. CASE PreviewStart(p, r) /\ ~(Ends(p) /\ UNCHANGED shared)
  <2>1. PICK s \in Shares :
          /\ vault[r].signed # Torn /\ vault[r].preview # Torn
          /\ Goes(p, [Idle EXCEPT !.pc = "preview", !.run = r, !.body = WireRun(r, s)])
          /\ shared' = [shared EXCEPT ![r] = @ \cup {s}]
    BY <1>4 DEF PreviewStart
  <2>2. PICK b : b = WireRun(r, s)
    OBVIOUS
  <2>3. PICK c : c = [Idle EXCEPT !.pc = "preview", !.run = r, !.body = b] /\ Goes(p, c)
    BY <2>1, <2>2
  <2>4. c.pc = "preview" /\ c.run = r /\ c.body = b /\ IsCommand(c)
    BY <2>3 DEF Idle, IsCommand
  <2>5. /\ proc' = [q \in Procs |-> proc'[q]] /\ \A q \in Procs : IsCommand(proc'[q])
        /\ proc'[p] = c /\ \A q \in Procs \ {p} : proc'[q] = proc[q]
    BY <1>0, <2>3, <2>4, Going
  <2>6. /\ shared' = [o \in Runs |-> shared'[o]] /\ shared[r] \subseteq shared'[r]
        /\ shared'[r] = shared[r] \cup {s} /\ IsFiniteSet(shared'[r])
        /\ \A o \in Runs \ {r} : shared'[o] = shared[o]
    <3>1. IsFiniteSet(shared[r] \cup {s})
      BY <1>0, FS_AddElement DEF Shape
    <3> QED BY <1>0, <2>1, <3>1 DEF Shape
  <2>7. vault[r].signed \in {None} \cup Bodies
    BY <1>0, <2>1 DEF EntryOK
  <2>8. b \in Bodies /\ b.share = s
    BY <1>0, <2>2, <2>7, WireRunIsBody
  <2>9. CommandOK(p)'
    <3>1. proc'[p].pc = "preview" /\ proc'[p].run = r /\ proc'[p].body \in Bodies' /\ vault'[r].dir
      BY <1>1, <2>4, <2>5, <2>8 DEF Bodies
    <3> QED BY <3>1 DEF CommandOK, Pcs, RunPcs, PreviewPcs, SubmitPcs
  <2>10. ASSUME Solo(r)' PROVE OneBody(r)'
    <3>1. OneBody(r) /\ \A q \in Procs : proc[q].run # r
      BY <1>1, <2>6, <2>10, Alone
    <3>2. PICK e : e = vault[r]
      OBVIOUS
    <3>3. PICK row : row = service.stored[r]
      OBVIOUS
    <3>4. /\ row # None => e.signed \in {row, Torn}
          /\ Ready(e.preview) => e.signed \in {e.preview.body, Torn}
          /\ Ready(e.signed) => e.signed.share \in shared[r]
      BY <3>1, <3>2, <3>3 DEF OneBody
    <3>5. e.preview = None \/ (Ready(e.preview) /\ e.preview.body \in Bodies)
      BY <1>0, <2>1, <3>2 DEF EntryOK, Ready, Shape, Entries
    <3>6. e.signed = b \/ (e.signed = None /\ ~Ready(e.preview) /\ row = None)
      <4>1. CASE e.signed = None
        <5>1. row = None
          BY <2>1, <3>2, <3>4, <4>1
        <5>2. ~Ready(e.preview)
          BY <1>0, <2>1, <3>2, <3>4, <3>5, <4>1, NoneIsNoBody DEF Ready
        <5> QED BY <4>1, <5>1, <5>2
      <4>2. CASE e.signed # None
        <5>1. e.signed \in Bodies /\ Ready(e.signed)
          BY <2>1, <2>7, <3>2, <4>2 DEF Ready
        <5>2. e.signed.share = s
          BY <2>6, <2>10, <3>4, <5>1 DEF Solo
        <5>3. e.preview = None \/ e.preview.body = e.signed
          BY <2>1, <3>2, <3>4, <3>5
        <5>4. WireRun(r, s) = e.signed
          BY <1>0, <3>2, <5>1, <5>2, <5>3, WireRunKept
        <5> QED BY <2>2, <5>4
      <4> QED BY <4>1, <4>2
    <3>7. \A q \in Procs : proc'[q].run = r => q = p
      BY <2>5, <3>1
    <3>8. proc'[p].pc = "preview" /\ proc'[p].body = b
      BY <2>4, <2>5
    <3>9. vault'[r] = e /\ service'.stored[r] = row
      BY <1>1, <3>2, <3>3
    <3> QED BY <2>6, <2>8, <3>4, <3>6, <3>7, <3>8, <3>9 DEF OneBody
  <2>11. proc'[p].run \in {r, None} /\ proc'[p].pc \notin RunPcs
    BY <2>4, <2>5 DEF RunPcs
  <2> QED BY <1>1, <1>2, <2>5, <2>6, <2>9, <2>10, <2>11, Opens
<1>5. CASE SubmitStart(p, r) /\ ~(Ends(p) /\ UNCHANGED shared)
  <2>1. /\ Ready(vault[r].preview) /\ UNCHANGED shared
        /\ Goes(p, [Idle EXCEPT !.pc = "read", !.run = r, !.shown = vault[r].preview])
    BY <1>5 DEF SubmitStart
  <2>2. PICK shown : shown = vault[r].preview
    OBVIOUS
  <2>3. PICK c : c = [Idle EXCEPT !.pc = "read", !.run = r, !.shown = shown] /\ Goes(p, c)
    BY <2>1, <2>2
  <2>4. c.pc = "read" /\ c.run = r /\ c.shown = shown /\ IsCommand(c)
    BY <2>3 DEF Idle, IsCommand
  <2>5. /\ proc' = [q \in Procs |-> proc'[q]] /\ \A q \in Procs : IsCommand(proc'[q])
        /\ proc'[p] = c /\ \A q \in Procs \ {p} : proc'[q] = proc[q]
    BY <1>0, <2>3, <2>4, Going
  <2>6. /\ shared' = [o \in Runs |-> shared'[o]] /\ shared[r] \subseteq shared'[r]
        /\ IsFiniteSet(shared'[r]) /\ \A o \in Runs \ {r} : shared'[o] = shared[o]
    BY <1>0, <2>1 DEF Shape
  <2>7. CommandOK(p)'
    <3>1. shown \in service'.previews
      BY <1>0, <1>1, <2>1, <2>2 DEF EntryOK, Ready
    <3>2. proc'[p].pc = "read" /\ proc'[p].run = r /\ proc'[p].shown \in service'.previews /\ vault'[r].dir
      BY <1>1, <2>4, <2>5, <3>1
    <3> QED BY <3>2 DEF CommandOK, Pcs, RunPcs, PreviewPcs, SubmitPcs
  <2>8. ASSUME Solo(r)' PROVE OneBody(r)'
    <3>1. OneBody(r) /\ \A q \in Procs : proc[q].run # r
      BY <1>1, <2>6, <2>8, Alone
    <3>2. \A q \in Procs : proc'[q].run = r => q = p
      BY <2>5, <3>1
    <3>3. proc'[p].pc = "read" /\ UNCHANGED <<vault, service, shared>>
      BY <1>1, <2>1, <2>4, <2>5
    <3> QED BY <3>1, <3>2, <3>3 DEF OneBody
  <2>9. proc'[p].run \in {r, None} /\ proc'[p].pc \notin RunPcs
    BY <2>4, <2>5 DEF RunPcs
  <2> QED BY <1>1, <1>2, <2>5, <2>6, <2>7, <2>8, <2>9, Opens
<1> QED BY <1>3, <1>4, <1>5

\* A step of a preview or a submission that writes no file: what the service issued and
\* stored grows, or the command reads.
LEMMA Talks ==
  ASSUME IInv, NEW p \in Procs, NEW r \in Runs, proc[p].run = r, proc[p].pc \notin RunPcs,
         UNCHANGED <<files, record, clock, crashed, shared, crossed>>, left' \in [Kinds -> Nat],
         service' = [previews |-> service'.previews, stored |-> [o \in Runs |-> service'.stored[o]]],
         IsFiniteSet(service'.previews), service'.previews \subseteq Entries, ServiceGrows,
         \A o \in Runs \ {r} : service'.stored[o] = service.stored[o],
         vault[r].receipt \in {None, Torn, service'.stored[r]},
         proc' = [q \in Procs |-> proc'[q]], \A q \in Procs : IsCommand(proc'[q]),
         \A q \in Procs \ {p} : proc'[q] = proc[q],
         proc'[p].run \in {r, None}, proc'[p].pc \notin RunPcs,
         CommandOK(p)', Solo(r)' => OneBody(r)', AnswersOK'
  PROVE  IInv'
<1>0. /\ Shape /\ RunsApart /\ OneBodyOK /\ clock \in Nat
      /\ \A q \in Procs : CommandOK(q)
      /\ \A o \in Runs : EntryOK(o)
  BY DEF IInv, Shape
<1>1. UNCHANGED <<policy, vault, work, child, clock, crashed, shared, crossed>>
  BY DEF files, record
<1>2. Shape'
  BY <1>0, <1>1 DEF Shape, Entries, Bodies
<1>3. \A q \in Procs : CommandOK(q)'
  BY <1>0, <1>1, OthersKnow DEF RunSame
<1>4. RunsApart'
  BY <1>0, ApartKept
<1>5. \A o \in Runs : EntryOK(o)'
  <2>1. ASSUME NEW o \in Runs, o # r PROVE EntryOK(o)'
    <3>1. vault'[o] = vault[o] /\ child'[o] = child[o] /\ service'.stored[o] = service.stored[o]
      BY <1>1, <2>1
    <3> QED BY <1>0, <3>1, EntryKept
  <2>2. EntryOK(r)'
    <3>1. Bodies' = Bodies /\ Drawn(r)'
      <4>1. Bodies' = Bodies
        BY <1>1 DEF Bodies
      <4>2. Drawn(r) /\ vault' = vault /\ child' = child
        BY <1>0, <1>1 DEF EntryOK
      <4>3. Drawn(r)'
        BY <4>2 DEF Drawn, Seen
      <4> QED BY <4>1, <4>3
    <3>2. service.previews \subseteq service'.previews
      BY DEF ServiceGrows
    <3> QED BY <1>0, <1>1, <3>1, <3>2 DEF EntryOK
  <2> QED BY <2>1, <2>2
<1>6. OneBodyOK'
  <2>1. ASSUME NEW o \in Runs, o # r PROVE Solo(o)' => OneBody(o)'
    <3>1. \A q \in Procs : proc'[q].run = o => proc'[q] = proc[q] /\ proc[q].run = o
      BY <2>1, RunnerAssumption
    <3>2. /\ shared[o] \subseteq shared'[o] /\ crossed \subseteq crossed'
          /\ vault'[o].signed = vault[o].signed /\ vault'[o].preview = vault[o].preview
          /\ service'.stored[o] = service.stored[o]
      BY <1>1, <2>1
    <3> QED BY <1>0, <3>1, <3>2, OneBodyKept
  <2> QED BY <2>1 DEF OneBodyOK
<1> QED BY <1>2, <1>3, <1>4, <1>5, <1>6 DEF IInv

LEMMA ReadSteps ==
  ASSUME IInv, NEW p \in Procs, PreviewServed(p) \/ SubmitSend(p)
  PROVE  IInv'
<1>0. /\ Shape /\ CommandOK(p) /\ OneBodyOK /\ AnswersOK /\ clock \in Nat
      /\ \A o \in Runs : EntryOK(o)
  BY DEF IInv, Shape
<1>1. PICK r : r = proc[p].run
  OBVIOUS
<1>2. /\ UNCHANGED <<files, record, clock, crashed, shared, crossed>>
      /\ UNCHANGED <<vault, clock, answers, shared, crossed>>
      /\ proc[p].pc \in {"preview", "read"}
  BY DEF PreviewServed, SubmitSend, At, history, record
<1>3. r \in Runs /\ vault[r].dir /\ proc[p].pc \notin RunPcs /\ Bodies' = Bodies
  BY <1>0, <1>1, <1>2 DEF CommandOK, PreviewPcs, SubmitPcs, RunPcs, Bodies
<1>4. left' \in [Kinds -> Nat]
  <2>1. left' = left \/ Spend("lost")
    BY DEF PreviewServed, SubmitSend
  <2> QED BY <1>0, <2>1, Spending DEF Shape, Kinds
<1>5. /\ service' = [previews |-> service'.previews, stored |-> [o \in Runs |-> service'.stored[o]]]
      /\ IsFiniteSet(service'.previews) /\ service'.previews \subseteq Entries
      /\ service'.stored = service.stored /\ service.previews \subseteq service'.previews
  <2>1. CASE service' = service
    BY <1>0, <2>1 DEF Shape
  <2>2. CASE PreviewServed(p)
    <3>1. PICK issued : /\ issued = [id |-> Cardinality(service.previews) + 1, run |-> r,
                                     body |-> proc[p].body, expires |-> clock + Ttl]
                        /\ service' = [service EXCEPT !.previews = @ \cup {issued}]
      BY <1>1, <2>2 DEF PreviewServed
    <3>2. Cardinality(service.previews) \in Nat
      BY <1>0, FS_CardinalityType DEF Shape
    <3>3. issued \in Entries
      BY <1>0, <1>1, <1>3, <2>2, <3>1, <3>2, RunnerAssumption
         DEF Entries, CommandOK, PreviewServed, At, PreviewPcs
    <3>4. IsFiniteSet(service.previews \cup {issued})
      BY <1>0, FS_AddElement DEF Shape
    <3>5. PICK all : all = service.previews \cup {issued}
      OBVIOUS
    <3>6. all \subseteq Entries /\ IsFiniteSet(all) /\ service.previews \subseteq all
      BY <1>0, <3>3, <3>4, <3>5 DEF Shape
    <3>7. service' = [service EXCEPT !.previews = all]
      BY <3>1, <3>5
    <3>8. service'.previews = all /\ service'.stored = service.stored
      BY <1>0, <3>7 DEF Shape
    <3>9. service' = [previews |-> service'.previews, stored |-> [o \in Runs |-> service'.stored[o]]]
      BY <1>0, <3>7 DEF Shape
    <3> QED BY <3>6, <3>8, <3>9
  <2> QED BY <2>1, <2>2 DEF SubmitSend
<1>6. ServiceGrows
  BY <1>0, <1>2, <1>5 DEF ServiceGrows
<1>7. vault[r].receipt \in {None, Torn, service'.stored[r]}
  BY <1>0, <1>3, <1>5 DEF EntryOK
<1>8. AnswersOK'
  BY <1>0, <1>2, <1>6, AnswersKept
<1>9. CASE Ends(p)
  <2>1. /\ proc' = [q \in Procs |-> proc'[q]] /\ \A q \in Procs : IsCommand(proc'[q])
        /\ \A q \in Procs \ {p} : proc'[q] = proc[q]
        /\ proc'[p] = Idle /\ Idle.pc = "idle" /\ Idle.run = None
    BY <1>0, <1>9, Ending
  <2>2. CommandOK(p)'
    BY <2>1 DEF CommandOK, Pcs, RunPcs, PreviewPcs, SubmitPcs
  <2>3. Solo(r)' => OneBody(r)'
    <3>1. \A q \in Procs : proc'[q].run = r => proc[q].run = r /\ proc'[q] = proc[q]
      BY <1>3, <2>1, RunnerAssumption
    <3>2. /\ shared[r] \subseteq shared'[r] /\ crossed \subseteq crossed'
          /\ vault'[r].signed = vault[r].signed /\ vault'[r].preview = vault[r].preview
          /\ service'.stored[r] = service.stored[r]
      BY <1>2, <1>5
    <3> QED BY <1>0, <1>3, <3>1, <3>2, OneBodyKept
  <2>4. proc'[p].run \in {r, None} /\ proc'[p].pc \notin RunPcs
    BY <2>1 DEF RunPcs
  <2> QED BY <1>1, <1>2, <1>3, <1>4, <1>5, <1>6, <1>7, <1>8, <2>1, <2>2, <2>3, <2>4, Talks
<1>10. CASE PreviewServed(p) /\ ~Ends(p)
  <2>1. PICK issued : /\ issued.body = proc[p].body
                      /\ service' = [service EXCEPT !.previews = @ \cup {issued}]
                      /\ Goes(p, [proc[p] EXCEPT !.pc = "run.json", !.shown = issued])
    BY <1>1, <1>10 DEF PreviewServed
  <2>2. PICK c : c = [proc[p] EXCEPT !.pc = "run.json", !.shown = issued] /\ Goes(p, c)
    BY <2>1
  <2>3. IsCommand(c) /\ c.pc = "run.json" /\ c.run = r /\ c.shown = issued /\ c.body = proc[p].body
    <3>1. IsCommand(proc[p])
      BY <1>0 DEF Shape
    <3> QED BY <1>1, <2>2, <3>1 DEF IsCommand
  <2>4. /\ proc' = [q \in Procs |-> proc'[q]] /\ \A q \in Procs : IsCommand(proc'[q])
        /\ proc'[p] = c /\ \A q \in Procs \ {p} : proc'[q] = proc[q]
    BY <1>0, <2>2, <2>3, Going
  <2>5. issued \in service'.previews
    BY <1>0, <2>1 DEF Shape
  <2>6. proc[p].pc = "preview" /\ proc[p].body \in Bodies
    BY <1>0, <1>10 DEF CommandOK, PreviewServed, At, PreviewPcs
  <2>7. CommandOK(p)'
    <3>1. /\ proc'[p].pc = "run.json" /\ proc'[p].run \in Runs /\ vault'[proc'[p].run].dir
          /\ proc'[p].body \in Bodies' /\ proc'[p].shown \in service'.previews
          /\ proc'[p].shown.body = proc'[p].body
      BY <1>2, <1>3, <2>1, <2>3, <2>4, <2>5, <2>6
    <3> QED BY <3>1 DEF CommandOK, Pcs, RunPcs, PreviewPcs, SubmitPcs
  <2>8. ASSUME Solo(r)' PROVE OneBody(r)'
    <3>1. OneBody(r)
      BY <1>0, <1>2, <1>3, <2>8 DEF Solo, OneBodyOK
    <3>2. /\ vault'[r] = vault[r] /\ service'.stored[r] = service.stored[r] /\ shared'[r] = shared[r]
      BY <1>2, <1>5
    <3>3. \A q \in Procs : proc'[q].run = r => q = p
      BY <1>1, <2>4, <3>1 DEF OneBody
    <3>4. /\ proc[p].body.share \in shared[r]
          /\ \/ vault[r].signed = proc[p].body
             \/ vault[r].signed = None /\ ~Ready(vault[r].preview) /\ service.stored[r] = None
      BY <1>1, <2>6, <3>1 DEF OneBody
    <3>5. proc'[p].pc = "run.json" /\ proc'[p].body = proc[p].body
      BY <2>3, <2>4
    <3> QED BY <3>1, <3>2, <3>3, <3>4, <3>5 DEF OneBody
  <2>9. proc'[p].run \in {r, None} /\ proc'[p].pc \notin RunPcs
    BY <2>3, <2>4 DEF RunPcs
  <2> QED BY <1>1, <1>2, <1>3, <1>4, <1>5, <1>6, <1>7, <1>8, <2>4, <2>7, <2>8, <2>9, Talks
<1>11. CASE SubmitSend(p) /\ ~Ends(p)
  <2>1. /\ Ready(vault[r].signed) /\ proc[p].pc = "read" /\ service' = service
        /\ Goes(p, [proc[p] EXCEPT !.pc = "submit", !.body = vault[r].signed])
    BY <1>1, <1>11 DEF SubmitSend, At
  <2>2. PICK b : b = vault[r].signed
    OBVIOUS
  <2>3. PICK c : c = [proc[p] EXCEPT !.pc = "submit", !.body = b] /\ Goes(p, c)
    BY <2>1, <2>2
  <2>4. IsCommand(c) /\ c.pc = "submit" /\ c.run = r /\ c.shown = proc[p].shown /\ c.body = b
    <3>1. IsCommand(proc[p])
      BY <1>0 DEF Shape
    <3> QED BY <1>1, <2>3, <3>1 DEF IsCommand
  <2>5. /\ proc' = [q \in Procs |-> proc'[q]] /\ \A q \in Procs : IsCommand(proc'[q])
        /\ proc'[p] = c /\ \A q \in Procs \ {p} : proc'[q] = proc[q]
    BY <1>0, <2>3, <2>4, Going
  <2>6. b \in Bodies /\ proc[p].shown \in service.previews
    BY <1>0, <1>3, <2>1, <2>2 DEF CommandOK, EntryOK, Ready, SubmitPcs
  <2>7. CommandOK(p)'
    <3>1. /\ proc'[p].pc = "submit" /\ proc'[p].run \in Runs /\ vault'[proc'[p].run].dir
          /\ proc'[p].body \in Bodies' /\ proc'[p].shown \in service'.previews
      BY <1>2, <1>3, <2>1, <2>4, <2>5, <2>6
    <3> QED BY <3>1 DEF CommandOK, Pcs, RunPcs, PreviewPcs, SubmitPcs
  <2>8. ASSUME Solo(r)' PROVE OneBody(r)'
    <3>1. OneBody(r)
      BY <1>0, <1>2, <1>3, <2>8 DEF Solo, OneBodyOK
    <3>2. /\ vault'[r] = vault[r] /\ service'.stored[r] = service.stored[r] /\ shared'[r] = shared[r]
      BY <1>2, <1>5
    <3>3. \A q \in Procs : proc'[q].run = r => q = p
      BY <1>1, <2>5, <3>1 DEF OneBody
    <3>4. proc'[p].pc = "submit" /\ proc'[p].body = vault'[r].signed
      BY <1>2, <2>2, <2>4, <2>5
    <3> QED BY <3>1, <3>2, <3>3, <3>4 DEF OneBody
  <2>9. proc'[p].run \in {r, None} /\ proc'[p].pc \notin RunPcs
    BY <2>4, <2>5 DEF RunPcs
  <2> QED BY <1>1, <1>2, <1>3, <1>4, <1>5, <1>6, <1>7, <1>8, <2>5, <2>7, <2>8, <2>9, Talks
<1> QED BY <1>9, <1>10, <1>11

\* A stored row is the first body that was accepted, and a solo run is never in conflict.
LEMMA SubmitServedOK ==
  ASSUME IInv, NEW p \in Procs, SubmitServed(p)
  PROVE  IInv'
<1>0. /\ Shape /\ CommandOK(p) /\ OneBodyOK /\ AnswersOK /\ clock \in Nat
      /\ \A o \in Runs : EntryOK(o)
  BY DEF IInv, Shape
<1>1. PICK r : r = proc[p].run
  OBVIOUS
<1>2. PICK v : v = Verdicts(p)
  OBVIOUS
<1>3. PICK old : old = service.stored[r]
  OBVIOUS
<1>4. PICK b : b = proc[p].body
  OBVIOUS
<1>5. /\ UNCHANGED <<files, record, clock, crashed, shared, crossed>>
      /\ UNCHANGED <<vault, clock, shared, crossed>>
      /\ proc[p].pc = "submit" /\ service' = [service EXCEPT !.stored[r] = v.row]
      /\ answers' = answers \cup {[run |-> r, kind |-> v.kind, body |-> b, shown |-> proc[p].shown.body]}
      /\ (v.kind \in {"accepted", "again"} /\ Steps(p, "receipt.json")) \/ Ends(p)
  BY <1>1, <1>2, <1>4 DEF SubmitServed, At, record
<1>6. /\ r \in Runs /\ vault[r].dir /\ proc[p].pc \notin RunPcs /\ Bodies' = Bodies /\ EntryOK(r)
      /\ b \in Bodies /\ b # None /\ b # Torn /\ proc[p].shown \in service.previews
  BY <1>0, <1>1, <1>4, <1>5, NoneIsNoBody DEF CommandOK, PreviewPcs, SubmitPcs, RunPcs, Bodies
<1>7. left' \in [Kinds -> Nat]
  <2>1. left' = left \/ Spend("lost")
    BY DEF SubmitServed
  <2> QED BY <1>0, <2>1, Spending DEF Shape, Kinds
<1>8. \/ v.kind = "refused" /\ v.row = old
      \/ v.kind = "accepted" /\ v.row = b /\ old = None /\ proc[p].shown.body = b
      \/ v.kind = "again" /\ v.row = old /\ old = b /\ proc[p].shown.body = b
      \/ v.kind = "conflict" /\ v.row = old /\ old # None /\ old # b
  BY <1>1, <1>2, <1>3, <1>4 DEF Verdicts, Bound
<1>9. /\ service' = [previews |-> service'.previews, stored |-> [o \in Runs |-> service'.stored[o]]]
      /\ service'.previews = service.previews /\ service'.stored[r] = v.row
      /\ \A o \in Runs \ {r} : service'.stored[o] = service.stored[o]
  <2>1. PICK st : st = [service.stored EXCEPT ![r] = v.row]
    OBVIOUS
  <2>2. service' = [service EXCEPT !.stored = st]
    BY <1>5, <2>1
  <2>3. service'.stored = st /\ service'.previews = service.previews
    BY <1>0, <2>2 DEF Shape
  <2>4. st = [o \in Runs |-> st[o]] /\ st[r] = v.row /\ \A o \in Runs \ {r} : st[o] = service.stored[o]
    BY <1>0, <1>6, <2>1 DEF Shape
  <2>5. service' = [previews |-> service'.previews, stored |-> st]
    BY <1>0, <2>2 DEF Shape
  <2> QED BY <2>3, <2>4, <2>5
<1>10. ServiceGrows
  <2>1. old # None => v.row = old
    BY <1>8
  <2> QED BY <1>0, <1>3, <1>5, <1>9, <2>1 DEF ServiceGrows
<1>11. vault[r].receipt \in {None, Torn, service'.stored[r]}
  BY <1>3, <1>6, <1>8, <1>9 DEF EntryOK
<1>12. /\ proc' = [q \in Procs |-> proc'[q]] /\ \A q \in Procs : IsCommand(proc'[q])
       /\ \A q \in Procs \ {p} : proc'[q] = proc[q]
       /\ \/ proc'[p] = Idle /\ Idle.pc = "idle" /\ Idle.run = None
          \/ /\ v.kind \in {"accepted", "again"}
             /\ proc'[p].pc = "receipt.json" /\ proc'[p].run = r
             /\ proc'[p].body = b /\ proc'[p].shown = proc[p].shown
  <2>1. CASE Ends(p)
    BY <1>0, <2>1, Ending
  <2>2. CASE v.kind \in {"accepted", "again"} /\ Steps(p, "receipt.json")
    BY <1>0, <1>1, <1>4, <2>2, Stepping
  <2> QED BY <1>5, <2>1, <2>2
<1>13. CommandOK(p)'
  <2>1. CASE proc'[p] = Idle /\ Idle.pc = "idle" /\ Idle.run = None
    BY <2>1 DEF CommandOK, Pcs, RunPcs, PreviewPcs, SubmitPcs
  <2>2. CASE /\ v.kind \in {"accepted", "again"}
             /\ proc'[p].pc = "receipt.json" /\ proc'[p].run = r
             /\ proc'[p].body = b /\ proc'[p].shown = proc[p].shown
    <3>1. /\ proc'[p].pc = "receipt.json" /\ proc'[p].run \in Runs /\ vault'[proc'[p].run].dir
          /\ proc'[p].body \in Bodies' /\ proc'[p].shown \in service'.previews
          /\ proc'[p].body = service'.stored[proc'[p].run]
      BY <1>5, <1>6, <1>8, <1>9, <1>12, <2>2
    <3> QED BY <3>1 DEF CommandOK, Pcs, RunPcs, PreviewPcs, SubmitPcs
  <2> QED BY <1>12, <2>1, <2>2
<1>14. ASSUME Solo(r) PROVE OneBody(r) /\ vault[r].signed = b /\ (old # None => old = b)
  <2>1. OneBody(r)
    BY <1>0, <1>6, <1>14 DEF OneBodyOK
  <2>2. vault[r].signed = b
    BY <1>1, <1>4, <1>5, <2>1 DEF OneBody
  <2>3. old # None => vault[r].signed \in {old, Torn}
    BY <1>3, <2>1 DEF OneBody
  <2> QED BY <1>6, <2>1, <2>2, <2>3
<1>15. ASSUME Solo(r)' PROVE OneBody(r)'
  <2>1. Solo(r)
    BY <1>5, <1>15 DEF Solo
  <2>2. OneBody(r) /\ vault[r].signed = b /\ (old # None => old = b)
    BY <1>14, <2>1
  <2>3. service'.stored[r] # None => service'.stored[r] = b
    BY <1>8, <1>9, <2>2
  <2>4. vault'[r] = vault[r] /\ shared'[r] = shared[r]
    BY <1>5
  <2>5. \A q \in Procs : proc'[q].run = r => q = p
    BY <1>1, <1>12, <2>2 DEF OneBody
  <2>6. proc'[p].pc \in {"idle", "receipt.json"}
    BY <1>12
  <2> QED BY <2>2, <2>3, <2>4, <2>5, <2>6 DEF OneBody
<1>16. AnswersOK'
  <2>1. ASSUME NEW a \in answers
        PROVE  /\ a.run \in Runs
               /\ a.kind \in {"accepted", "again"} =>
                    a.body = a.shown /\ service'.stored[a.run] = a.body /\ a.body # None
               /\ a.kind = "conflict" => ~Solo(a.run)'
    BY <1>0, <1>5, <1>10, <2>1 DEF AnswersOK, ServiceGrows, Solo
  <2>2. PICK a : a = [run |-> r, kind |-> v.kind, body |-> b, shown |-> proc[p].shown.body]
    OBVIOUS
  <2>3. v.kind = "conflict" => ~Solo(r)'
    <3>1. v.kind = "conflict" => ~Solo(r)
      BY <1>8, <1>14
    <3> QED BY <1>5, <3>1 DEF Solo
  <2>4. /\ a.run = r /\ a.kind = v.kind /\ a.body = b /\ a.shown = proc[p].shown.body
    BY <2>2
  <2>5. /\ a.run \in Runs
        /\ a.kind \in {"accepted", "again"} =>
             a.body = a.shown /\ service'.stored[a.run] = a.body /\ a.body # None
        /\ a.kind = "conflict" => ~Solo(a.run)'
    <3>1. Solo(a.run)' <=> Solo(r)'
      BY <2>4 DEF Solo
    <3> QED BY <1>6, <1>8, <1>9, <2>3, <2>4, <3>1
  <2>6. answers' = answers \cup {a}
    BY <1>5, <2>2
  <2> QED BY <2>1, <2>5, <2>6 DEF AnswersOK
<1>17. proc'[p].run \in {r, None} /\ proc'[p].pc \notin RunPcs
  BY <1>12 DEF RunPcs
<1>18. IsFiniteSet(service'.previews) /\ service'.previews \subseteq Entries
  BY <1>0, <1>9 DEF Shape
<1> QED BY <1>1, <1>5, <1>6, <1>7, <1>9, <1>10, <1>11, <1>12, <1>13, <1>15, <1>16, <1>17, <1>18, Talks

\* A file that a preview or a submission writes, or leaves torn.
LEMMA BodyFile ==
  ASSUME IInv, NEW p \in Procs, NEW r \in Runs, proc[p].run = r, proc[p].pc \notin RunPcs,
         Written(r), RunPartStays(r), vault'[r].meta = vault[r].meta,
         UNCHANGED <<work, child, service, clock, shared, crossed, answers>>,
         crashed \subseteq crashed', left' \in [Kinds -> Nat],
         policy' \in {None, Torn} \cup Policies, vault[r].dir,
         vault'[r].signed \in {None, Torn} \cup Bodies,
         vault'[r].preview \in {None, Torn} \cup service.previews,
         vault'[r].receipt \in {None, Torn, service.stored[r]},
         proc' = [q \in Procs |-> proc'[q]], \A q \in Procs : IsCommand(proc'[q]),
         \A q \in Procs \ {p} : proc'[q] = proc[q],
         proc'[p].run \in {r, None}, proc'[p].pc \notin RunPcs,
         CommandOK(p)', Solo(r)' => OneBody(r)'
  PROVE  IInv'
<1>0. Shape /\ clock \in Nat /\ EntryOK(r)
  BY DEF IInv, Shape
<1>1. Shape'
  BY <1>0 DEF Shape, Written, Entries, Bodies
<1>2. EntryOK(r)'
  <2>1. Drawn(r)'
    <3>1. /\ vault'[r].draft = vault[r].draft /\ vault'[r].input = vault[r].input
          /\ child'[r] = child[r] /\ Drawn(r)
      BY <1>0 DEF EntryOK, RunPartStays
    <3>2. \A a \in Asks : Seen(r, a)' = Seen(r, a)
      BY <3>1 DEF Seen
    <3> QED BY <3>1, <3>2 DEF Drawn
  <2>2. Bodies' = Bodies /\ vault'[r].dir
    BY <1>0 DEF Bodies, Written
  <2> QED BY <1>0, <2>1, <2>2 DEF EntryOK, RunPartStays
<1>3. RunSame(r)
  BY DEF RunSame, Written, RunPartStays
<1>4. \A o \in Runs \ {r} : vault'[o] = vault[o] /\ child'[o] = child[o] /\ work'[o] = work[o]
  BY DEF Written
<1>6. vault'[r].dir
  BY DEF Written
<1> QED BY <1>1, <1>2, <1>3, <1>4, <1>6, Writes

LEMMA FileSteps ==
  ASSUME IInv, NEW p \in Procs, WriteSignedRun(p) \/ WritePreview(p) \/ WriteReceipt(p)
  PROVE  IInv'
<1>0. /\ Shape /\ CommandOK(p) /\ OneBodyOK /\ clock \in Nat
      /\ \A o \in Runs : EntryOK(o)
  BY DEF IInv, Shape
<1>1. PICK r : r = proc[p].run
  OBVIOUS
<1>2. PICK b : b = proc[p].body
  OBVIOUS
<1>3. PICK shown : shown = proc[p].shown
  OBVIOUS
<1>4. /\ UNCHANGED <<work, child, service, clock, shared, crossed, answers>>
      /\ UNCHANGED <<policy, crashed, left>>
      /\ proc[p].pc \in {"run.json", "preview.json", "receipt.json"}
  BY DEF WriteSignedRun, WritePreview, WriteReceipt, At, history, files
<1>5. /\ r \in Runs /\ vault[r].dir /\ proc[p].pc \notin RunPcs /\ Bodies' = Bodies /\ EntryOK(r)
      /\ b \in Bodies /\ b # None /\ b # Torn /\ shown \in service.previews
  BY <1>0, <1>1, <1>2, <1>3, <1>4, NoneIsNoBody DEF CommandOK, PreviewPcs, SubmitPcs, RunPcs, Bodies
<1>6. left' \in [Kinds -> Nat] /\ policy' \in {None, Torn} \cup Policies /\ crashed \subseteq crashed'
  BY <1>0, <1>4 DEF Shape
<1>7. /\ vault[r].signed \in {None, Torn} \cup Bodies
      /\ vault[r].preview \in {None, Torn} \cup service.previews
      /\ vault[r].receipt \in {None, Torn, service.stored[r]}
  BY <1>5 DEF EntryOK
<1>8. ASSUME Solo(r)'
      PROVE  OneBody(r) /\ \A q \in Procs : proc[q].run = r => q = p
  <2>1. OneBody(r)
    BY <1>0, <1>4, <1>5, <1>8 DEF Solo, OneBodyOK
  <2> QED BY <1>1, <2>1 DEF OneBody
<1>9. ASSUME Ends(p)
      PROVE  /\ proc' = [q \in Procs |-> proc'[q]] /\ \A q \in Procs : IsCommand(proc'[q])
             /\ \A q \in Procs \ {p} : proc'[q] = proc[q]
             /\ proc'[p].run = None /\ proc'[p].pc = "idle" /\ proc'[p].pc \notin RunPcs
             /\ CommandOK(p)'
  <2>1. /\ proc' = [q \in Procs |-> proc'[q]] /\ \A q \in Procs : IsCommand(proc'[q])
        /\ \A q \in Procs \ {p} : proc'[q] = proc[q]
        /\ proc'[p] = Idle /\ Idle.pc = "idle" /\ Idle.run = None
    BY <1>0, <1>9, Ending
  <2>2. CommandOK(p)'
    BY <2>1 DEF CommandOK, Pcs, RunPcs, PreviewPcs, SubmitPcs
  <2> QED BY <2>1, <2>2 DEF RunPcs
<1>10. CASE WriteSignedRun(p)
  <2>1. /\ vault' = [vault EXCEPT ![r].signed = b] /\ proc[p].pc = "run.json" /\ Steps(p, "preview.json")
    BY <1>1, <1>2, <1>10 DEF WriteSignedRun, At
  <2>2. /\ Written(r) /\ RunPartStays(r) /\ vault'[r].meta = vault[r].meta
        /\ vault'[r].signed = b /\ vault'[r].preview = vault[r].preview
        /\ vault'[r].receipt = vault[r].receipt
    BY <1>0, <1>5, <2>1, WritesBodyFile
  <2>3. /\ proc' = [q \in Procs |-> proc'[q]] /\ \A q \in Procs : IsCommand(proc'[q])
        /\ \A q \in Procs \ {p} : proc'[q] = proc[q]
        /\ proc'[p].pc = "preview.json" /\ proc'[p].run = r
        /\ proc'[p].body = b /\ proc'[p].shown = shown
    BY <1>0, <1>1, <1>2, <1>3, <2>1, Stepping
  <2>4. CommandOK(p)'
    <3>1. shown.body = b
      BY <1>0, <1>2, <1>3, <2>1 DEF CommandOK
    <3>2. /\ proc'[p].pc = "preview.json" /\ proc'[p].run \in Runs /\ vault'[proc'[p].run].dir
          /\ proc'[p].body \in Bodies' /\ proc'[p].shown \in service'.previews
          /\ proc'[p].shown.body = proc'[p].body
      BY <1>4, <1>5, <2>2, <2>3, <3>1 DEF Written
    <3> QED BY <3>2 DEF CommandOK, Pcs, RunPcs, PreviewPcs, SubmitPcs
  <2>5. ASSUME Solo(r)' PROVE OneBody(r)'
    <3>1. OneBody(r) /\ \A q \in Procs : proc[q].run = r => q = p
      BY <1>8, <2>5
    <3>2. /\ b.share \in shared[r]
          /\ \/ vault[r].signed = b
             \/ vault[r].signed = None /\ ~Ready(vault[r].preview) /\ service.stored[r] = None
      BY <1>1, <1>2, <2>1, <3>1 DEF OneBody
    <3>3. /\ service.stored[r] # None => b \in {service.stored[r], Torn}
          /\ Ready(vault[r].preview) => b \in {vault[r].preview.body, Torn}
      BY <3>1, <3>2 DEF OneBody
    <3>4. \A q \in Procs : proc'[q].run = r => q = p
      BY <2>3, <3>1
    <3> QED BY <1>4, <2>2, <2>3, <3>2, <3>3, <3>4 DEF OneBody
  <2>6. proc'[p].run \in {r, None} /\ proc'[p].pc \notin RunPcs
    BY <2>3 DEF RunPcs
  <2> QED BY <1>1, <1>4, <1>5, <1>6, <1>7, <2>2, <2>3, <2>4, <2>5, <2>6, BodyFile
<1>11. CASE WritePreview(p)
  <2>1. /\ vault' = [vault EXCEPT ![r].preview = shown] /\ proc[p].pc = "preview.json" /\ Ends(p)
    BY <1>1, <1>3, <1>11 DEF WritePreview, At
  <2>2. /\ Written(r) /\ RunPartStays(r) /\ vault'[r].meta = vault[r].meta
        /\ vault'[r].preview = shown /\ vault'[r].signed = vault[r].signed
        /\ vault'[r].receipt = vault[r].receipt
    BY <1>0, <1>5, <2>1, WritesBodyFile
  <2>3. /\ proc' = [q \in Procs |-> proc'[q]] /\ \A q \in Procs : IsCommand(proc'[q])
        /\ \A q \in Procs \ {p} : proc'[q] = proc[q]
        /\ proc'[p].run = None /\ proc'[p].pc = "idle" /\ proc'[p].pc \notin RunPcs
        /\ CommandOK(p)'
    BY <1>9, <2>1
  <2>4. ASSUME Solo(r)' PROVE OneBody(r)'
    <3>1. OneBody(r) /\ \A q \in Procs : proc[q].run = r => q = p
      BY <1>8, <2>4
    <3>2. vault[r].signed = b /\ shown.body = b
      BY <1>0, <1>1, <1>2, <1>3, <2>1, <3>1 DEF OneBody, CommandOK
    <3>3. \A q \in Procs : proc'[q].run # r
      BY <1>5, <2>3, <3>1, RunnerAssumption
    <3> QED BY <1>4, <2>2, <3>1, <3>2, <3>3 DEF OneBody
  <2> QED BY <1>1, <1>4, <1>5, <1>6, <1>7, <2>2, <2>3, <2>4, BodyFile
<1>12. CASE WriteReceipt(p)
  <2>1. /\ vault' = [vault EXCEPT ![r].receipt = b] /\ proc[p].pc = "receipt.json" /\ Ends(p)
    BY <1>1, <1>2, <1>12 DEF WriteReceipt, At
  <2>2. /\ Written(r) /\ RunPartStays(r) /\ vault'[r].meta = vault[r].meta
        /\ BodyStays(r) /\ vault'[r].receipt = b
    <3>1. Shape /\ r \in Runs /\ vault' = [vault EXCEPT ![r].receipt = b]
      BY <1>0, <1>5, <2>1
    <3> QED BY <3>1, WritesBodyFile
  <2>3. /\ proc' = [q \in Procs |-> proc'[q]] /\ \A q \in Procs : IsCommand(proc'[q])
        /\ \A q \in Procs \ {p} : proc'[q] = proc[q]
        /\ proc'[p].run = None /\ proc'[p].pc = "idle" /\ proc'[p].pc \notin RunPcs
        /\ CommandOK(p)'
    BY <1>9, <2>1
  <2>4. ASSUME Solo(r)' PROVE OneBody(r)'
    <3>1. OneBody(r) /\ \A q \in Procs : proc[q].run = r => q = p
      BY <1>8, <2>4
    <3>2. \A q \in Procs : proc'[q].run # r
      BY <1>5, <2>3, <3>1, RunnerAssumption
    <3> QED BY <1>4, <2>2, <3>1, <3>2 DEF OneBody, BodyStays
  <2>5. b = service.stored[r]
    BY <1>0, <1>1, <1>2, <2>1 DEF CommandOK
  <2>6. vault'[r].signed \in {None, Torn} \cup Bodies /\ vault'[r].preview \in {None, Torn} \cup service.previews
    BY <1>7, <2>2 DEF BodyStays
  <2> QED BY <1>1, <1>4, <1>5, <1>6, <2>2, <2>3, <2>4, <2>5, <2>6, BodyFile
<1> QED BY <1>10, <1>11, <1>12

-----------------------------------------------------------------------------
(* A process that dies leaves one file torn, or none.                        *)
LEMMA CrashOK ==
  ASSUME IInv, NEW p \in Procs, Crash(p)
  PROVE  IInv'
<1>0. /\ Shape /\ CommandOK(p) /\ OneBodyOK /\ clock \in Nat
      /\ \A o \in Runs : EntryOK(o)
  BY DEF IInv, Shape
<1>1. PICK r : r = proc[p].run
  OBVIOUS
<1>2. PICK torn \in BOOLEAN :
        /\ vault' = IF torn THEN TornEntry(p) ELSE vault
        /\ policy' = IF torn /\ At(p, "edit") THEN Torn ELSE policy
  BY DEF Crash
<1>3. /\ UNCHANGED <<work, child, service, clock, shared, crossed, answers>>
      /\ crashed' = crashed \cup {r} /\ crashed \subseteq crashed'
      /\ proc[p].pc # "idle" /\ Ends(p)
  BY <1>1 DEF Crash, At
<1>4. left' \in [Kinds -> Nat] /\ policy' \in {None, Torn} \cup Policies
  BY <1>0, <1>2, Spending DEF Crash, Kinds, Shape
<1>5. /\ proc' = [q \in Procs |-> proc'[q]] /\ \A q \in Procs : IsCommand(proc'[q])
      /\ \A q \in Procs \ {p} : proc'[q] = proc[q]
      /\ proc'[p].run = None /\ proc'[p].pc = "idle"
      /\ CommandOK(p)'
  <2>1. /\ proc' = [q \in Procs |-> proc'[q]] /\ \A q \in Procs : IsCommand(proc'[q])
        /\ \A q \in Procs \ {p} : proc'[q] = proc[q]
        /\ proc'[p] = Idle /\ Idle.pc = "idle" /\ Idle.run = None
    BY <1>0, <1>3, Ending
  <2>2. CommandOK(p)'
    BY <2>1 DEF CommandOK, Pcs, RunPcs, PreviewPcs, SubmitPcs
  <2> QED BY <2>1, <2>2
<1>6. CASE proc[p].pc = "edit"
  <2>1. vault' = vault
    BY <1>2, <1>6 DEF TornEntry, At
  <2>2. UNCHANGED <<record, service, shared, crossed, answers>>
    BY <1>3, <2>1 DEF record
  <2> QED BY <1>3, <1>4, <1>6, <2>2, GivesUp
<1>7. CASE proc[p].pc # "edit"
  <2>0. r \in Runs /\ EntryOK(r) /\ (~vault[r].dir => proc[p].pc = "manifest") /\ Bodies' = Bodies
    BY <1>0, <1>1, <1>3, <1>7 DEF CommandOK, Pcs, RunPcs, Bodies
  <2>1. ASSUME Written(r) \/ vault' = vault, proc[p].pc \in RunPcs \/ RunSame(r), EntryOK(r)',
               Solo(r)' => OneBody(r)'
        PROVE  IInv'
    <3>1. Written(r)
      BY <1>0, <2>1 DEF Written, Shape
    <3>2. Shape'
      BY <1>0, <1>3, <1>4, <1>5, <3>1 DEF Shape, Written, Entries, Bodies
    <3>3. \A o \in Runs \ {r} : vault'[o] = vault[o] /\ child'[o] = child[o] /\ work'[o] = work[o]
      BY <1>3, <3>1 DEF Written
    <3>4. /\ vault[r].dir => vault'[r].dir
          /\ proc'[p].run \in {r, None} /\ proc'[p].pc \notin RunPcs /\ r \in crashed'
      BY <1>3, <1>5, <3>1 DEF Written, RunPcs
    <3> QED BY <1>1, <1>3, <1>5, <2>0, <2>1, <3>2, <3>3, <3>4, Writes
  <2>2. ASSUME BodyStays(r) PROVE Solo(r)' => OneBody(r)'
    <3>1. vault'[r].signed = vault[r].signed /\ vault'[r].preview = vault[r].preview
      BY <2>2 DEF BodyStays
    <3>2. \A q \in Procs : proc'[q].run = r => proc[q].run = r /\ proc'[q] = proc[q]
      BY <1>5, <2>0, RunnerAssumption
    <3>3. /\ shared[r] \subseteq shared'[r] /\ crossed \subseteq crossed'
          /\ service'.stored[r] = service.stored[r]
      BY <1>3
    <3> QED BY <1>0, <2>0, <3>1, <3>2, <3>3, OneBodyKept
  <2>3. ASSUME Solo(r)' PROVE OneBody(r) /\ \A q \in Procs : proc'[q].run # r
    <3>1. OneBody(r)
      BY <1>0, <1>3, <2>0, <2>3 DEF Solo, OneBodyOK
    <3>2. \A q \in Procs : proc[q].run = r => q = p
      BY <1>1, <3>1 DEF OneBody
    <3> QED BY <1>5, <2>0, <3>1, <3>2, RunnerAssumption
  <2>4. CASE vault' = vault
    <3>1. BodyStays(r) /\ RunSame(r)
      BY <1>3, <2>4 DEF BodyStays, RunSame
    <3>2. EntryOK(r)'
      <4>1. ServiceGrows
        BY <1>0, <1>3 DEF ServiceGrows
      <4>2. vault'[r] = vault[r] /\ child'[r] = child[r]
        BY <1>3, <2>4
      <4> QED BY <2>0, <4>1, <4>2, EntryKept
    <3> QED BY <2>1, <2>2, <2>4, <3>1, <3>2
  <2>5. ASSUME Written(r), RunPartStays(r), vault[r].dir,
               vault'[r].meta \in {None, Torn} \cup BOOLEAN,
               vault'[r].signed \in {None, Torn} \cup Bodies,
               vault'[r].preview \in {None, Torn} \cup service.previews,
               vault'[r].receipt \in {None, Torn, service.stored[r]}
        PROVE  RunSame(r) /\ EntryOK(r)'
    <3>1. Drawn(r)'
      BY <1>3, <2>0, <2>5 DEF EntryOK, Drawn, RunPartStays, Seen
    <3>2. vault'[r].dir
      BY <2>5 DEF Written
    <3> QED BY <1>3, <2>0, <2>5, <3>1, <3>2 DEF EntryOK, RunPartStays, RunSame, Written
  <2>6. /\ vault[r].signed \in {None, Torn} \cup Bodies
        /\ vault[r].preview \in {None, Torn} \cup service.previews
        /\ vault[r].receipt \in {None, Torn, service.stored[r]}
        /\ vault[r].meta \in {None, Torn} \cup BOOLEAN
    BY <2>0 DEF EntryOK
  <2>7. CASE vault' # vault /\ proc[p].pc = "draft"
    <3>1. vault' = [vault EXCEPT ![r].draft = Torn]
      BY <1>1, <1>2, <2>7 DEF TornEntry, At
    <3>2. /\ Written(r) /\ BodyStays(r) /\ vault'[r].draft = Torn
          /\ vault'[r].input = vault[r].input /\ vault'[r].meta = vault[r].meta
          /\ vault'[r].receipt = vault[r].receipt
      BY <1>0, <2>0, <3>1, WritesRunFile
    <3>3. EntryOK(r)'
      <4>1. ~Ready(vault'[r].draft) /\ vault[r].dir
        BY <2>0, <2>7, <3>2 DEF Ready
      <4>2. Drawn(r)'
        BY <4>1 DEF Drawn
      <4> QED BY <1>3, <2>0, <3>2, <4>1, <4>2 DEF EntryOK, Written, BodyStays
    <3> QED BY <2>1, <2>2, <2>7, <3>2, <3>3 DEF RunPcs
  <2>8. CASE vault' # vault /\ proc[p].pc = "meta"
    <3>1. vault' = [vault EXCEPT ![r].meta = Torn]
      BY <1>1, <1>2, <2>8 DEF TornEntry, At
    <3>2. /\ Written(r) /\ BodyStays(r) /\ RunPartStays(r) /\ vault'[r].meta = Torn
          /\ vault'[r].receipt = vault[r].receipt
      BY <1>0, <2>0, <3>1, WritesRunFile
    <3>3. RunSame(r) /\ EntryOK(r)'
      <4>1. vault'[r].signed = vault[r].signed /\ vault'[r].preview = vault[r].preview /\ vault[r].dir
        BY <2>0, <2>8, <3>2 DEF BodyStays
      <4> QED BY <2>5, <2>6, <3>2, <4>1
    <3> QED BY <2>1, <2>2, <3>2, <3>3
  <2>9. CASE vault' # vault /\ proc[p].pc = "run.json"
    <3>1. vault' = [vault EXCEPT ![r].signed = Torn]
      BY <1>1, <1>2, <2>9 DEF TornEntry, At
    <3>2. /\ Written(r) /\ RunPartStays(r) /\ vault'[r].meta = vault[r].meta
          /\ vault'[r].signed = Torn /\ vault'[r].preview = vault[r].preview
          /\ vault'[r].receipt = vault[r].receipt
      BY <1>0, <2>0, <3>1, WritesBodyFile
    <3>3. RunSame(r) /\ EntryOK(r)'
      BY <2>0, <2>5, <2>6, <2>9, <3>2
    <3>4. ASSUME Solo(r)' PROVE OneBody(r)'
      <4>1. OneBody(r) /\ \A q \in Procs : proc'[q].run # r
        BY <2>3, <3>4
      <4>2. ~Ready(vault'[r].signed)
        BY <3>2 DEF Ready
      <4> QED BY <3>2, <4>1, <4>2 DEF OneBody
    <3> QED BY <2>1, <3>2, <3>3, <3>4
  <2>10. CASE vault' # vault /\ proc[p].pc = "preview.json"
    <3>1. vault' = [vault EXCEPT ![r].preview = Torn]
      BY <1>1, <1>2, <2>10 DEF TornEntry, At
    <3>2. /\ Written(r) /\ RunPartStays(r) /\ vault'[r].meta = vault[r].meta
          /\ vault'[r].preview = Torn /\ vault'[r].signed = vault[r].signed
          /\ vault'[r].receipt = vault[r].receipt
      BY <1>0, <2>0, <3>1, WritesBodyFile
    <3>3. RunSame(r) /\ EntryOK(r)'
      BY <2>0, <2>5, <2>6, <2>10, <3>2
    <3>4. ASSUME Solo(r)' PROVE OneBody(r)'
      <4>1. OneBody(r) /\ \A q \in Procs : proc'[q].run # r
        BY <2>3, <3>4
      <4>2. ~Ready(vault'[r].preview) /\ service' = service /\ shared' = shared
        BY <1>3, <3>2 DEF Ready
      <4> QED BY <3>2, <4>1, <4>2 DEF OneBody
    <3> QED BY <2>1, <3>2, <3>3, <3>4
  <2>11. CASE vault' # vault /\ proc[p].pc = "receipt.json"
    <3>1. vault' = [vault EXCEPT ![r].receipt = Torn]
      BY <1>1, <1>2, <2>11 DEF TornEntry, At
    <3>2. /\ Written(r) /\ RunPartStays(r) /\ vault'[r].meta = vault[r].meta
          /\ BodyStays(r) /\ vault'[r].receipt = Torn
      BY <1>0, <2>0, <3>1, WritesBodyFile
    <3>3. RunSame(r) /\ EntryOK(r)'
      <4>1. vault'[r].signed = vault[r].signed /\ vault'[r].preview = vault[r].preview /\ vault[r].dir
        BY <2>0, <2>11, <3>2 DEF BodyStays
      <4> QED BY <2>5, <2>6, <3>2, <4>1
    <3> QED BY <2>1, <2>2, <3>2, <3>3
  <2>12. vault' # vault => proc[p].pc \in {"draft", "meta", "run.json", "preview.json", "receipt.json"}
    BY <1>2 DEF TornEntry, At
  <2> QED BY <2>4, <2>7, <2>8, <2>9, <2>10, <2>11, <2>12
<1> QED BY <1>6, <1>7

-----------------------------------------------------------------------------
LEMMA StutterOK ==
  ASSUME IInv, UNCHANGED vars
  PROVE  IInv'
<1>1. /\ UNCHANGED <<policy, vault, work, child, proc, service, clock, left>>
      /\ UNCHANGED <<crashed, shared, crossed, answers>>
  BY DEF vars, files, record, history
<1>2. /\ Shape /\ RunsApart /\ OneBodyOK /\ AnswersOK /\ clock \in Nat
      /\ \A q \in Procs : CommandOK(q)
      /\ \A o \in Runs : EntryOK(o)
  BY DEF IInv, Shape
<1>3. Shape'
  BY <1>1, <1>2 DEF Shape, Entries, Bodies
<1>4. ServiceGrows
  BY <1>1, <1>2 DEF ServiceGrows
<1>5. \A q \in Procs : CommandOK(q)'
  BY <1>1, <1>2, <1>4, StillKnows DEF RunSame
<1>6. RunsApart'
  BY <1>1, <1>2, ApartKept
<1>7. \A o \in Runs : EntryOK(o)'
  BY <1>1, <1>2, <1>4, EntryKept
<1>8. OneBodyOK'
  <2>1. \A o \in Runs : Solo(o)' => OneBody(o)'
    BY <1>1, <1>2, OneBodyKept
  <2> QED BY <2>1 DEF OneBodyOK
<1>10. AnswersOK'
  BY <1>1, <1>2, <1>4, AnswersKept
<1> QED BY <1>3, <1>5, <1>6, <1>7, <1>8, <1>10 DEF IInv

LEMMA NextOK == IInv /\ [Next]_vars => IInv'
<1> SUFFICES ASSUME IInv, [Next]_vars PROVE IInv'
  OBVIOUS
<1>1. CASE UNCHANGED vars
  BY <1>1, StutterOK
<1>2. CASE Tick
  BY <1>2, TickOK
<1>3. ASSUME NEW p \in Procs, Command(p) PROVE IInv'
  BY <1>3, HomeSteps, RunStartOK, RunLaunchOK, HarnessSteps, RecordSteps, StartSteps,
     ReadSteps, SubmitServedOK, FileSteps DEF Command
<1>4. ASSUME NEW p \in Procs, TheHarness(p) PROVE IInv'
  BY <1>4, HarnessSteps
<1>5. ASSUME NEW p \in Procs, Crash(p) PROVE IInv'
  BY <1>5, CrashOK
<1> QED BY <1>1, <1>2, <1>3, <1>4, <1>5 DEF Next

\* Whatever commands, harnesses and crashes of a home do, what its commands know stays
\* true, drafts are what the runner makes of a harness, and a run that is previewed under
\* one policy by one command at a time has one body from its first file to its stored row.
THEOREM HomeInvariant == Spec => []IInv
<1> QED BY InitOK, NextOK, PTL DEF Spec

\* The files of a vault entry hold what the runner writes to them or what a crash left of
\* it; rows and previews of the service are bodies; an exclusion, and nothing else, has a reason.
THEOREM HomeTyped == Spec => []TypeOK
<1>1. IInv => TypeOK
  BY DEF IInv, Shape, EntryOK, TypeOK, Policies
<1> QED BY <1>1, HomeInvariant, PTL

\* run.ts and accounting.ts: a run is recorded as succeeded only when its harness exited
\* with 0 in time, met no egress denial, backed the planned attempts and the result, and
\* every required context key is known.
THEOREM SuccessIsBacked == Spec => []SucceededIsBacked
<1>1. IInv => SucceededIsBacked
  <2> SUFFICES ASSUME IInv, NEW r \in Runs, Ready(vault[r].draft),
                      vault[r].draft.status = "succeeded", child[r].state # "none"
               PROVE  LET h == child[r] IN
                      /\ h.code = 0 /\ ~h.timedOut /\ ~h.egress /\ ~h.bad /\ ~h.offSchema
                      /\ h.result = "valid" /\ Reported(h.lines) = Planned
                      /\ \A k \in Required :
                           \/ k \in DOMAIN vault[r].input /\ vault[r].input[k] # Null
                           \/ k \in DOMAIN h.context /\ h.context[k].value # Null
    BY DEF SucceededIsBacked
  <2>1. PICK a \in Asks : vault[r].input = a.context /\ vault[r].draft = Draft(Seen(r, a), Planned)
    BY DEF IInv, EntryOK, Drawn
  <2>2. PICK seen : seen = Seen(r, a)
    OBVIOUS
  <2>3. PICK h : h = child[r]
    OBVIOUS
  <2>4. /\ seen.code = 0 /\ ~seen.timedOut /\ ~seen.egress /\ ~seen.bad /\ ~seen.offSchema
        /\ seen.result = "valid" /\ ~seen.unknown /\ Reported(seen.lines) = Planned
    BY <2>1, <2>2, DraftExplained
  <2>5. /\ seen.egress = h.egress /\ seen.timedOut = h.timedOut /\ seen.code = h.code
        /\ seen.lines = h.lines /\ seen.bad = h.bad /\ seen.result = h.result
        /\ seen.offSchema = h.offSchema
        /\ seen.unknown = (Unknown(Required, a.context, h.context) # {})
    BY <2>2, <2>3 DEF Seen
  <2>6. Unknown(Required, a.context, h.context) = {}
    BY <2>4, <2>5
  <2>7. ASSUME NEW k \in Required
        PROVE  \/ k \in DOMAIN a.context /\ a.context[k] # Null
               \/ k \in DOMAIN h.context /\ h.context[k].value # Null
    <3>1. Merged(k, a.context, h.context).value # Null
      BY <2>6 DEF Unknown
    <3>2. CASE ~Wins(k, h.context) /\ k \in DOMAIN a.context
      BY <3>1, <3>2 DEF Merged
    <3>3. CASE ~(~Wins(k, h.context) /\ k \in DOMAIN a.context)
      BY <3>1, <3>3 DEF Merged
    <3> QED BY <3>2, <3>3
  <2> QED BY <2>1, <2>3, <2>4, <2>5, <2>7
<1> QED BY <1>1, HomeInvariant, PTL

\* accounting.ts: the accounting of a draft adds up, successes and failures are the lines
\* that the harness wrote, and what it did not report is never counted as observed.
THEOREM AccountsAddUp == Spec => []AccountingIsExact
<1>1. IInv => AccountingIsExact
  <2> SUFFICES ASSUME IInv, NEW r \in Runs, Ready(vault[r].draft), child[r].state # "none"
               PROVE  LET a == vault[r].draft.accounting
                          l == child[r].lines
                      IN  /\ a.planned >= Planned
                          /\ a.planned = a.succeeded + a.failed + a.excluded + a.unobserved
                          /\ a.succeeded = l["succeeded"] /\ a.failed = l["failed"]
                          /\ a.attempted = a.succeeded + a.failed
                          /\ a.excluded >= l["excluded"] /\ a.unobserved >= l["unobserved"]
    BY DEF AccountingIsExact
  <2>1. PICK b \in Asks : vault[r].draft = Draft(Seen(r, b), Planned)
    BY DEF IInv, EntryOK, Drawn
  <2>2. PICK l : l = child[r].lines
    OBVIOUS
  <2>3. Seen(r, b).lines = l
    BY <2>2 DEF Seen
  <2>4. PICK m \in {"excluded", "unobserved"} : vault[r].draft.accounting = Accounting(l, Planned, m)
    BY <2>1, <2>3, DraftExplained
  <2>5. PICK a : a = Accounting(l, Planned, m)
    OBVIOUS
  <2>6. l \in [Statuses -> Nat] /\ Planned \in Nat
    BY <2>2, RunnerAssumption DEF IInv, Shape, IsHarness
  <2>7. /\ l["succeeded"] \in Nat /\ l["failed"] \in Nat /\ l["excluded"] \in Nat /\ l["unobserved"] \in Nat
    BY <2>6 DEF Statuses
  <2>8. /\ a.planned = IF Reported(l) > Planned THEN Reported(l) ELSE Planned
        /\ a.attempted = l["succeeded"] + l["failed"]
        /\ a.succeeded = l["succeeded"] /\ a.failed = l["failed"]
        /\ a.excluded = IF m = "excluded" THEN l["excluded"] + Missing(l, Planned) ELSE l["excluded"]
        /\ a.unobserved = IF m = "unobserved" THEN l["unobserved"] + Missing(l, Planned)
                          ELSE l["unobserved"]
    BY <2>5 DEF Accounting, Statuses
  <2>9. /\ Reported(l) = l["succeeded"] + l["failed"] + l["excluded"] + l["unobserved"]
        /\ Missing(l, Planned) = IF Reported(l) < Planned THEN Planned - Reported(l) ELSE 0
    BY DEF Reported, Missing
  <2>10. /\ a.planned >= Planned
         /\ a.planned = a.succeeded + a.failed + a.excluded + a.unobserved
         /\ a.excluded >= l["excluded"] /\ a.unobserved >= l["unobserved"]
    BY <2>6, <2>7, <2>8, <2>9
  <2> QED BY <2>2, <2>4, <2>5, <2>8, <2>10
<1> QED BY <1>1, HomeInvariant, PTL

-----------------------------------------------------------------------------
(* Plans.  Every version of the plan, the saved one and those that runs      *)
(* loaded and carry, agrees with the vault; of two that are carried at once, *)
(* both runs overlapped, so that neither version misses more than those.     *)
Versions == {v \in Plans : plan = v \/ \E p \in Procs : proc[p].planned = v}

Lists(v) ==
  /\ \A r \in v.runs : OfPlan(r)
  /\ \A r \in Runs : OfPlan(r) =>
       \/ r \in v.runs \cup crashed \cup overlapped
       \/ \E p \in Procs : proc[p].run = r /\ At(p, "plan")

\* A run of the plan carries the plan that it loaded until it saves it.
CarriesOK(p) ==
  /\ proc[p].planned \in {None} \cup Plans
  /\ proc[p].planned # None => proc[p].pc \in RunPcs
  /\ proc[p].pc = "plan" => proc[p].planned # None /\ OfPlan(proc[p].run)
  /\ proc[p].pc \in RunPcs \ {"plan"} => ~OfPlan(proc[p].run)

PInv ==
  /\ plan \in {None, Torn} \cup Plans
  /\ plan = None => PlanRuns = {} /\ \A r \in Runs : ~OfPlan(r)
  /\ \A v \in Versions : Lists(v)
  /\ \A p \in Procs : CarriesOK(p)
  /\ \A p, q \in PlanRuns : p # q => proc[p].run \in overlapped

LEMMA PlanInitOK == Init => PInv
<1> SUFFICES ASSUME Init PROVE PInv
  OBVIOUS
<1>1. PICK w \in Workload :
        vault = [r \in Runs |-> IF r \in w.recorded THEN Recorded ELSE NoEntry] /\ plan = w.plan
  BY DEF Init
<1>2. plan \in {None} \cup NewPlans
  BY <1>1, RunnerAssumption
<1>3. \A r \in Runs : ~OfPlan(r)
  <2>1. Recorded.meta = FALSE /\ NoEntry.meta = None
    BY DEF Recorded, NoEntry
  <2> QED BY <1>1, <2>1, RunnerAssumption DEF OfPlan
<1>4. \A p \in Procs : proc[p].pc = "idle" /\ proc[p].planned = None
  BY DEF Init, Idle
<1>5. PlanRuns = {}
  BY <1>4 DEF PlanRuns
<1>6. \A v \in Versions : v \in NewPlans
  BY <1>2, <1>4, RunnerAssumption DEF Versions
<1>7. \A v \in Versions : Lists(v)
  BY <1>3, <1>6 DEF Lists, NewPlans
<1>8. \A p \in Procs : CarriesOK(p)
  BY <1>4 DEF CarriesOK, RunPcs
<1> QED BY <1>2, <1>3, <1>5, <1>7, <1>8 DEF PInv, NewPlans

\* The runs that the vault has as runs of the plan are the same.
OfPlanSame == \A r \in Runs : OfPlan(r)' <=> OfPlan(r)

\* Where a command goes when it neither loads nor saves the plan.
Onward(p) ==
  \/ proc'[p] = proc[p]
  \/ proc[p].pc # "plan" /\ proc'[p].planned = None /\ proc'[p].pc \notin RunPcs
  \/ /\ proc'[p].planned = proc[p].planned /\ proc'[p].run = proc[p].run
     /\ proc[p].pc \in RunPcs \ {"plan"} /\ proc'[p].pc \in RunPcs \ {"plan"}

LEMMA PlanStays ==
  ASSUME PInv, \A q \in Procs : CommandOK(q),
         NEW p \in Procs, UNCHANGED <<plan, overlapped>>, crashed \subseteq crashed',
         \A q \in Procs \ {p} : proc'[q] = proc[q], OfPlanSame, Onward(p)
  PROVE  PInv'
<1>1. \A q \in Procs : proc[q].pc = "plan" => proc'[q] = proc[q]
  BY DEF Onward
<1>2. \A q \in Procs : proc'[q].planned # None =>
         proc[q].planned = proc'[q].planned /\ proc'[q].run = proc[q].run
  BY DEF Onward
<1>3. PlanRuns' \subseteq PlanRuns
  BY <1>2 DEF PlanRuns
<1>4. Versions' \subseteq Versions
  BY <1>2, RunnerAssumption DEF Versions
<1>5. ASSUME NEW v \in Versions' PROVE Lists(v)'
  <2>1. Lists(v) /\ v.runs \subseteq Runs
    BY <1>4 DEF PInv, Versions, Plans
  <2> QED BY <1>1, <2>1 DEF Lists, OfPlanSame, At
<1>6. ASSUME NEW q \in Procs PROVE CarriesOK(q)'
  <2>1. CarriesOK(q) /\ CommandOK(q)
    BY DEF PInv
  <2>2. CASE proc'[q] = proc[q]
    BY <2>1, <2>2 DEF CarriesOK, CommandOK, OfPlanSame, RunPcs
  <2>3. CASE proc'[q] # proc[q]
    BY <2>1, <2>3 DEF CarriesOK, CommandOK, OfPlanSame, Onward, RunPcs
  <2> QED BY <2>2, <2>3
<1>7. plan' = None => PlanRuns' = {} /\ \A r \in Runs : ~OfPlan(r)'
  BY <1>3 DEF PInv, OfPlanSame
<1>8. \A q, s \in PlanRuns' : q # s => proc'[q].run \in overlapped'
  BY <1>2, <1>3 DEF PInv, PlanRuns
<1> QED BY <1>5, <1>6, <1>7, <1>8 DEF PInv

\* A step that leaves every run's metadata alone.
LEMMA MetaStays ==
  ASSUME \A r \in Runs : vault'[r].meta = vault[r].meta
  PROVE  OfPlanSame
  BY DEF OfPlanSame, OfPlan

LEMMA OtherFile ==
  ASSUME Shape, NEW r, NEW x,
         \/ vault' = [vault EXCEPT ![r].dir = x]    \/ vault' = [vault EXCEPT ![r].input = x]
         \/ vault' = [vault EXCEPT ![r].draft = x]  \/ vault' = [vault EXCEPT ![r].signed = x]
         \/ vault' = [vault EXCEPT ![r].preview = x] \/ vault' = [vault EXCEPT ![r].receipt = x]
         \/ vault' = vault
  PROVE  OfPlanSame
<1> SUFFICES ASSUME NEW o \in Runs PROVE vault'[o].meta = vault[o].meta
  BY MetaStays
<1>0. vault = [q \in Runs |-> vault[q]] /\ IsEntry(vault[o])
  BY DEF Shape
<1>1. CASE vault' = [vault EXCEPT ![r].dir = x]
  BY <1>0, <1>1 DEF IsEntry
<1>2. CASE vault' = [vault EXCEPT ![r].input = x]
  BY <1>0, <1>2 DEF IsEntry
<1>3. CASE vault' = [vault EXCEPT ![r].draft = x]
  BY <1>0, <1>3 DEF IsEntry
<1>4. CASE vault' = [vault EXCEPT ![r].signed = x]
  BY <1>0, <1>4 DEF IsEntry
<1>5. CASE vault' = [vault EXCEPT ![r].preview = x]
  BY <1>0, <1>5 DEF IsEntry
<1>6. CASE vault' = [vault EXCEPT ![r].receipt = x]
  BY <1>0, <1>6 DEF IsEntry
<1> QED BY <1>1, <1>2, <1>3, <1>4, <1>5, <1>6

-----------------------------------------------------------------------------
(* The steps.                                                                *)
LEMMA MakePlanOK ==
  ASSUME IInv, PInv, NEW p \in Procs, MakePlan(p)
  PROVE  PInv'
<1>1. /\ UNCHANGED <<vault, proc, crashed, overlapped>> /\ plan = None
  BY DEF MakePlan, record, history
<1>2. PICK a \in Asks : plan' = [ask |-> a, allowed |-> Allowed(LoadedPolicy, a), runs |-> {}]
  BY DEF MakePlan
<1>3. plan' \in NewPlans
  BY <1>2 DEF NewPlans, Plans, Allowed
<1>4. PlanRuns = {} /\ \A r \in Runs : ~OfPlan(r)
  BY <1>1 DEF PInv
<1>5. \A q \in Procs : proc[q].planned = None
  BY <1>4 DEF PlanRuns
<1>6. ASSUME NEW v \in Versions' PROVE Lists(v)'
  <2>1. v \in NewPlans
    BY <1>1, <1>3, <1>5, RunnerAssumption DEF Versions
  <2> QED BY <1>1, <1>4, <2>1 DEF Lists, OfPlan, NewPlans
<1>7. \A q \in Procs : CarriesOK(q)'
  BY <1>1 DEF PInv, CarriesOK, OfPlan
<1> QED BY <1>1, <1>3, <1>4, <1>6, <1>7, RunnerAssumption DEF PInv, PlanRuns, NewPlans

LEMMA RunStartPlanOK ==
  ASSUME IInv, PInv, NEW p \in Procs, RunStart(p)
  PROVE  PInv'
<1>0. /\ Shape /\ proc[p].pc = "idle" /\ \A q \in Procs : CommandOK(q)
      /\ UNCHANGED <<plan, vault, crashed>>
  BY DEF IInv, RunStart, Begins, files, record
<1>1. OfPlanSame
  BY <1>0, MetaStays
<1>2. proc[p].planned = None
  BY <1>0 DEF CommandOK, Idle
<1>3. PICK r \in Runs, fromPlan \in BOOLEAN, a \in Asks :
        /\ ~vault[r].dir
        /\ fromPlan => Ready(plan)
        /\ \/ Goes(p, [Idle EXCEPT !.pc = "manifest", !.run = r, !.ask = a, !.policy = LoadedPolicy,
                                   !.planned = IF fromPlan THEN plan ELSE None]) /\ Overlaps(r, fromPlan)
           \/ Ends(p) /\ UNCHANGED overlapped
  <2>1. PICK r : r = CHOOSE o \in Fresh : TRUE
    OBVIOUS
  <2>2. r \in Runs /\ ~vault[r].dir
    BY <2>1 DEF RunStart, Fresh
  <2> QED BY <2>1, <2>2 DEF RunStart
<1>4. CASE Ends(p) /\ UNCHANGED overlapped
  <2>1. proc'[p] = Idle /\ \A q \in Procs \ {p} : proc'[q] = proc[q]
    BY <1>0, <1>4, Ending
  <2>2. proc'[p] = proc[p]
    BY <1>0, <2>1 DEF CommandOK
  <2> QED BY <1>0, <1>1, <1>4, <2>1, <2>2, PlanStays DEF Onward
<1>5. CASE ~(Ends(p) /\ UNCHANGED overlapped)
  <2>1. PICK loaded, c :
          /\ loaded = (IF fromPlan THEN plan ELSE None)
          /\ c = [Idle EXCEPT !.pc = "manifest", !.run = r, !.ask = a, !.policy = LoadedPolicy,
                              !.planned = loaded]
          /\ Goes(p, c)
    BY <1>3, <1>5
  <2>2. IsCommand(c) /\ c.pc = "manifest" /\ c.run = r /\ c.planned = loaded
    BY <2>1 DEF IsCommand, Idle
  <2>3. proc'[p] = c /\ \A q \in Procs \ {p} : proc'[q] = proc[q]
    BY <1>0, <2>1, <2>2, Going
  <2>4. ~OfPlan(r)
    <3>1. vault[r].meta = None
      BY <1>3 DEF IInv, EntryOK, NoEntry
    <3> QED BY <3>1, RunnerAssumption DEF OfPlan
  <2>5. Overlaps(r, fromPlan) /\ overlapped \subseteq overlapped'
    BY <1>3, <1>5 DEF Overlaps
  <2>6. loaded \in {None} \cup Plans /\ (loaded # None => loaded = plan /\ fromPlan)
    BY <1>3, <2>1 DEF PInv, Ready
  <2>7. ASSUME NEW v \in Versions' PROVE Lists(v)'
    <3>1. v \in Versions
      BY <1>0, <2>2, <2>3, <2>6, RunnerAssumption DEF Versions
    <3>2. Lists(v) /\ v.runs \subseteq Runs
      BY <3>1 DEF PInv, Versions, Plans
    <3>3. \A q \in Procs : At(q, "plan") => proc'[q] = proc[q]
      BY <1>0, <2>3 DEF At
    <3> QED BY <1>0, <1>1, <2>5, <3>2, <3>3 DEF Lists, OfPlanSame, At
  <2>8. ASSUME NEW q \in Procs PROVE CarriesOK(q)'
    <3>1. CASE q = p
      BY <1>0, <1>1, <2>2, <2>3, <2>4, <2>6, <3>1 DEF CarriesOK, OfPlanSame, RunPcs
    <3>2. CASE q # p
      BY <1>0, <1>1, <2>3, <3>2 DEF PInv, CarriesOK, CommandOK, OfPlanSame
    <3> QED BY <3>1, <3>2
  <2>9. ASSUME NEW q \in PlanRuns', NEW s \in PlanRuns', q # s PROVE proc'[q].run \in overlapped'
    <3>1. q \in Procs /\ s \in Procs
      BY DEF PlanRuns
    <3>2. CASE q = p
      <4>1. s \in PlanRuns /\ fromPlan
        BY <2>2, <2>3, <2>6, <2>9, <3>1, <3>2 DEF PlanRuns
      <4> QED BY <2>2, <2>3, <2>5, <3>2, <4>1 DEF Overlaps
    <3>3. CASE s = p
      <4>1. q \in PlanRuns /\ fromPlan /\ proc'[q] = proc[q]
        BY <2>2, <2>3, <2>6, <2>9, <3>1, <3>3 DEF PlanRuns
      <4> QED BY <2>5, <4>1 DEF Overlaps
    <3>4. CASE q # p /\ s # p
      BY <2>3, <2>5, <2>9, <3>1, <3>4 DEF PInv, PlanRuns
    <3> QED BY <3>2, <3>3, <3>4
  <2>10. plan' = None => PlanRuns' = {} /\ \A o \in Runs : ~OfPlan(o)'
    BY <1>0, <1>1, <1>3, <2>2, <2>3, <2>6 DEF PInv, PlanRuns, OfPlanSame, Ready
  <2> QED BY <1>0, <2>7, <2>8, <2>9, <2>10 DEF PInv
<1> QED BY <1>4, <1>5

\* A run writes to the vault that it is of its plan, and is about to save the plan.
LEMMA WriteMetaPlanOK ==
  ASSUME IInv, PInv, NEW p \in Procs, WriteMeta(p)
  PROVE  PInv'
<1>0. /\ Shape /\ RunsApart /\ proc[p].pc = "meta" /\ proc[p].run \in Runs
      /\ \A q \in Procs : CommandOK(q)
      /\ UNCHANGED <<plan, crashed, overlapped>>
  BY DEF IInv, WriteMeta, CommandOK, At, RunPcs, files, history
<1>1. PICK r \in Runs, ofPlan \in BOOLEAN :
        /\ r = proc[p].run /\ ofPlan = (proc[p].planned # None)
        /\ vault' = [vault EXCEPT ![r].meta = ofPlan]
  BY <1>0 DEF WriteMeta
<1>2. vault'[r].meta = ofPlan /\ \A o \in Runs \ {r} : vault'[o] = vault[o]
  <2>1. Shape /\ vault' = [vault EXCEPT ![r].meta = ofPlan]
    BY <1>0, <1>1
  <2>2. Written(r) /\ vault'[r].meta = ofPlan
    BY <2>1, WritesRunFile
  <2> QED BY <2>2 DEF Written
<1>3. ~OfPlan(r) /\ (OfPlan(r)' <=> ofPlan) /\ \A o \in Runs \ {r} : OfPlan(o)' <=> OfPlan(o)
  BY <1>0, <1>1, <1>2 DEF PInv, CarriesOK, OfPlan, RunPcs
<1>4. CASE proc[p].planned = None
  <2>1. OfPlanSame
    BY <1>1, <1>3, <1>4 DEF OfPlanSame
  <2>2. proc'[p] = Idle /\ Idle.planned = None /\ Idle.pc = "idle"
        /\ \A q \in Procs \ {p} : proc'[q] = proc[q]
    BY <1>0, <1>4, Ending DEF WriteMeta, Idle
  <2> QED BY <1>0, <2>1, <2>2, PlanStays DEF Onward, RunPcs
<1>5. CASE proc[p].planned # None
  <2>1. /\ proc'[p].pc = "plan" /\ proc'[p].run = r /\ proc'[p].planned = proc[p].planned
        /\ \A q \in Procs \ {p} : proc'[q] = proc[q]
    BY <1>0, <1>1, <1>5, Stepping DEF WriteMeta
  <2>2. p \in PlanRuns /\ PlanRuns' = PlanRuns /\ Versions' = Versions
    BY <1>0, <1>5, <2>1 DEF PlanRuns, Versions
  <2>3. \A q \in Procs : proc[q].pc = "plan" => proc'[q] = proc[q]
    BY <1>0, <2>1
  <2>4. ASSUME NEW v \in Versions PROVE Lists(v)'
    <3>1. Lists(v) /\ v.runs \subseteq Runs
      BY DEF PInv, Versions, Plans
    <3> QED BY <1>0, <1>3, <2>1, <2>3, <3>1 DEF Lists, At
  <2>5. ASSUME NEW q \in Procs PROVE CarriesOK(q)'
    <3>1. CASE q = p
      BY <1>1, <1>3, <1>5, <2>1, <3>1 DEF PInv, CarriesOK, RunPcs
    <3>2. CASE q # p
      <4>1. proc[q].pc \in RunPcs => proc[q].run \in Runs \ {r}
        BY <1>0, <1>1, <3>2 DEF RunsApart, CommandOK, RunPcs
      <4> QED BY <1>3, <2>1, <3>2, <4>1 DEF PInv, CarriesOK, RunPcs
    <3> QED BY <3>1, <3>2
  <2>6. \A q \in Procs : proc'[q].run = proc[q].run
    BY <1>1, <2>1
  <2> QED BY <1>0, <2>2, <2>4, <2>5, <2>6 DEF PInv, PlanRuns
<1> QED BY <1>4, <1>5

\* The saved plan is one that a run carried: it may miss runs that overlapped this one.
LEMMA SavePlanPlanOK ==
  ASSUME IInv, PInv, NEW p \in Procs, SavePlan(p)
  PROVE  PInv'
<1>0. /\ Shape /\ proc[p].pc = "plan" /\ proc[p].run \in Runs
      /\ UNCHANGED <<vault, crashed, overlapped>>
      /\ Ends(p) /\ plan' = [proc[p].planned EXCEPT !.runs = @ \cup {proc[p].run}]
  BY DEF IInv, SavePlan, CommandOK, At, RunPcs, record, history
<1>1. PICK r \in Runs, v \in Plans : r = proc[p].run /\ v = proc[p].planned /\ OfPlan(r)
  BY <1>0 DEF PInv, CarriesOK
<1>2. plan' \in Plans /\ plan'.runs = v.runs \cup {r}
  BY <1>0, <1>1 DEF Plans
<1>3. /\ proc'[p].pc = "idle" /\ proc'[p].planned = None
      /\ \A q \in Procs \ {p} : proc'[q] = proc[q]
  BY <1>0, Ending DEF Idle
<1>4. p \in PlanRuns /\ v \in Versions /\ v # None
  BY <1>1, RunnerAssumption DEF PlanRuns, Versions
<1>5. \A o \in Runs : OfPlan(o)' <=> OfPlan(o)
  BY <1>0 DEF OfPlan
<1>6. ASSUME NEW u \in Versions' PROVE Lists(u)'
  <2>1. CASE u = plan'
    <3>1. Lists(v)
      BY <1>4 DEF PInv
    <3>2. \A o \in u.runs : OfPlan(o)
      BY <1>1, <1>2, <2>1, <3>1 DEF Lists
    <3>3. \A q \in Procs \ {p} : At(q, "plan") => At(q, "plan")' /\ proc'[q].run = proc[q].run
      BY <1>3 DEF At
    <3>4. u.runs \subseteq Runs
      BY <1>2, <2>1 DEF Plans
    <3> QED BY <1>0, <1>1, <1>2, <1>5, <2>1, <3>1, <3>2, <3>3, <3>4 DEF Lists
  <2>2. CASE u # plan'
    <3>1. PICK q \in Procs : proc'[q].planned = u
      BY <2>2 DEF Versions
    <3>2. q # p /\ u \in Plans
      BY <1>3, <3>1, RunnerAssumption DEF Versions
    <3>3. proc[q].planned = u /\ q \in PlanRuns /\ u \in Versions
      BY <1>3, <3>1, <3>2, RunnerAssumption DEF PlanRuns, Versions
    <3>4. r \in overlapped /\ Lists(u)
      BY <1>1, <1>4, <3>2, <3>3 DEF PInv
    <3>5. u.runs \subseteq Runs
      BY <3>2 DEF Plans
    <3>6. \A s \in Procs \ {p} : At(s, "plan") => At(s, "plan")' /\ proc'[s].run = proc[s].run
      BY <1>3 DEF At
    <3> QED BY <1>0, <1>1, <1>5, <3>4, <3>5, <3>6 DEF Lists
  <2> QED BY <2>1, <2>2
<1>7. ASSUME NEW q \in Procs PROVE CarriesOK(q)'
  <2>1. CASE q = p
    BY <1>3, <2>1 DEF CarriesOK, RunPcs
  <2>2. CASE q # p
    <3>1. CommandOK(q)
      BY DEF IInv
    <3> QED BY <1>3, <1>5, <2>2, <3>1 DEF PInv, CarriesOK, CommandOK
  <2> QED BY <2>1, <2>2
<1>8. \A q, s \in PlanRuns' : q # s => proc'[q].run \in overlapped'
  BY <1>0, <1>3 DEF PInv, PlanRuns
<1> QED BY <1>2, <1>6, <1>7, <1>8, RunnerAssumption DEF PInv

\* What is left of the plan after a crash is the plan, or nothing.
LEMMA CrashPlanOK ==
  ASSUME IInv, PInv, NEW p \in Procs, Crash(p)
  PROVE  PInv'
<1>0. /\ Shape /\ \A q \in Procs : CommandOK(q)
      /\ Ends(p) /\ overlapped' = overlapped /\ crashed' = crashed \cup {proc[p].run}
      /\ plan' \in {plan, Torn} /\ vault' \in {vault, TornEntry(p)}
      /\ plan' = Torn => proc[p].pc = "plan" \/ plan' = plan
  BY DEF IInv, Crash, At
<1>1. /\ proc'[p].pc = "idle" /\ proc'[p].planned = None
      /\ \A q \in Procs \ {p} : proc'[q] = proc[q]
  BY <1>0, Ending DEF Idle
<1>2. OfPlanSame
  <2>1. CASE proc[p].pc # "meta" \/ vault' = vault
    <3>1. \/ vault' = [vault EXCEPT ![proc[p].run].draft = Torn]
          \/ vault' = [vault EXCEPT ![proc[p].run].signed = Torn]
          \/ vault' = [vault EXCEPT ![proc[p].run].preview = Torn]
          \/ vault' = [vault EXCEPT ![proc[p].run].receipt = Torn]
          \/ vault' = vault
      BY <1>0, <2>1 DEF TornEntry, At
    <3> QED BY <1>0, <3>1, OtherFile
  <2>2. CASE proc[p].pc = "meta" /\ vault' # vault
    <3>1. PICK r \in Runs : r = proc[p].run /\ ~OfPlan(r)
      BY <1>0, <2>2 DEF PInv, CarriesOK, CommandOK, RunPcs
    <3>2. vault' = [vault EXCEPT ![r].meta = Torn]
      BY <1>0, <2>2, <3>1 DEF TornEntry, At
    <3>3. vault'[r].meta = Torn /\ \A o \in Runs \ {r} : vault'[o] = vault[o]
      <4>1. Written(r) /\ vault'[r].meta = Torn
        BY <1>0, <3>2, WritesRunFile
      <4> QED BY <4>1 DEF Written
    <3> QED BY <3>1, <3>3, RunnerAssumption DEF OfPlanSame, OfPlan
  <2> QED BY <2>1, <2>2
<1>3. PlanRuns' \subseteq PlanRuns /\ Versions' \subseteq Versions
  BY <1>0, <1>1, RunnerAssumption DEF PlanRuns, Versions
<1>4. ASSUME NEW v \in Versions' PROVE Lists(v)'
  <2>1. Lists(v) /\ v.runs \subseteq Runs
    BY <1>3 DEF PInv, Versions, Plans
  <2>2. \A q \in Procs \ {p} : At(q, "plan") => At(q, "plan")' /\ proc'[q].run = proc[q].run
    BY <1>1 DEF At
  <2> QED BY <1>0, <1>2, <2>1, <2>2 DEF Lists, OfPlanSame
<1>5. ASSUME NEW q \in Procs PROVE CarriesOK(q)'
  <2>1. CASE q = p
    BY <1>1, <2>1 DEF CarriesOK, RunPcs
  <2>2. CASE q # p
    BY <1>0, <1>1, <1>2, <2>2 DEF PInv, CarriesOK, CommandOK, OfPlanSame, RunPcs
  <2> QED BY <2>1, <2>2
<1>6. \A q, s \in PlanRuns' : q # s => proc'[q].run \in overlapped'
  BY <1>0, <1>1, <1>3 DEF PInv, PlanRuns
<1>7. plan' = None => PlanRuns' = {} /\ \A o \in Runs : ~OfPlan(o)'
  BY <1>0, <1>2, <1>3, RunnerAssumption DEF PInv, OfPlanSame
<1> QED BY <1>0, <1>4, <1>5, <1>6, <1>7 DEF PInv

LEMMA QuietPlanOK ==
  ASSUME IInv, PInv,
         UNCHANGED <<plan, vault, proc, crashed, overlapped>>
  PROVE  PInv'
<1>1. \A v \in Versions' : Lists(v)'
  BY DEF PInv, Versions, Lists, OfPlan, At
<1>2. \A q \in Procs : CarriesOK(q)'
  BY DEF PInv, CarriesOK, OfPlan
<1> QED BY <1>1, <1>2 DEF PInv, PlanRuns, OfPlan

\* Commands on the way between their files, the registry and the service.
LEMMA OnwardOK ==
  ASSUME IInv, PInv, NEW p \in Procs,
         RunLaunch(p) \/ Collect(p) \/ WriteDraft(p)
  PROVE  PInv'
<1>0. /\ Shape /\ \A q \in Procs : CommandOK(q)
      /\ UNCHANGED <<plan, crashed, overlapped>>
      /\ proc[p].pc \in {"manifest", "harness", "draft"}
  BY DEF IInv, RunLaunch, Collect, WriteDraft, At, files, history
<1>1. OfPlanSame
  <2>1. \/ vault' = [vault EXCEPT ![proc[p].run].dir = TRUE]
        \/ vault' = [vault EXCEPT ![proc[p].run].input = proc[p].ask.context]
        \/ vault' = [vault EXCEPT ![proc[p].run].draft = Draft(Seen(proc[p].run, proc[p].ask), Planned)]
        \/ vault' = vault
    BY DEF RunLaunch, Collect, WriteDraft, record
  <2> QED BY <1>0, <2>1, OtherFile
<1>2. Ends(p) \/ Steps(p, "harness") \/ Steps(p, "draft") \/ Steps(p, "meta")
  BY DEF RunLaunch, Collect, WriteDraft
<1>3. Onward(p) /\ \A q \in Procs \ {p} : proc'[q] = proc[q]
  <2>1. CASE Ends(p)
    BY <1>0, <2>1, Ending DEF Onward, Idle, RunPcs
  <2>2. ASSUME NEW at \in {"harness", "draft", "meta"}, Steps(p, at)
        PROVE  Onward(p) /\ \A q \in Procs \ {p} : proc'[q] = proc[q]
    BY <1>0, <2>2, Stepping DEF Onward, RunPcs
  <2> QED BY <1>2, <2>1, <2>2
<1> QED BY <1>0, <1>1, <1>3, PlanStays

\* Commands that run nothing carry no plan.
Apart == {"idle", "edit"} \cup PreviewPcs \cup SubmitPcs

LEMMA NoPlanOK ==
  ASSUME IInv, PInv, NEW p \in Procs,
         \/ EditPolicy(p) \/ SavePolicy(p) \/ \E r \in Runs : PreviewStart(p, r) \/ SubmitStart(p, r)
         \/ PreviewServed(p) \/ WriteSignedRun(p) \/ WritePreview(p)
         \/ SubmitSend(p) \/ SubmitServed(p) \/ WriteReceipt(p)
  PROVE  PInv'
<1>0. /\ Shape /\ \A q \in Procs : CommandOK(q)
      /\ UNCHANGED <<plan, crashed, overlapped>>
      /\ proc[p].pc \in Apart
  BY DEF IInv, EditPolicy, SavePolicy, PreviewStart, SubmitStart, PreviewServed, WriteSignedRun,
         WritePreview, SubmitSend, SubmitServed, WriteReceipt, Begins, At, files, history,
         Apart, PreviewPcs, SubmitPcs
<1>1. OfPlanSame
  <2>1. \/ vault' = [vault EXCEPT ![proc[p].run].signed = proc[p].body]
        \/ vault' = [vault EXCEPT ![proc[p].run].preview = proc[p].shown]
        \/ vault' = [vault EXCEPT ![proc[p].run].receipt = proc[p].body]
        \/ vault' = vault
    BY DEF EditPolicy, SavePolicy, PreviewStart, SubmitStart, PreviewServed, WriteSignedRun,
           WritePreview, SubmitSend, SubmitServed, WriteReceipt, record
  <2> QED BY <1>0, <2>1, OtherFile
<1>2. proc[p].planned = None
  BY <1>0 DEF PInv, CarriesOK, Apart, PreviewPcs, SubmitPcs, RunPcs
<1>3. \E c : Goes(p, c) /\ IsCommand(c) /\ c.planned = None /\ c.pc \in Apart
  <2>1. IsCommand(Idle) /\ Idle.planned = None /\ Idle.pc = "idle" /\ IsCommand(proc[p])
    BY <1>0 DEF Idle, IsCommand, Shape
  <2>2. CASE Ends(p)
    BY <2>1, <2>2 DEF Ends, Apart
  <2>3. ASSUME NEW at \in Apart, Steps(p, at)
        PROVE  \E c : Goes(p, c) /\ IsCommand(c) /\ c.planned = None /\ c.pc \in Apart
    <3>1. PICK c : c = [proc[p] EXCEPT !.pc = at]
      OBVIOUS
    <3>2. IsCommand(c) /\ c.planned = None /\ c.pc = at
      BY <1>2, <2>1, <3>1 DEF IsCommand
    <3> QED BY <2>3, <3>1, <3>2 DEF Steps
  <2>4. ASSUME NEW pol, Goes(p, [Idle EXCEPT !.pc = "edit", !.policy = pol])
        PROVE  \E c : Goes(p, c) /\ IsCommand(c) /\ c.planned = None /\ c.pc \in Apart
    <3>1. PICK c : c = [Idle EXCEPT !.pc = "edit", !.policy = pol]
      OBVIOUS
    <3>2. IsCommand(c) /\ c.planned = None /\ c.pc = "edit"
      BY <3>1 DEF IsCommand, Idle
    <3> QED BY <2>4, <3>1, <3>2 DEF Apart
  <2>5. ASSUME NEW r, NEW b, Goes(p, [Idle EXCEPT !.pc = "preview", !.run = r, !.body = b])
        PROVE  \E c : Goes(p, c) /\ IsCommand(c) /\ c.planned = None /\ c.pc \in Apart
    <3>1. PICK c : c = [Idle EXCEPT !.pc = "preview", !.run = r, !.body = b]
      OBVIOUS
    <3>2. IsCommand(c) /\ c.planned = None /\ c.pc = "preview"
      BY <3>1 DEF IsCommand, Idle
    <3> QED BY <2>5, <3>1, <3>2 DEF Apart, PreviewPcs
  <2>6. ASSUME NEW r, NEW s, Goes(p, [Idle EXCEPT !.pc = "read", !.run = r, !.shown = s])
        PROVE  \E c : Goes(p, c) /\ IsCommand(c) /\ c.planned = None /\ c.pc \in Apart
    <3>1. PICK c : c = [Idle EXCEPT !.pc = "read", !.run = r, !.shown = s]
      OBVIOUS
    <3>2. IsCommand(c) /\ c.planned = None /\ c.pc = "read"
      BY <3>1 DEF IsCommand, Idle
    <3> QED BY <2>6, <3>1, <3>2 DEF Apart, SubmitPcs
  <2>7. ASSUME NEW s, Goes(p, [proc[p] EXCEPT !.pc = "run.json", !.shown = s])
        PROVE  \E c : Goes(p, c) /\ IsCommand(c) /\ c.planned = None /\ c.pc \in Apart
    <3>1. PICK c : c = [proc[p] EXCEPT !.pc = "run.json", !.shown = s]
      OBVIOUS
    <3>2. IsCommand(c) /\ c.planned = None /\ c.pc = "run.json"
      BY <1>2, <2>1, <3>1 DEF IsCommand
    <3> QED BY <2>7, <3>1, <3>2 DEF Apart, PreviewPcs
  <2>8. ASSUME NEW b, Goes(p, [proc[p] EXCEPT !.pc = "submit", !.body = b])
        PROVE  \E c : Goes(p, c) /\ IsCommand(c) /\ c.planned = None /\ c.pc \in Apart
    <3>1. PICK c : c = [proc[p] EXCEPT !.pc = "submit", !.body = b]
      OBVIOUS
    <3>2. IsCommand(c) /\ c.planned = None /\ c.pc = "submit"
      BY <1>2, <2>1, <3>1 DEF IsCommand
    <3> QED BY <2>8, <3>1, <3>2 DEF Apart, SubmitPcs
  <2>9. CASE EditPolicy(p)
    BY <2>2, <2>4, <2>9 DEF EditPolicy
  <2>10. CASE SavePolicy(p) \/ WritePreview(p) \/ WriteReceipt(p)
    BY <2>2, <2>10 DEF SavePolicy, WritePreview, WriteReceipt
  <2>11. CASE \E r \in Runs : PreviewStart(p, r) \/ SubmitStart(p, r)
    BY <2>2, <2>5, <2>6, <2>11 DEF PreviewStart, SubmitStart
  <2>12. CASE PreviewServed(p) \/ SubmitSend(p)
    BY <2>2, <2>7, <2>8, <2>12 DEF PreviewServed, SubmitSend
  <2>13. CASE WriteSignedRun(p) \/ SubmitServed(p)
    BY <2>2, <2>3, <2>13 DEF WriteSignedRun, SubmitServed, Apart, PreviewPcs, SubmitPcs
  <2> QED BY <2>9, <2>10, <2>11, <2>12, <2>13
<1>4. proc'[p].planned = None /\ proc'[p].pc \in Apart /\ \A q \in Procs \ {p} : proc'[q] = proc[q]
  BY <1>0, <1>3, Going
<1>5. Onward(p)
  BY <1>0, <1>4 DEF Onward, Apart, PreviewPcs, SubmitPcs, RunPcs
<1> QED BY <1>0, <1>1, <1>4, <1>5, PlanStays

LEMMA PlanNextOK == IInv /\ PInv /\ [Next]_vars => PInv'
<1> SUFFICES ASSUME IInv, PInv, [Next]_vars PROVE PInv'
  OBVIOUS
<1>1. CASE UNCHANGED vars \/ Tick
  BY <1>1, QuietPlanOK DEF vars, Tick, files, record, history
<1>2. ASSUME NEW p \in Procs, InitHome(p) \/ KillHarness(p) \/ TheHarness(p) PROVE PInv'
  BY <1>2, QuietPlanOK DEF InitHome, KillHarness, TheHarness, HarnessRefuses, HarnessConnects,
     HarnessAttempt, HarnessResult, HarnessContext, HarnessCrashes, HarnessStrays, Harness,
     files, record, history
<1>3. ASSUME NEW p \in Procs, Command(p) PROVE PInv'
  BY <1>2, <1>3, MakePlanOK, RunStartPlanOK, OnwardOK, WriteMetaPlanOK, SavePlanPlanOK, NoPlanOK
     DEF Command
<1>4. ASSUME NEW p \in Procs, Crash(p) PROVE PInv'
  BY <1>4, CrashPlanOK
<1> QED BY <1>1, <1>2, <1>3, <1>4 DEF Next

\* run.ts: a saved plan and the vault agree, whatever runs, previews and crashes go on: the
\* plan lists only runs that the vault has as its own, and it misses none but those whose
\* runner died, is about to save it, or ran while another run of the plan did.
THEOREM PlansListRuns == Spec => []PlanListsItsRuns
<1>1. PInv => PlanListsItsRuns
  BY DEF PInv, Versions, Lists, PlanListsItsRuns, Ready
<1> QED BY <1>1, PlanInitOK, PlanNextOK, HomeInvariant, PTL DEF Spec

\* vault and submit: an accepted body is the one that the preview of that submission
\* showed, and it stays the stored one.
THEOREM AcceptedWasShown == Spec => []AcceptedIsShown
<1>1. IInv => AcceptedIsShown
  BY DEF IInv, AnswersOK, AcceptedIsShown
<1> QED BY <1>1, HomeInvariant, PTL

\* Re-preview and re-submit as often as needed: without a change of the sharing policy and
\* without two commands on the run at once, no submission is ever a conflict.
THEOREM ResubmittingIsSafe == Spec => []ResubmissionIsIdempotent
<1>1. IInv => ResubmissionIsIdempotent
  <2> SUFFICES ASSUME IInv, NEW a \in answers, a.kind = "conflict", a.run \notin crossed
               PROVE  Cardinality(shared[a.run]) > 1
    BY DEF ResubmissionIsIdempotent
  <2>1. a.run \in Runs /\ ~Solo(a.run)
    BY DEF IInv, AnswersOK
  <2>2. PICK s \in shared[a.run], t \in shared[a.run] : s # t
    BY <2>1 DEF Solo
  <2>3. IsFiniteSet(shared[a.run])
    BY <2>1 DEF IInv, Shape
  <2>4. IsFiniteSet({s}) /\ Cardinality({s}) = 1
    BY FS_Singleton
  <2>5. Cardinality({s} \cup {t}) = 2
    <3>1. t \notin {s}
      BY <2>2
    <3>2. Cardinality({s} \cup {t}) = Cardinality({s}) + 1
      BY <2>4, <3>1, FS_AddElement
    <3> QED BY <2>4, <3>2
  <2>6. {s} \cup {t} \subseteq shared[a.run]
    BY <2>2
  <2>7. Cardinality({s} \cup {t}) <= Cardinality(shared[a.run])
    BY <2>3, <2>6, FS_Subset
  <2>8. Cardinality(shared[a.run]) \in Nat
    BY <2>3, FS_CardinalityType
  <2> QED BY <2>5, <2>7, <2>8
<1> QED BY <1>1, HomeInvariant, PTL

=============================================================================
