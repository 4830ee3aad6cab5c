------------------------------- MODULE Runner -------------------------------
(***************************************************************************)
(* A member's node (packages/runner): commands of the command line and of  *)
(* the agent's tools, in processes of their own, over the files of one     *)
(* home: config, token, signing key, policy, plan and vault.  A run asks   *)
(* the registry, starts a harness under the egress guard and records what  *)
(* it left; a preview signs the record and asks the service what it would  *)
(* store; a submission posts exactly what was previewed.                   *)
(*                                                                         *)
(* A command is cut at every await and between two files it writes.  Files *)
(* are written in place, so that a process that dies while it writes one   *)
(* leaves it torn, and reading a torn file fails the command.  Of the      *)
(* service there is what the node sees of it: the registry, previews that  *)
(* expire, and one row per run id.                                         *)
(***************************************************************************)
EXTENDS RunRecord

CONSTANTS
  Procs,        \* processes that execute commands of this home
  Runs,         \* run ids
  Planned,      \* budget.planned of a run
  Asks,         \* what runs are asked for: [kind, prices, context]
  CostModel,    \* of the pack
  Required,     \* context keys the protocol requires
  Values,       \* what a harness may measure of them
  Shares,       \* sharing policies a preview may ask for
  Ttl,          \* config.previewTtlMs of the service
  Workload,     \* bounds: how many commands, crashes, lost answers and ticks a behaviour
                \* has, and in what state it finds the home
  None,
  Torn          \* what is left of a file whose writer died

Kinds == {"init", "edit", "plan", "run", "stray", "preview", "submit", "crash", "lost", "tick"}

\* What a plan says, and the plans that nobody has run yet.
Plans == [ask : Asks, allowed : BOOLEAN, runs : SUBSET Runs]
NewPlans == {v \in Plans : v.runs = {}}

\* A missing or a torn file is neither a run nor anything a command read.
ASSUME RunnerAssumption ==
  /\ Planned \in Nat /\ Ttl \in Nat
  /\ None # Torn /\ None \notin Runs /\ {None, Torn} \cap (Plans \cup BOOLEAN) = {}
  /\ None \notin [share : Shares, at : Nat] /\ Torn \notin [share : Shares, at : Nat]
  /\ \A w \in Workload : w.left \in [Kinds -> Nat] /\ w.plan \in {None} \cup NewPlans

VARIABLES
  home,      \* [config, token, key]: config is "none", "bare" or, with a node id, "node"
  policy,    \* policy.json: None, torn, or [allow, target, budget]
  plan,      \* one plans/<plan_id>.json: None, torn, or [ask, allowed, runs]
  vault,     \* of each run id: [dir, input, draft, meta, signed, preview, receipt]; meta is
             \* whether the run was made from the plan
  work,      \* of each run id, whether its work directory is there
  child,     \* of each run id, its harness: what it did so far
  proc,      \* of each process: where its command stands and what it has read
  service,   \* [previews, stored]
  clock,
  left,      \* what is left of the workload
  crashed,   \* history: run ids whose command died
  shared,    \* history: of each run id, the sharing policies previews asked for
  crossed,   \* history: run ids that two commands worked on at once
  overlapped,   \* history: run ids of the plan that ran while another of the plan did
  answers    \* history: answers to submissions, [run, kind, body, shown]

files == <<home, policy, plan>>
record == <<vault, work, child>>
history == <<crashed, shared, crossed, overlapped, answers>>
vars == <<files, record, proc, service, clock, left, history>>

Idle == [pc |-> "idle", run |-> None, ask |-> None, planned |-> None, policy |-> None,
         share |-> None, body |-> None, shown |-> None]
NoEntry == [dir |-> FALSE, input |-> None, draft |-> None, meta |-> None,
            signed |-> None, preview |-> None, receipt |-> None]
NoHarness == [state |-> "none", at |-> "start", lines |-> [s \in Statuses |-> 0], bad |-> TRUE,
              result |-> "missing", context |-> <<>>, offSchema |-> FALSE,
              egress |-> FALSE, code |-> None, timedOut |-> FALSE]
DefaultPolicy == [allow |-> FALSE, target |-> FALSE, budget |-> 0]

\* A home as `iwik init` leaves it and as runs leave it, for workloads that start there.
Recorded ==
  [dir |-> TRUE, input |-> <<>>, meta |-> FALSE,
   draft |-> [status |-> "succeeded", reason |-> "none",
              accounting |-> Accounting([[s \in Statuses |-> 0] EXCEPT !["succeeded"] = Planned],
                                        Planned, "excluded")],
   signed |-> None, preview |-> None, receipt |-> None]

Init ==
  /\ \E w \in Workload :
       /\ left = w.left
       /\ home = IF w.home = "empty" THEN [config |-> "none", token |-> FALSE, key |-> FALSE]
                 ELSE [config |-> "node", token |-> TRUE, key |-> TRUE]
       /\ policy = CASE w.home = "empty" -> None
                     [] w.home = "ready" -> [allow |-> TRUE, target |-> TRUE, budget |-> 1]
                     [] OTHER -> DefaultPolicy
       /\ vault = [r \in Runs |-> IF r \in w.recorded THEN Recorded ELSE NoEntry]
       /\ plan = w.plan
  /\ work = [r \in Runs |-> FALSE] /\ child = [r \in Runs |-> NoHarness]
  /\ proc = [p \in Procs |-> Idle]
  /\ service = [previews |-> {}, stored |-> [r \in Runs |-> None]]
  /\ clock = 0
  /\ crashed = {} /\ shared = [r \in Runs |-> {}] /\ crossed = {} /\ overlapped = {} /\ answers = {}

Spend(k) == left[k] > 0 /\ left' = [left EXCEPT ![k] = @ - 1]
Begins(p, k) == proc[p].pc = "idle" /\ Spend(k)
Goes(p, c) == proc' = [proc EXCEPT ![p] = c]
Ends(p) == Goes(p, Idle)
At(p, at) == proc[p].pc = at
Steps(p, at) == Goes(p, [proc[p] EXCEPT !.pc = at])
Ready(file) == file \notin {None, Torn}

\* Two commands on one run id at once.
Busy(r) == \E q \in Procs : proc[q].run = r /\ proc[q].pc # "idle"
Crosses(r) == crossed' = IF Busy(r) THEN crossed \cup {r} ELSE crossed

-----------------------------------------------------------------------------
(* The home.  init merges the config, keeps an existing key and policy, and  *)
(* asks the service for the node id when it has a token and is not offline.  *)
Initialized(nodeId, token) ==
  [config |-> IF nodeId \/ home.config = "node" THEN "node" ELSE "bare",
   token |-> token \/ home.token, key |-> TRUE]

\* GET /v1/whoami fills the node id in, when it answers.
Discovered(h, answered) == IF h.token /\ answered THEN [h EXCEPT !.config = "node"] ELSE h

InitHome(p) ==
  /\ Begins(p, "init")
  /\ \E token, nodeId, answered \in BOOLEAN :
       home' = Discovered(Initialized(nodeId, token), ~nodeId /\ answered)
  /\ policy' = IF policy = None THEN DefaultPolicy ELSE policy
  /\ UNCHANGED <<plan, record, proc, service, clock, history>>

\* A missing file is the default policy; a malformed one is an error.
LoadedPolicy == IF policy = None THEN DefaultPolicy ELSE policy

(* policy set, allow-target and deny-target read the file, change one field  *)
(* and write it back.                                                        *)
Edited(old) ==
  {[old EXCEPT !.allow = b] : b \in BOOLEAN} \cup {[old EXCEPT !.target = b] : b \in BOOLEAN}
    \cup {[old EXCEPT !.budget = n] : n \in 0..1}

EditPolicy(p) ==
  /\ Begins(p, "edit")
  /\ IF policy = Torn THEN Ends(p)
     ELSE \E new \in Edited(LoadedPolicy) : Goes(p, [Idle EXCEPT !.pc = "edit", !.policy = new])
  /\ UNCHANGED <<files, record, service, clock, history>>

SavePolicy(p) ==
  /\ At(p, "edit") /\ policy' = proc[p].policy /\ Ends(p)
  /\ UNCHANGED <<home, plan, record, service, clock, left, history>>

Permits(pol) == pol.allow /\ pol.target

Estimate(a) == EstimateCost(CostModel, a.kind, Planned, 1, a.prices)

\* A plan needs no policy: it records whether executing it would be allowed.
Allowed(pol, a) == Permits(pol) /\ Affordable(Estimate(a), pol.budget)

MakePlan(p) ==
  /\ Begins(p, "plan") /\ plan = None /\ policy # Torn
  /\ \E a \in Asks : plan' = [ask |-> a, allowed |-> Allowed(LoadedPolicy, a), runs |-> {}]
  /\ UNCHANGED <<home, policy, record, proc, service, clock, history>>

-----------------------------------------------------------------------------
(* A run: the policy first, then the pack against the manifest, the budget,  *)
(* the vault entry and the harness.                                          *)
Fresh == {r \in Runs : ~vault[r].dir /\ ~Busy(r)}

\* Two runs of the plan at once: each will save the plan that it loaded.
PlanRuns == {q \in Procs : proc[q].planned # None}

Overlaps(r, fromPlan) ==
  overlapped' = IF fromPlan /\ PlanRuns # {}
                THEN overlapped \cup {r} \cup {proc[q].run : q \in PlanRuns}
                ELSE overlapped

RunStart(p) ==
  LET r == CHOOSE r \in Fresh : TRUE
  IN  /\ Fresh # {} /\ Begins(p, "run")
      /\ \E fromPlan \in BOOLEAN, a \in Asks :
           /\ fromPlan => Ready(plan) /\ a = plan.ask
           /\ IF policy # Torn /\ Permits(LoadedPolicy) /\ home.config = "node"
              THEN /\ Goes(p, [Idle EXCEPT !.pc = "manifest", !.run = r, !.ask = a,
                                           !.policy = LoadedPolicy,
                                           !.planned = IF fromPlan THEN plan ELSE None])
                   /\ Overlaps(r, fromPlan)
              ELSE Ends(p) /\ UNCHANGED overlapped
      /\ UNCHANGED <<files, record, service, clock, crashed, shared, crossed, answers>>

\* What may differ between the pack on disk and the registry's manifest.
Differences == {{}, {"harness", "protocol"}, {"status"}}

\* The policy is the one read before the registry was asked.
MayLaunch(p, differing) ==
  VerifyPack(differing) = "none" /\ Affordable(Estimate(proc[p].ask), proc[p].policy.budget)

RunLaunch(p) ==
  /\ At(p, "manifest")
  /\ LET r == proc[p].run
     IN  \E differing \in Differences :
           IF MayLaunch(p, differing)
           THEN /\ vault' = [vault EXCEPT ![r].dir = TRUE]
                /\ work' = [work EXCEPT ![r] = TRUE]
                /\ child' = [child EXCEPT ![r].state = "running"]
                /\ Steps(p, "harness")
           ELSE Ends(p) /\ UNCHANGED record
  /\ UNCHANGED <<files, service, clock, left, history>>

-----------------------------------------------------------------------------
(* The harness of the inference-api pack: its input, the egress check, one   *)
(* connection to see whether the target is reachable, planned attempts one   *)
(* after the other, each appended to attempts.jsonl, then result.json and    *)
(* context.json.                                                             *)
Running(p) == At(p, "harness") /\ child[proc[p].run].state = "running"

Harness(p, h) ==
  /\ child' = [child EXCEPT ![proc[p].run] = h]
  /\ UNCHANGED <<files, vault, work, proc, service, clock, left, history>>

Exit(h, code) == [h EXCEPT !.state = "exited", !.code = code]

HarnessRefuses(p) ==
  /\ Running(p) /\ child[proc[p].run].at = "start"
  /\ \E code \in {2, 3} : Harness(p, Exit(child[proc[p].run], code))

HarnessConnects(p) ==
  /\ Running(p) /\ child[proc[p].run].at = "start"
  /\ Harness(p, [child[proc[p].run] EXCEPT !.at = "attempts", !.bad = FALSE])

HarnessAttempt(p) ==
  LET h == child[proc[p].run]
  IN  /\ Running(p) /\ h.at = "attempts" /\ Reported(h.lines) < Planned
      /\ \E s \in {"succeeded", "failed"} : Harness(p, [h EXCEPT !.lines[s] = @ + 1])

HarnessResult(p) ==
  LET h == child[proc[p].run]
  IN  /\ Running(p) /\ h.at = "attempts" /\ Reported(h.lines) = Planned
      /\ Harness(p, [h EXCEPT !.at = "result", !.result = "valid"])

Fields == [value : Values \cup {Null}, origin : {"measured", "operator_reported", "unknown"}]

\* What it could not measure it reports as unknown.
HarnessContext(p) ==
  LET h == child[proc[p].run]
  IN  /\ Running(p) /\ h.at = "result"
      /\ \E c \in [Required -> {f \in Fields : f.value = Null <=> f.origin = "unknown"}] :
           Harness(p, Exit([h EXCEPT !.context = c], 0))

\* An error the harness does not expect, with a line or a file half written.
HarnessCrashes(p) ==
  /\ Running(p)
  /\ \E bad \in {child[proc[p].run].bad, TRUE} :
       Harness(p, Exit([child[proc[p].run] EXCEPT !.bad = bad], 1))

(* Another pack's harness may do anything; connections outside the allowed   *)
(* hosts, child processes, workers and datagrams are denied and logged.      *)
Strays ==
  {[state |-> "exited", at |-> "start", lines |-> l, bad |-> bad, result |-> res, context |-> c,
    offSchema |-> off, egress |-> e, code |-> code, timedOut |-> FALSE] :
     l \in [Statuses -> 0..1], bad \in BOOLEAN, res \in {"valid", "invalid", "missing"},
     c \in UNION {[K -> Fields] : K \in {{}, Required}}, off \in BOOLEAN, e \in BOOLEAN,
     code \in {0, 1, 2, 3}}

HarnessStrays(p) ==
  /\ Running(p) /\ child[proc[p].run].at = "start" /\ Spend("stray")
  /\ \E h \in Strays : child' = [child EXCEPT ![proc[p].run] = h]
  /\ UNCHANGED <<files, vault, work, proc, service, clock, history>>

\* The overall time limit.  It may pass between the exit and the end of the output.
KillHarness(p) ==
  LET h == child[proc[p].run]
  IN  /\ At(p, "harness") /\ ~h.timedOut
      /\ \E bad \in {h.bad, TRUE} :
           Harness(p, IF h.state = "running"
                      THEN [h EXCEPT !.state = "exited", !.timedOut = TRUE, !.bad = bad]
                      ELSE [h EXCEPT !.timedOut = TRUE])

-----------------------------------------------------------------------------
(* After the harness: its files are moved into the vault and the work        *)
(* directory is removed, whether or not moving them failed.                  *)
Collect(p) ==
  LET r == proc[p].run
  IN  /\ At(p, "harness") /\ child[r].state = "exited"
      /\ work' = [work EXCEPT ![r] = FALSE]
      /\ \/ vault' = [vault EXCEPT ![r].input = proc[p].ask.context] /\ Steps(p, "draft")
         \/ UNCHANGED vault /\ Ends(p)
      /\ UNCHANGED <<files, child, service, clock, left, history>>

Seen(r, a) ==
  LET h == child[r]
  IN  [egress |-> h.egress, timedOut |-> h.timedOut, code |-> h.code, lines |-> h.lines,
       bad |-> h.bad, result |-> h.result, offSchema |-> h.offSchema,
       unknown |-> Unknown(Required, a.context, h.context) # {}]

WriteDraft(p) ==
  LET r == proc[p].run
  IN  /\ At(p, "draft")
      /\ vault' = [vault EXCEPT ![r].draft = Draft(Seen(r, proc[p].ask), Planned)]
      /\ Steps(p, "meta")
      /\ UNCHANGED <<files, work, child, service, clock, left, history>>

\* What was assembled is a valid Run.
WriteMeta(p) ==
  /\ At(p, "meta")
  /\ vault' = [vault EXCEPT ![proc[p].run].meta = (proc[p].planned # None)]
  /\ IF proc[p].planned = None THEN Ends(p) ELSE Steps(p, "plan")
  /\ UNCHANGED <<files, work, child, service, clock, left, history>>

\* (Slip: the plan keeps its last run only.)
SavePlanAlone(p) ==
  /\ At(p, "plan")
  /\ plan' = [proc[p].planned EXCEPT !.runs = {proc[p].run}]
  /\ Ends(p)
  /\ UNCHANGED <<home, policy, record, service, clock, left, history>>

\* The plan is saved as it was read before the run, with this run added.
SavePlan(p) ==
  /\ At(p, "plan")
  /\ plan' = [proc[p].planned EXCEPT !.runs = @ \cup {proc[p].run}]
  /\ Ends(p)
  /\ UNCHANGED <<home, policy, record, service, clock, left, history>>

-----------------------------------------------------------------------------
(* A preview signs the draft under a sharing policy.  A body is all that a   *)
(* digest binds: the draft of the run, the policy, and signed_at, which is   *)
(* kept when the body is otherwise what was last previewed.                  *)
Reference(r) == IF vault[r].preview = None THEN vault[r].signed ELSE vault[r].preview.body

\* (Slip: a fresh timestamp every time.)
WireRunFresh(r, s) == [share |-> s, at |-> clock]

WireRun(r, s) ==
  LET old == vault[r].signed
      kept == [share |-> s, at |-> IF old = None THEN None ELSE old.at]
  IN  IF old # None /\ kept = Reference(r) THEN kept ELSE [share |-> s, at |-> clock]

Online == home.config # "none" /\ home.token

PreviewStart(p, r) ==
  /\ Begins(p, "preview") /\ vault[r].dir
  /\ \E s \in Shares :
       IF /\ Ready(vault[r].draft) /\ Ready(vault[r].meta) /\ home.key /\ Online
          /\ vault[r].signed # Torn /\ vault[r].preview # Torn
       THEN /\ Goes(p, [Idle EXCEPT !.pc = "preview", !.run = r, !.body = WireRun(r, s)])
            /\ shared' = [shared EXCEPT ![r] = @ \cup {s}]
       ELSE Ends(p) /\ UNCHANGED shared
  /\ Crosses(r)
  /\ UNCHANGED <<files, record, service, clock, crashed, overlapped, answers>>

\* The service records a preview of the body; the answer may be lost.
PreviewServed(p) ==
  LET issued == [id |-> Cardinality(service.previews) + 1, run |-> proc[p].run,
                 body |-> proc[p].body, expires |-> clock + Ttl]
  IN  /\ At(p, "preview")
      /\ service' = [service EXCEPT !.previews = @ \cup {issued}]
      /\ \/ Goes(p, [proc[p] EXCEPT !.pc = "run.json", !.shown = issued]) /\ UNCHANGED left
         \/ Ends(p) /\ Spend("lost")
      /\ UNCHANGED <<files, record, clock, history>>

WriteSignedRun(p) ==
  /\ At(p, "run.json")
  /\ vault' = [vault EXCEPT ![proc[p].run].signed = proc[p].body]
  /\ Steps(p, "preview.json")
  /\ UNCHANGED <<files, work, child, service, clock, left, history>>

WritePreview(p) ==
  /\ At(p, "preview.json")
  /\ vault' = [vault EXCEPT ![proc[p].run].preview = proc[p].shown]
  /\ Ends(p)
  /\ UNCHANGED <<files, work, child, service, clock, left, history>>

-----------------------------------------------------------------------------
(* A submission reads preview.json, then run.json, and posts the one under   *)
(* the id of the other.                                                      *)
SubmitStart(p, r) ==
  /\ Begins(p, "submit") /\ vault[r].dir
  /\ IF Ready(vault[r].draft) /\ Ready(vault[r].preview)
     THEN Goes(p, [Idle EXCEPT !.pc = "read", !.run = r, !.shown = vault[r].preview])
     ELSE Ends(p)
  /\ Crosses(r)
  /\ UNCHANGED <<files, record, service, clock, crashed, shared, overlapped, answers>>

SubmitSend(p) ==
  LET r == proc[p].run
  IN  /\ At(p, "read")
      /\ IF Ready(vault[r].signed) /\ clock <= proc[p].shown.expires /\ Online
         THEN Goes(p, [proc[p] EXCEPT !.pc = "submit", !.body = vault[r].signed])
         ELSE Ends(p)
      /\ UNCHANGED <<files, record, service, clock, left, history>>

\* (Slip: any live preview will do.)
BoundById(p) == proc[p].shown \in service.previews /\ clock <= proc[p].shown.expires

\* A preview is an id the service issued, not expired, for this very body.
Bound(p) ==
  /\ proc[p].shown \in service.previews
  /\ clock <= proc[p].shown.expires
  /\ proc[p].shown.body = proc[p].body

\* One row per run id: the same body again is answered by the first receipt,
\* another body is a conflict.
Verdicts(p) ==
  LET r == proc[p].run
      old == service.stored[r]
  IN  IF ~Bound(p) THEN [kind |-> "refused", row |-> old]
      ELSE IF old = None THEN [kind |-> "accepted", row |-> proc[p].body]
      ELSE IF old = proc[p].body THEN [kind |-> "again", row |-> old]
      ELSE [kind |-> "conflict", row |-> old]

SubmitServed(p) ==
  LET r == proc[p].run
      v == Verdicts(p)
  IN  /\ At(p, "submit")
      /\ service' = [service EXCEPT !.stored[r] = v.row]
      /\ answers' = answers \cup {[run |-> r, kind |-> v.kind, body |-> proc[p].body,
                                   shown |-> proc[p].shown.body]}
      /\ \/ /\ UNCHANGED left
            /\ IF v.kind \in {"accepted", "again"} THEN Steps(p, "receipt.json") ELSE Ends(p)
         \/ Ends(p) /\ Spend("lost")
      /\ UNCHANGED <<files, record, clock, crashed, shared, crossed, overlapped>>

WriteReceipt(p) ==
  /\ At(p, "receipt.json")
  /\ vault' = [vault EXCEPT ![proc[p].run].receipt = proc[p].body]
  /\ Ends(p)
  /\ UNCHANGED <<files, work, child, service, clock, left, history>>

-----------------------------------------------------------------------------
(* A process dies: the file it was writing may be torn, the work directory   *)
(* and the files before it stay.  The harness is no longer watched.          *)
TornEntry(p) ==
  LET r == proc[p].run
  IN  CASE At(p, "draft")        -> [vault EXCEPT ![r].draft = Torn]
        [] At(p, "meta")         -> [vault EXCEPT ![r].meta = Torn]
        [] At(p, "run.json")     -> [vault EXCEPT ![r].signed = Torn]
        [] At(p, "preview.json") -> [vault EXCEPT ![r].preview = Torn]
        [] At(p, "receipt.json") -> [vault EXCEPT ![r].receipt = Torn]
        [] OTHER -> vault

Crash(p) ==
  /\ ~At(p, "idle") /\ Spend("crash") /\ Ends(p)
  /\ \E torn \in BOOLEAN :
       /\ vault' = IF torn THEN TornEntry(p) ELSE vault
       /\ policy' = IF torn /\ At(p, "edit") THEN Torn ELSE policy
       /\ plan' = IF torn /\ At(p, "plan") THEN Torn ELSE plan
  /\ crashed' = crashed \cup {proc[p].run}
  /\ UNCHANGED <<home, work, child, service, clock, shared, crossed, overlapped, answers>>

Tick ==
  /\ Spend("tick") /\ clock' = clock + 1
  /\ UNCHANGED <<files, record, proc, service, history>>

Command(p) ==
  \/ InitHome(p) \/ EditPolicy(p) \/ SavePolicy(p) \/ MakePlan(p)
  \/ RunStart(p) \/ RunLaunch(p) \/ KillHarness(p) \/ Collect(p)
  \/ WriteDraft(p) \/ WriteMeta(p) \/ SavePlan(p)
  \/ \E r \in Runs : PreviewStart(p, r) \/ SubmitStart(p, r)
  \/ PreviewServed(p) \/ WriteSignedRun(p) \/ WritePreview(p)
  \/ SubmitSend(p) \/ SubmitServed(p) \/ WriteReceipt(p)

TheHarness(p) ==
  \/ HarnessRefuses(p) \/ HarnessConnects(p) \/ HarnessAttempt(p) \/ HarnessResult(p)
  \/ HarnessContext(p) \/ HarnessCrashes(p) \/ HarnessStrays(p)

Next == Tick \/ \E p \in Procs : Command(p) \/ TheHarness(p) \/ Crash(p)

Spec == Init /\ [][Next]_vars

-----------------------------------------------------------------------------
Bodies == [share : Shares, at : 0..clock]
Entries == [id : Nat, run : Runs, body : Bodies, expires : Nat]

(* The files hold what the runner writes; the service's rows and previews    *)
(* are bodies; a draft gives a reason when, and only when, it is excluded.   *)
TypeOK ==
  /\ policy \in {None, Torn} \cup [allow : BOOLEAN, target : BOOLEAN, budget : Nat]
  /\ work \in [Runs -> BOOLEAN]
  /\ left \in [Kinds -> Nat] /\ clock \in Nat
  /\ \A s \in service.previews : s \in Entries
  /\ \A r \in Runs :
       /\ vault[r].signed \in {None, Torn} \cup Bodies
       /\ vault[r].preview \in {None, Torn} \/ vault[r].preview \in service.previews
       /\ vault[r].receipt \in {None, Torn, service.stored[r]}
       /\ vault[r].meta \in {None, Torn} \cup BOOLEAN
       /\ Ready(vault[r].draft) => (vault[r].draft.status = "excluded" <=> vault[r].draft.reason # "none")

(* A run recorded as succeeded had a harness that exited with 0 before it    *)
(* was killed, met no egress denial, reported exactly the planned attempts,  *)
(* none of them malformed, left a valid result, and every required context   *)
(* key is known, from the operator or from the harness itself.               *)
SucceededIsBacked ==
  \A r \in Runs : LET h == child[r] IN
    Ready(vault[r].draft) /\ vault[r].draft.status = "succeeded" /\ h.state # "none" =>
      /\ h.code = 0 /\ ~h.timedOut /\ ~h.egress /\ ~h.bad /\ ~h.offSchema /\ h.result = "valid"
      /\ Reported(h.lines) = Planned
      /\ \A k \in Required :
           \/ k \in DOMAIN vault[r].input /\ vault[r].input[k] # Null
           \/ k \in DOMAIN h.context /\ h.context[k].value # Null

(* Every planned attempt has exactly one outcome, and what the harness did   *)
(* not report is never counted as observed: successes and failures are the   *)
(* lines it wrote, however it ended.                                         *)
AccountingIsExact ==
  \A r \in Runs : Ready(vault[r].draft) /\ child[r].state # "none" =>
    LET a == vault[r].draft.accounting
        l == child[r].lines
    IN  /\ a.planned >= Planned
        /\ a.planned = a.succeeded + a.failed + a.excluded + a.unobserved
        /\ a.succeeded = l["succeeded"] /\ a.failed = l["failed"]
        /\ a.attempted = a.succeeded + a.failed
        /\ a.excluded >= l["excluded"] /\ a.unobserved >= l["unobserved"]

\* The metadata of a run, written after its draft, say that it is of the plan.
OfPlan(r) == vault[r].meta = TRUE

(* A saved plan and the vault agree, although several processes write them   *)
(* and may die between any two files: a plan lists only runs that were       *)
(* recorded as its own before, and it lists every one of them, but for a run *)
(* whose runner died, is just about to save the plan, or ran while another   *)
(* of the plan did: each of those saves the plan that it loaded (runPlan).   *)
PlanListsItsRuns ==
  Ready(plan) =>
    /\ \A r \in plan.runs : OfPlan(r)
    /\ \A r \in Runs : OfPlan(r) =>
         \/ r \in plan.runs \cup crashed \cup overlapped
         \/ \E p \in Procs : proc[p].run = r /\ At(p, "plan")

(* What the service stores is what a preview showed the member who submitted *)
(* it, whatever preview and submit commands ran at once or died in between.  *)
AcceptedIsShown ==
  \A a \in answers : a.kind \in {"accepted", "again"} =>
    a.body = a.shown /\ service.stored[a.run] = a.body

(* Previewing and submitting again is safe: as long as the sharing policy of *)
(* a run is not changed and two commands do not work on it at once, no       *)
(* answer is a conflict, through lost answers, expired previews and crashes. *)
ResubmissionIsIdempotent ==
  \A a \in answers : a.kind = "conflict" =>
    Cardinality(shared[a.run]) > 1 \/ a.run \in crossed

=============================================================================
