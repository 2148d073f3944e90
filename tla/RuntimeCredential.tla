-------------------------- MODULE RuntimeCredential --------------------------
(***************************************************************************)
(* The owner's runtime credential of an agent service (OpenCode), and the  *)
(* sessions that withhold it. A session that ran work from another         *)
(* computer can be resumed after its task is forgotten, so the gateway     *)
(* mints no credential while such a session may exist: the ledger's tasks  *)
(* (tasks/store_sqlite.rs) and the rows kept of forgotten ones say which,  *)
(* and only the session's deletion clears them. Starting and attaching the *)
(* service (agents/runtime.rs) mints, revokes and asks about what is gone. *)
(*                                                                         *)
(* Dispatch refuses work of such ancestry, so the sessions in question are *)
(* left by earlier gateways: the specification starts with one of those,   *)
(* which dispatched what it was asked, and upgrades.                       *)
(***************************************************************************)
EXTENDS Naturals, FiniteSets

CONSTANTS
  Tasks, Sessions,             \* ids; none is used twice
  Tokens,                      \* an id is free again once nobody holds its token
  NoTask, NoSession, NoToken,
  Depth,                       \* tasks an ancestry is followed through: 63
  MaxFaults,                   \* bound: calls that fail
  MaxOthers                    \* bound: what owner, agent and machine do

ASSUME CredentialAssumption ==
  /\ {Depth, MaxFaults, MaxOthers} \subseteq Nat /\ Depth > 0
  /\ NoTask \notin Tasks /\ NoSession \notin Sessions /\ NoToken \notin Tokens

VARIABLES
  era,                         \* which gateway runs: "older", or "this"
  live, open, row,             \* the ledger's tasks, those not ended, and each one's row
  job,                         \* by task: its dispatch, and the session that made
  kept, cleared, unrecorded,   \* task_restricted_sessions; task_runtime_restrictions
  has, made,                   \* the agent's sessions, and those it ever had
  deleting,                    \* deleted by the agent for the gateway, not yet cleared
  recs,                        \* by reconciler: what it has still to ask, and to clear
  service, saved,              \* the agent's service, and the env saved for its next start
  starter, attached, missing,  \* the supervisor; the reason for missing tools it reports
  tokens,                      \* live runtime tokens
  spent,                       \* how often each bounded thing happened
  unanswered,                  \* ghost: asking about a session failed, there or in the database
  tainted,                     \* ghost: tasks of other computers' work, or of nobody's
  foreign, unnamed             \* ghost: sessions that ran such, and those an earlier
                               \*   gateway forgot by name

ledgerVars == <<live, open, row, job, tainted>>
rowVars == <<kept, cleared, unrecorded>>
agentVars == <<has, made, foreign, unnamed>>
serviceVars == <<service, saved, starter, attached, missing, tokens>>
vars == <<era, ledgerVars, rowVars, agentVars, serviceVars, deleting, recs, spent, unanswered>>

Reconcilers == {"gateway", "cli"}
Principals == {"owner", "peer", "assistant"}
Requests == [by: {"owner", "peer"}, parent: {NoTask}]
              \union [by: {"assistant"}, parent: Tasks \union {NoTask}]
Rows == [by: Principals, parent: Tasks \union {NoTask}, asid: Sessions \union {NoSession}]
Jobs == [pc: {"new", "allowed", "queued", "created", "over"},
         asid: Sessions \union {NoSession}]
Recs == [pc: {"rest", "list", "ask"}, todo: SUBSET Sessions, gone: Sessions \union {NoSession}]
Services == [up: {"off", "booting", "up"}, env: Tokens \union {NoToken}]
Starters == [pc: {"rest", "mint", "save", "launch", "wait", "failed", "decide", "again",
                  "stop", "attach", "adopt"},
             mine: Tokens \union {NoToken}, previous: SUBSET Tokens]

TypeOK ==
  /\ era \in {"older", "this"}
  /\ live \subseteq Tasks /\ open \subseteq live
  /\ row \in [Tasks -> Rows] /\ job \in [Tasks -> Jobs] /\ tainted \subseteq Tasks
  /\ kept \subseteq Sessions \ cleared /\ cleared \subseteq Sessions /\ unrecorded \in BOOLEAN
  /\ has \subseteq made /\ made \subseteq Sessions
  /\ foreign \subseteq made /\ unnamed \subseteq made
  /\ deleting \subseteq Sessions /\ recs \in [Reconcilers -> Recs]
  /\ service \in Services /\ saved \in Tokens \union {NoToken}
  /\ starter \in Starters /\ attached \in BOOLEAN /\ missing \in BOOLEAN
  /\ tokens \subseteq Tokens

Resting == [pc |-> "rest", todo |-> {}, gone |-> NoSession]
Off == [up |-> "off", env |-> NoToken]
Over == [pc |-> "over", asid |-> NoSession]
Idle == [pc |-> "rest", mine |-> NoToken, previous |-> {}]

Init ==
  /\ era = "older"
  /\ live = {} /\ open = {} /\ tainted = {}
  /\ row = [t \in Tasks |-> [by |-> "owner", parent |-> NoTask, asid |-> NoSession]]
  /\ job = [t \in Tasks |-> [pc |-> "new", asid |-> NoSession]]
  /\ kept = {} /\ cleared = {} /\ unrecorded = FALSE
  /\ has = {} /\ made = {} /\ foreign = {} /\ unnamed = {}
  /\ deleting = {} /\ recs = [r \in Reconcilers |-> Resting]
  /\ service = Off /\ saved = NoToken
  /\ starter = Idle /\ attached = FALSE /\ missing = FALSE
  /\ tokens = {}
  /\ spent = [faults |-> 0, others |-> 0] /\ unanswered = FALSE

Spend(what, max) == spent[what] < max /\ spent' = [spent EXCEPT ![what] = @ + 1]
Fault == Spend("faults", MaxFaults)
Other == Spend("others", MaxOthers)

-----------------------------------------------------------------------------
(* What the ledger says of a session.                                        *)

(* p leads from a task to an ancestor of it, each in the ledger.             *)
Chain(p, n) == \A i \in 1..(n - 1) : row[p[i]].by = "assistant" /\ row[p[i]].parent = p[i + 1]

(* The owner's own task is found within so many (restriction,               *)
(* allow_forwarding: both give up on a missing, cyclic or longer ancestry).  *)
Local(t, most) ==
  \E n \in 1..most : \E p \in [1..n -> live] :
    p[1] = t /\ Chain(p, n) /\ row[p[n]].by = "owner"

Restricted(t) == ~Local(t, Depth)

(* Sessions of this agent whose task does not resolve to an owner's.         *)
Ledger == {row[t].asid : t \in {u \in live : row[u].asid # NoSession /\ Restricted(u)}}

(* The sessions that withhold the credential, and whether one may be minted. *)
Block == kept \union (Ledger \ cleared)
MayMint == Block = {} /\ ~unrecorded

(* A session that is gone stops withholding; only one that did is recorded    *)
(* (mutant: its row stays beside the tombstone).                             *)
ClearKeepsRow(s) ==
  /\ kept' = kept
  /\ cleared' = IF s \in kept \union Ledger THEN cleared \union {s} ELSE cleared
  /\ UNCHANGED unrecorded

Clear(s) ==
  /\ kept' = kept \ {s}
  /\ cleared' = IF s \in kept \union Ledger THEN cleared \union {s} ELSE cleared
  /\ UNCHANGED unrecorded

-----------------------------------------------------------------------------
(* Tasks and their sessions.                                                 *)

(* allow_forwarding: an owner's request, an assistant's whose token says      *)
(* where it comes from, or one whose ancestry ends at an owner's task.        *)
Allowed(r) ==
  \/ r.by = "owner"
  \/ r.by = "assistant" /\ (r.parent = NoTask \/ Local(r.parent, Depth + 1))

(* The work is another computer's, or of an assistant nobody can place.      *)
Taints(r, unplaced) ==
  \/ r.by = "peer"
  \/ r.parent \in tainted
  \/ unplaced /\ r.by = "assistant" /\ r.parent = NoTask

(* A fresh id; which one makes no difference.                                *)
Fresh(x, used, ids) == x \notin used /\ x = CHOOSE y \in ids : y \notin used

RowOf(r, s) == [by |-> r.by, parent |-> r.parent, asid |-> s]
Named == {t \in Tasks : job[t].pc # "new"}

Names(t, r, unplaced) ==
  /\ Fresh(t, Named, Tasks) /\ r.parent \in live \union {NoTask}
  /\ tainted' = IF Taints(r, unplaced) THEN tainted \union {t} ELSE tainted

(* delegate to a session: the check, and much later the row.                 *)
Asks(t, r) ==
  /\ era = "this" /\ Allowed(r)
  /\ Names(t, r, FALSE) /\ row' = [row EXCEPT ![t] = RowOf(r, NoSession)]
  /\ job' = [job EXCEPT ![t] = [pc |-> "allowed", asid |-> NoSession]]
  /\ UNCHANGED <<era, live, open, rowVars, agentVars, serviceVars, deleting, recs, spent, unanswered>>

Inserts(t) ==
  /\ job[t].pc = "allowed"
  /\ live' = live \union {t} /\ open' = open \union {t}
  /\ job' = [job EXCEPT ![t].pc = "queued"]
  /\ UNCHANGED <<era, row, tainted, rowVars, agentVars, serviceVars, deleting, recs, spent, unanswered>>

(* A pane's task, a command or a mirror: it is filed, and has no session here. *)
InsertsOther(t, r, unplaced) ==
  /\ Names(t, r, unplaced) /\ row' = [row EXCEPT ![t] = RowOf(r, NoSession)]
  /\ live' = live \union {t} /\ open' = open \union {t}
  /\ job' = [job EXCEPT ![t] = Over]
  /\ UNCHANGED <<era, rowVars, agentVars, serviceVars, deleting, recs, spent, unanswered>>

Creates(t, s) ==
  /\ job[t].pc = "queued" /\ Fresh(s, made, Sessions)
  /\ has' = has \union {s} /\ made' = made \union {s}
  /\ job' = [job EXCEPT ![t] = [pc |-> "created", asid |-> s]]
  /\ UNCHANGED <<era, live, open, row, tainted, rowVars, foreign, unnamed, serviceVars, deleting,
                 recs, spent, unanswered>>

(* The transition to dispatching stores the binding; refused once ended.     *)
Binds(t) ==
  /\ job[t].pc = "created"
  /\ job' = [job EXCEPT ![t] = Over]
  /\ \/ /\ t \in open
        /\ row' = [row EXCEPT ![t].asid = job[t].asid]
        /\ foreign' = IF t \in tainted THEN foreign \union {job[t].asid} ELSE foreign
     \/ t \notin open /\ UNCHANGED <<row, foreign>>
  /\ UNCHANGED <<era, live, open, tainted, rowVars, has, made, unnamed, serviceVars, deleting,
                 recs, spent, unanswered>>

Ends(t) ==
  /\ t \in open /\ open' = open \ {t}
  /\ UNCHANGED <<era, live, row, job, tainted, rowVars, agentVars, serviceVars, deleting, recs,
                 spent, unanswered>>

Reopens(t) ==
  /\ t \in live \ open /\ row[t].asid \in has
  /\ open' = open \union {t}
  /\ UNCHANGED <<era, live, row, job, tainted, rowVars, agentVars, serviceVars, deleting, recs,
                 spent, unanswered>>

(* Mutants of Retained: sessions are kept by name from the tasks that stay,   *)
(* as if the rows were written after the delete; or not at all.               *)
RetainedAfter(gone) ==
  kept \union ({row[t].asid : t \in {u \in live \ gone : row[u].asid # NoSession
                                                         /\ Restricted(u)}} \ cleared)
RetainedNever(gone) == kept

(* retain_runtime_restrictions: before any task is deleted.                  *)
Retained(gone) == kept \union (Ledger \ cleared)

(* delete_tasks, for retention (some that ended) and for the device (one).   *)
Forgets(gone) ==
  /\ era = "this" /\ gone # {} /\ gone \subseteq live \ open
  /\ \A c \in open : row[c].parent \notin gone
  /\ kept' = Retained(gone)
  /\ live' = live \ gone
  /\ cleared' = {s \in cleared : \E t \in live \ gone : row[t].asid = s}
  /\ UNCHANGED <<era, open, row, job, tainted, unrecorded, agentVars, serviceVars, deleting, recs,
                 spent, unanswered>>

(* An earlier gateway dispatched whatever it was asked.                      *)
OlderDispatches(t, r, unplaced, s) ==
  /\ era = "older" /\ Names(t, r, unplaced) /\ Fresh(s, made, Sessions)
  /\ row' = [row EXCEPT ![t] = RowOf(r, s)]
  /\ live' = live \union {t} /\ open' = open \union {t}
  /\ has' = has \union {s} /\ made' = made \union {s}
  /\ foreign' = IF Taints(r, unplaced) THEN foreign \union {s} ELSE foreign
  /\ job' = [job EXCEPT ![t] = Over]
  /\ UNCHANGED <<era, rowVars, unnamed, serviceVars, deleting, recs, spent, unanswered>>

(* An earlier gateway's purge recorded that there was such a session.        *)
OlderForgets(gone) ==
  /\ era = "older" /\ gone # {} /\ gone \subseteq live \ open
  /\ \A c \in open : row[c].parent \notin gone
  /\ unrecorded' = (unrecorded \/ Ledger # {})
  /\ live' = live \ gone
  /\ LET lost == {s \in foreign : ~\E t \in live \ gone : row[t].asid = s /\ t \in tainted}
     IN  foreign' = foreign \ lost /\ unnamed' = unnamed \union lost
  /\ UNCHANGED <<era, open, row, job, tainted, kept, cleared, has, made, serviceVars, deleting,
                 recs, spent, unanswered>>

Upgrades ==
  /\ era = "older" /\ era' = "this"
  /\ UNCHANGED <<ledgerVars, rowVars, agentVars, serviceVars, deleting, recs, spent,
                 unanswered>>

-----------------------------------------------------------------------------
(* Sessions that go, and who hears of it.                                    *)

DeviceDeletes(s) ==
  /\ era = "this" /\ s \in has /\ Other
  /\ has' = has \ {s} /\ deleting' = deleting \union {s}
  /\ UNCHANGED <<era, ledgerVars, rowVars, made, foreign, unnamed, serviceVars, recs, unanswered>>

DeviceClears(s) ==
  /\ s \in deleting /\ deleting' = deleting \ {s}
  /\ \/ Clear(s) /\ UNCHANGED spent
     \/ Fault /\ UNCHANGED rowVars
  /\ UNCHANGED <<era, ledgerVars, agentVars, serviceVars, recs, unanswered>>

AgentLoses(s) ==
  /\ s \in has /\ Other /\ has' = has \ {s}
  /\ UNCHANGED <<era, ledgerVars, rowVars, made, foreign, unnamed, serviceVars, deleting, recs,
                 unanswered>>

(* mcp forget-delegated: the owner decides about what has no name.           *)
CliForgets ==
  /\ era = "this" /\ recs["cli"].pc = "rest" /\ Other
  /\ unrecorded' = FALSE /\ unnamed' = {}
  /\ recs' = [recs EXCEPT !["cli"].pc = "list"]
  /\ UNCHANGED <<era, ledgerVars, kept, cleared, has, made, foreign, serviceVars, deleting, unanswered>>

(* reconcile_opencode_restrictions, by the supervisor and by the CLI.        *)
Asking(todo) == [pc |-> "ask", todo |-> todo, gone |-> NoSession]
GivesUpAsking(r) ==
  /\ Fault /\ unanswered' = TRUE
  /\ recs' = [recs EXCEPT ![r] = Asking({})] /\ UNCHANGED rowVars

Lists(r) ==
  /\ recs[r].pc = "list"
  /\ \/ /\ recs' = [recs EXCEPT ![r] = Asking(Block)]
        /\ UNCHANGED <<rowVars, spent, unanswered>>
     \/ GivesUpAsking(r)
  /\ UNCHANGED <<era, ledgerVars, agentVars, serviceVars, deleting>>

(* Mutants of Missing: any answer but the session itself counts; none does.   *)
MissingIfUnanswered(s, answers) == ~(answers /\ s \in has)
MissingNever(s, answers) == FALSE

(* session_missing: the service itself answers that there is no such session. *)
Missing(s, answers) == answers /\ s \notin has

Answers(r, s) ==
  /\ recs[r].pc = "ask" /\ recs[r].gone = NoSession /\ s \in recs[r].todo
  /\ \E answers \in IF service.up = "up" THEN BOOLEAN ELSE {FALSE} :
       /\ recs' = [recs EXCEPT ![r] =
                     [pc |-> "ask", todo |-> @.todo \ {s},
                      gone |-> IF Missing(s, answers) THEN s ELSE NoSession]]
       /\ IF answers \/ service.up # "up" THEN UNCHANGED <<spent, unanswered>>
          ELSE Fault /\ unanswered' = TRUE
  /\ UNCHANGED <<era, ledgerVars, rowVars, agentVars, serviceVars, deleting>>

Clears(r) ==
  /\ recs[r].gone # NoSession
  /\ \/ /\ Clear(recs[r].gone) /\ recs' = [recs EXCEPT ![r].gone = NoSession]
        /\ UNCHANGED <<spent, unanswered>>
     \/ GivesUpAsking(r)
  /\ UNCHANGED <<era, ledgerVars, agentVars, serviceVars, deleting>>

Asked(r) == recs[r].pc = "ask" /\ recs[r].todo = {} /\ recs[r].gone = NoSession

CliEnds ==
  /\ Asked("cli") /\ recs' = [recs EXCEPT !["cli"].pc = "rest"]
  /\ UNCHANGED <<era, ledgerVars, rowVars, agentVars, serviceVars, deleting, spent, unanswered>>

-----------------------------------------------------------------------------
(* The supervisor starts the service, or attaches one that runs.             *)

At(pc) == starter.pc = pc
Goes(pc) == starter' = [starter EXCEPT !.pc = pc]
Aside == <<era, ledgerVars, rowVars, agentVars, deleting, unanswered>>

Begins ==
  /\ era = "this" /\ At("rest") /\ service.up # "up" /\ Goes("mint")
  /\ UNCHANGED <<Aside, recs, service, saved, attached, missing, tokens, spent>>

(* issue: the restrictions are read in the transaction that writes the token. *)
Mints(k) ==
  /\ At("mint") /\ MayMint /\ Fresh(k, tokens \union {saved, service.env}, Tokens)
  /\ tokens' = tokens \union {k}
  /\ starter' = [pc |-> "save", mine |-> k, previous |-> tokens]
  /\ missing' = FALSE
  /\ UNCHANGED <<Aside, recs, service, saved, attached, spent>>

Withheld ==
  /\ At("mint")
  /\ \/ ~MayMint /\ UNCHANGED spent
     \/ Fault
  /\ starter' = [pc |-> "save", mine |-> NoToken, previous |-> {}]
  /\ missing' = TRUE
  /\ UNCHANGED <<Aside, recs, service, saved, attached, tokens>>

(* save_service_env, clear_service_env: a failure is logged and no more.     *)
Saves ==
  /\ At("save") /\ Goes("launch")
  /\ \/ saved' = starter.mine /\ UNCHANGED spent
     \/ Fault /\ UNCHANGED saved
  /\ UNCHANGED <<Aside, recs, service, attached, missing, tokens>>

Booted == IF service.up = "off" THEN [up |-> "booting", env |-> saved] ELSE service

(* service start: starts or reuses; one that times out may have started it.  *)
Launches ==
  /\ At("launch")
  /\ \/ Goes("wait") /\ service' = Booted /\ UNCHANGED spent
     \/ Goes("failed") /\ service' \in {service, Booted} /\ Fault
  /\ UNCHANGED <<Aside, recs, saved, attached, missing, tokens>>

(* wait_for_service, then settle_agent_tokens.                               *)
SeesUp ==
  /\ At("wait") /\ service.up = "up" /\ starter' = [Idle EXCEPT !.pc = "decide"]
  /\ tokens' = IF starter.mine # NoToken THEN tokens \ starter.previous ELSE tokens
  /\ UNCHANGED <<Aside, recs, service, saved, attached, missing, spent>>

GivesUp ==
  /\ At("wait") /\ service.up # "up" /\ Goes("failed") /\ Fault
  /\ UNCHANGED <<Aside, recs, service, saved, attached, missing, tokens>>

Fails ==
  /\ At("failed")
  /\ tokens' = tokens \ {starter.mine}
  /\ starter' = Idle
  /\ UNCHANGED <<Aside, recs, service, saved, attached, missing, spent>>

(* start_service: what was withheld is asked about again, and if nothing      *)
(* withholds it any more the service starts once more.                        *)
Attaches(pc) ==
  /\ Goes(pc) /\ attached' = TRUE
  /\ recs' = [recs EXCEPT !["gateway"].pc = "list"]

Decides ==
  /\ At("decide")
  /\ \/ (~missing \/ MayMint) /\ Attaches("attach")
     \/ /\ missing /\ ~MayMint /\ Goes("again") /\ UNCHANGED attached
        /\ recs' = [recs EXCEPT !["gateway"].pc = "list"]
  /\ UNCHANGED <<Aside, service, saved, missing, tokens, spent>>

DecidesAgain ==
  /\ At("again") /\ Asked("gateway")
  /\ \/ MayMint /\ Goes("stop") /\ UNCHANGED attached
        /\ recs' = [recs EXCEPT !["gateway"].pc = "rest"]
     \/ ~MayMint /\ Attaches("attach")
  /\ UNCHANGED <<Aside, service, saved, missing, tokens, spent>>

Stops ==
  /\ At("stop")
  /\ \/ Goes("mint") /\ service' = Off /\ UNCHANGED <<attached, recs, spent, unanswered>>
     \/ Fault /\ Attaches("attach") /\ UNCHANGED service
  /\ UNCHANGED <<Aside, saved, missing, tokens>>

Adopts ==
  /\ era = "this" /\ At("rest") /\ service.up = "up" /\ ~attached
  /\ Attaches("adopt")
  /\ UNCHANGED <<Aside, service, saved, missing, tokens, spent>>

(* check_adopted_mcp_env: what is saved is taken for what the service has.   *)
AttachEnds ==
  /\ starter.pc \in {"attach", "adopt"} /\ Asked("gateway")
  /\ recs' = [recs EXCEPT !["gateway"].pc = "rest"]
  /\ missing' = IF At("adopt") THEN saved = NoToken ELSE missing
  /\ starter' = Idle
  /\ UNCHANGED <<Aside, service, saved, attached, tokens, spent>>

(* The service, and those who start and stop it beside the gateway.          *)
ServiceReady ==
  /\ service.up = "booting" /\ service' = [service EXCEPT !.up = "up"]
  /\ UNCHANGED <<Aside, recs, saved, starter, attached, missing, tokens, spent>>

ServiceEnds ==
  /\ era = "this" /\ service.up # "off" /\ Other
  /\ service' = Off /\ attached' = FALSE
  /\ UNCHANGED <<Aside, recs, saved, starter, missing, tokens>>

OwnerStarts ==
  /\ era = "this" /\ service.up = "off" /\ Other
  /\ service' = Booted
  /\ UNCHANGED <<Aside, recs, saved, starter, attached, missing, tokens>>

Restarts ==
  /\ era = "this" /\ Other
  /\ job' = [t \in Tasks |-> IF job[t].pc = "new" THEN job[t] ELSE Over]
  /\ deleting' = {} /\ recs' = [recs EXCEPT !["gateway"] = Resting]
  /\ starter' = Idle /\ attached' = FALSE /\ missing' = FALSE
  /\ UNCHANGED <<era, live, open, row, tainted, rowVars, agentVars, service, saved, tokens,
                 unanswered>>

-----------------------------------------------------------------------------
TaskSteps ==
  \/ \E t \in Tasks, r \in Requests, unplaced \in BOOLEAN :
        \/ InsertsOther(t, r, unplaced)
        \/ \E s \in Sessions : OlderDispatches(t, r, unplaced, s)
  \/ \E t \in Tasks, r \in Requests : Asks(t, r)
  \/ \E t \in Tasks : Inserts(t) \/ Binds(t) \/ Ends(t) \/ Reopens(t)
  \/ \E t \in Tasks, s \in Sessions : Creates(t, s)
  \/ \E gone \in SUBSET Tasks : Forgets(gone) \/ OlderForgets(gone)
  \/ Upgrades

SessionSteps ==
  \/ \E s \in Sessions : DeviceDeletes(s) \/ DeviceClears(s) \/ AgentLoses(s)
  \/ CliForgets \/ CliEnds

Reconciles(r) == Lists(r) \/ Clears(r) \/ \E s \in Sessions : Answers(r, s)

Supervises ==
  \/ Begins \/ Withheld \/ Saves \/ Launches \/ SeesUp \/ GivesUp \/ Fails
  \/ Decides \/ DecidesAgain \/ Stops \/ Adopts \/ AttachEnds
  \/ \E k \in Tokens : Mints(k)

Around == ServiceReady \/ ServiceEnds \/ OwnerStarts \/ Restarts

Next ==
  \/ TaskSteps \/ SessionSteps \/ Supervises \/ Around
  \/ \E r \in Reconcilers : Reconciles(r)

Spec == Init /\ [][Next]_vars

(* The supervisor loops for the gateway's life; what it starts gets ready.   *)
Fairness ==
  /\ WF_vars(Supervises) /\ WF_vars(Reconciles("gateway")) /\ WF_vars(ServiceReady)
FairSpec == Spec /\ Fairness

-----------------------------------------------------------------------------
(* No runtime credential is live while a session that ran another computer's  *)
(* work, or nobody's, can still be resumed (RuntimeBlock, store_sqlite.rs).  *)
NoCredentialBeside == tokens # {} => (foreign \union unnamed) \intersect has = {}

(* A session stops withholding the credential only when the agent no longer   *)
(* has it: not when its task ends, is deleted or purged, and not when the    *)
(* service did not answer for it.                                            *)
HeldUntilGone ==
  [][era = "this" => \A s \in Sessions : s \in Block /\ ~(s \in Block)' => s \notin has]_vars

(* A session that is gone stops withholding once a service is attached, if    *)
(* asking it did not fail (reconcile_opencode_restrictions, runtime.rs).     *)
GoneIsCleared ==
  \A s \in Sessions :
    (era = "this" /\ ~attached /\ s \in Block \ has)
      ~> (s \notin Block \/ unanswered)

(* What clear_service_env asks for (a dead /mcp fails every tool call, where   *)
(* none at all is honest): tools reported as there work. It does not hold.   *)
ToolsReportedWork ==
  attached /\ At("rest") /\ service.up = "up" /\ ~missing => service.env \in tokens

(* What start_service promises of a start whose token was withheld: when the   *)
(* agent has no session that withholds it any more, the tools are not lost.  *)
(* It does not hold: who clears the last one in between also skips the retry. *)
WithheldIsNotLost ==
  (/\ At("save") /\ starter.mine = NoToken /\ service.up = "off" /\ Block # {}
   /\ spent = [faults |-> MaxFaults, others |-> MaxOthers])
    ~> (service.env # NoToken \/ unrecorded \/ Block \intersect has # {})

(* What RuntimeBlock says of the sessions it names: one whose ancestry is all  *)
(* in the ledger withholds only if it ran such work. It does not hold.       *)
PlacedNeverWithholds ==
  \A t \in live :
    era = "this" /\ row[t].parent \in live \union {NoTask} /\ row[t].asid \in Ledger
      => row[t].asid \in foreign
=============================================================================
