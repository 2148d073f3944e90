------------------------ MODULE RuntimeCredentialProofs ------------------------
(***************************************************************************)
(* RuntimeCredential proved for every set of tasks and sessions, every     *)
(* depth an ancestry is followed to and every number of failures.          *)
(*                                                                         *)
(* What the ledger reads off an ancestry must be what really happened: the  *)
(* strengthening says that taint and its absence run along every chain of   *)
(* parents alike, so that a task resolved to the owner is not tainted. The  *)
(* chains' lengths need no induction over data: a task is filed after its   *)
(* parent, so a step can only put a new head before chains that were there. *)
(***************************************************************************)
EXTENDS RuntimeCredential, TLAPS

(* Tasks that are past the check, and may be a parent.                        *)
Filed == {t \in Tasks : job[t].pc \notin {"new", "allowed"}}

(* A task is filed after its parent.                                          *)
Tree ==
  /\ live \subseteq Filed /\ tainted \subseteq Named
  /\ \A t \in Named : row[t].parent \in Filed \union {NoTask}

(* The owner's own tasks are clean, and a task is as its parent is.           *)
Edges ==
  \A t \in Named :
    /\ row[t].by = "owner" => t \notin tainted
    /\ row[t].by = "assistant" /\ row[t].parent # NoTask
         => (t \in tainted <=> row[t].parent \in tainted)

(* And so is its ancestor, however far.                                       *)
Runs ==
  \A n \in 1..(Depth + 1) : \A p \in [1..n -> live] :
    Chain(p, n) => (p[1] \in tainted <=> p[n] \in tainted)

(* A dispatch under way passed the check, and has no session yet.             *)
Clean ==
  \A t \in Tasks :
    job[t].pc \in {"allowed", "queued", "created"}
      => t \notin tainted /\ row[t].asid = NoSession

(* Every session the gateway knows of was made.                               *)
Known ==
  /\ kept \subseteq made /\ deleting \subseteq made
  /\ \A t \in Tasks : {row[t].asid, job[t].asid} \subseteq made \union {NoSession}
  /\ \A r \in Reconcilers : recs[r].todo \union {recs[r].gone} \subseteq made \union {NoSession}

(* What is about to be cleared is gone.                                       *)
Gone == deleting \intersect has = {} /\ \A r \in Reconcilers : recs[r].gone \notin has

(* Before the upgrade there is no credential, nothing is kept by name, and a   *)
(* session that ran another computer's work has its task in the ledger.      *)
Older ==
  era = "older" =>
    /\ tokens = {} /\ kept = {} /\ cleared = {} /\ deleting = {}
    /\ starter.pc = "rest" /\ \A r \in Reconcilers : recs[r] = Resting
    /\ \A t \in Tasks : job[t].pc \in {"new", "over"}
    /\ \A s \in foreign : \E t \in live : t \in tainted /\ row[t].asid = s

(* After it, such a session withholds the credential while it is there, and    *)
(* one that has no name any more left the row that has none.                 *)
Withholds ==
  /\ era = "this" => foreign \intersect has \subseteq Block
  /\ unnamed \intersect has # {} => unrecorded

IInv ==
  /\ TypeOK /\ Tree /\ Edges /\ Runs /\ Clean /\ Known /\ Gone /\ Older
  /\ Withholds /\ NoCredentialBeside

-----------------------------------------------------------------------------
(* Chains.                                                                   *)

(* A task that resolves to the owner's is not tainted.                        *)
LEMMA LocalIsClean ==
  ASSUME TypeOK, Tree, Edges, Runs, NEW t, NEW most \in 0..(Depth + 1), Local(t, most)
  PROVE  t \in live /\ t \notin tainted
<1>1. PICK n \in 1..most : \E p \in [1..n -> live] :
        p[1] = t /\ Chain(p, n) /\ row[p[n]].by = "owner"
  BY DEF Local
<1>2. PICK p \in [1..n -> live] : p[1] = t /\ Chain(p, n) /\ row[p[n]].by = "owner"
  BY <1>1
<1>3. n \in 1..(Depth + 1) /\ 1 \in 1..n /\ n \in 1..n
  BY CredentialAssumption
<1>4. p[n] \in Named
  BY <1>3 DEF Tree, Filed, Named
<1>5. p[n] \notin tainted
  BY <1>2, <1>4 DEF Edges
<1> QED
  BY <1>2, <1>3, <1>5 DEF Runs

(* What the ledger says of a task and its parent stays, and a task that comes  *)
(* into the ledger is nobody's parent yet.                                   *)
KinStand ==
  /\ \A u \in live \intersect live' :
       row'[u].by = row[u].by /\ row'[u].parent = row[u].parent
  /\ \A u \in live' : row'[u].parent \in live' => row'[u].parent \in live
  /\ \A u \in live : u \in tainted' <=> u \in tainted

(* So a chain from a task that was there was there.                           *)
LEMMA OldChain ==
  ASSUME KinStand, NEW n \in Nat \ {0}, NEW p \in [1..n -> live'],
         Chain(p, n)', p[1] \in live
  PROVE  p \in [1..n -> live] /\ Chain(p, n)
<1>1. \A i \in 1..n : p[i] \in live
  <2> SUFFICES ASSUME NEW i \in 1..n, i # 1 PROVE p[i] \in live
    OBVIOUS
  <2>1. i - 1 \in 1..(n - 1) /\ i - 1 \in 1..n /\ (i - 1) + 1 = i
    OBVIOUS
  <2>2. row'[p[i - 1]].parent = p[i]
    BY <2>1 DEF Chain
  <2> QED
    BY <2>1, <2>2 DEF KinStand
<1>2. p \in [1..n -> live]
  BY <1>1
<1>3. ASSUME NEW i \in 1..(n - 1)
      PROVE  row[p[i]].by = "assistant" /\ row[p[i]].parent = p[i + 1]
  <2>1. i \in 1..n
    OBVIOUS
  <2>2. p[i] \in live \intersect live'
    BY <1>1, <2>1
  <2>3. row'[p[i]].by = "assistant" /\ row'[p[i]].parent = p[i + 1]
    BY DEF Chain
  <2> QED
    BY <2>2, <2>3 DEF KinStand
<1> QED
  BY <1>2, <1>3 DEF Chain

(* What does not resolve goes on not resolving.                               *)
LEMMA RestrictedStays ==
  ASSUME KinStand, NEW t \in live \intersect live', Restricted(t)
  PROVE  Restricted(t)'
<1> SUFFICES ASSUME Local(t, Depth)' PROVE Local(t, Depth)
  BY DEF Restricted
<1>1. PICK n \in 1..Depth : \E p \in [1..n -> live'] :
        p[1] = t /\ Chain(p, n)' /\ row'[p[n]].by = "owner"
  BY DEF Local
<1>2. PICK p \in [1..n -> live'] : p[1] = t /\ Chain(p, n)' /\ row'[p[n]].by = "owner"
  BY <1>1
<1>3. n \in Nat \ {0} /\ n \in 1..n
  BY CredentialAssumption
<1>4. p \in [1..n -> live] /\ Chain(p, n)
  BY <1>2, <1>3, OldChain
<1>5. row[p[n]].by = "owner"
  BY <1>2, <1>3, <1>4 DEF KinStand
<1> QED
  BY <1>2, <1>4, <1>5 DEF Local

(* Taint goes on running along every chain.                                   *)
LEMMA RunsStep ==
  ASSUME Runs, KinStand, Tree', Edges', TypeOK, TypeOK'
  PROVE  Runs'
<1> SUFFICES ASSUME NEW n \in 1..(Depth + 1), NEW p \in [1..n -> live'], Chain(p, n)'
             PROVE  p[1] \in tainted' <=> p[n] \in tainted'
  BY DEF Runs
<1>a. n \in Nat \ {0} /\ n - 1 \in Nat /\ 1 \in 1..n /\ n \in 1..n
  BY CredentialAssumption
<1>1. CASE p[1] \in live
  <2>1. p \in [1..n -> live] /\ Chain(p, n)
    BY <1>1, <1>a, OldChain
  <2> QED
    BY <1>a, <2>1 DEF Runs, KinStand
<1>2. CASE p[1] \notin live /\ n = 1
  BY <1>2
<1>3. CASE p[1] \notin live /\ n # 1
  <2> DEFINE q == [i \in 1..(n - 1) |-> p[i + 1]]
  <2>1. n - 1 \in Nat \ {0} /\ n - 1 \in 1..(Depth + 1) /\ 1 \in 1..(n - 1) /\ n - 1 \in 1..(n - 1)
        /\ 2 \in 1..n /\ (n - 1) + 1 = n
    BY <1>3, <1>a, CredentialAssumption
  <2>2. q \in [1..(n - 1) -> live'] /\ q[1] = p[2] /\ q[n - 1] = p[n]
    BY <2>1
  <2>3. row'[p[1]].by = "assistant" /\ row'[p[1]].parent = p[2]
    BY <2>1 DEF Chain
  <2>4. p[1] \in live' /\ p[2] \in live'
    BY <1>a, <2>1
  <2>5. q[1] \in live
    BY <2>2, <2>3, <2>4 DEF KinStand
  <2>6. Chain(q, n - 1)'
    <3> SUFFICES ASSUME NEW i \in 1..((n - 1) - 1)
                 PROVE  row'[q[i]].by = "assistant" /\ row'[q[i]].parent = q[i + 1]
      BY DEF Chain
    <3>1. i + 1 \in 1..(n - 1) /\ i \in 1..(n - 1) /\ i + 1 + 1 \in 1..n
      BY <1>a
    <3>2. q[i] = p[i + 1] /\ q[i + 1] = p[i + 1 + 1]
      BY <3>1
    <3> QED
      BY <3>1, <3>2 DEF Chain
  <2>7. q \in [1..(n - 1) -> live] /\ Chain(q, n - 1)
    <3> HIDE DEF q
    <3> QED
      BY <2>1, <2>2, <2>5, <2>6, OldChain
  <2>8. q[1] \in tainted' <=> q[n - 1] \in tainted'
    <3> HIDE DEF q
    <3>1. q[1] \in tainted <=> q[n - 1] \in tainted
      BY <2>1, <2>7 DEF Runs
    <3> QED
      BY <2>1, <2>7, <3>1 DEF KinStand
  <2>9. p[2] # NoTask /\ p[1] \in Named'
    BY <2>4, CredentialAssumption DEF TypeOK, Tree, Filed, Named
  <2>10. p[1] \in tainted' <=> p[2] \in tainted'
    BY <2>3, <2>9 DEF Edges
  <2> QED
    BY <2>2, <2>8, <2>10
<1> QED
  BY <1>1, <1>2, <1>3

-----------------------------------------------------------------------------
(* Who moves what.                                                           *)

(* The supervisor and the service leave the ledger and the agent alone.       *)
LEMMA SupervisorsMoves ==
  ASSUME Supervises \/ ServiceReady \/ ServiceEnds \/ OwnerStarts
  PROVE  UNCHANGED Aside
BY DEF Supervises, Begins, Mints, Withheld, Saves, Launches, SeesUp, GivesUp, Fails, Decides,
       DecidesAgain, Stops, Adopts, AttachEnds, ServiceReady, ServiceEnds, OwnerStarts

LEMMA ReconcilersMoves ==
  ASSUME NEW r \in Reconcilers, Reconciles(r)
  PROVE  /\ UNCHANGED <<era, ledgerVars, agentVars, serviceVars, deleting>>
         /\ UNCHANGED rowVars \/ (recs[r].gone # NoSession /\ Clear(recs[r].gone))
BY DEF Reconciles, Lists, Clears, Answers, GivesUpAsking, rowVars

LEMMA SessionsMoves ==
  ASSUME SessionSteps
  PROVE  /\ UNCHANGED <<era, ledgerVars, serviceVars>>
         /\ UNCHANGED rowVars \/ CliForgets \/ \E s \in Sessions : DeviceClears(s)
         /\ has' \subseteq has /\ UNCHANGED <<made, foreign>> /\ unnamed' \subseteq unnamed
BY DEF SessionSteps, DeviceDeletes, DeviceClears, AgentLoses, CliForgets, CliEnds,
       rowVars, agentVars

LEMMA TasksMoves ==
  ASSUME TaskSteps
  PROVE  /\ UNCHANGED <<serviceVars, deleting, recs>>
         /\ UNCHANGED rowVars \/ \E gone \in SUBSET Tasks : Forgets(gone) \/ OlderForgets(gone)
BY DEF TaskSteps, InsertsOther, OlderDispatches, Asks, Inserts, Binds, Ends, Reopens, Creates,
       Forgets, OlderForgets, Upgrades, rowVars

-----------------------------------------------------------------------------
(* The ledger.                                                               *)

LEMMA LedgerTypes ==
  ASSUME TypeOK, TaskSteps
  PROVE  /\ era' \in {"older", "this"}
         /\ live' \subseteq Tasks /\ open' \subseteq live'
         /\ row' \in [Tasks -> Rows] /\ job' \in [Tasks -> Jobs] /\ tainted' \subseteq Tasks
<1> USE DEF TypeOK, Names, Jobs, Rows, RowOf, Requests, Principals
<1>1. ASSUME NEW t \in Tasks, NEW r \in Requests, NEW u \in BOOLEAN, InsertsOther(t, r, u)
      PROVE  /\ era' \in {"older", "this"} /\ live' \subseteq Tasks /\ open' \subseteq live'
             /\ row' \in [Tasks -> Rows] /\ job' \in [Tasks -> Jobs] /\ tainted' \subseteq Tasks
  <2>1. RowOf(r, NoSession) \in Rows
    OBVIOUS
  <2> QED
    BY <1>1, <2>1 DEF InsertsOther, Over
<1>2. ASSUME NEW t \in Tasks, NEW r \in Requests, NEW u \in BOOLEAN, NEW s \in Sessions,
             OlderDispatches(t, r, u, s)
      PROVE  /\ era' \in {"older", "this"} /\ live' \subseteq Tasks /\ open' \subseteq live'
             /\ row' \in [Tasks -> Rows] /\ job' \in [Tasks -> Jobs] /\ tainted' \subseteq Tasks
  <2>1. RowOf(r, s) \in Rows
    OBVIOUS
  <2> QED
    BY <1>2, <2>1 DEF OlderDispatches, Over
<1>3. ASSUME NEW t \in Tasks, NEW r \in Requests, Asks(t, r)
      PROVE  /\ era' \in {"older", "this"} /\ live' \subseteq Tasks /\ open' \subseteq live'
             /\ row' \in [Tasks -> Rows] /\ job' \in [Tasks -> Jobs] /\ tainted' \subseteq Tasks
  <2>1. RowOf(r, NoSession) \in Rows
    OBVIOUS
  <2> QED
    BY <1>3, <2>1 DEF Asks
<1>4. ASSUME NEW t \in Tasks, Inserts(t) \/ Binds(t) \/ Ends(t) \/ Reopens(t)
      PROVE  /\ era' \in {"older", "this"} /\ live' \subseteq Tasks /\ open' \subseteq live'
             /\ row' \in [Tasks -> Rows] /\ job' \in [Tasks -> Jobs] /\ tainted' \subseteq Tasks
  <2>1. CASE Inserts(t)
    BY <2>1 DEF Inserts
  <2>2. CASE Binds(t)
    BY <2>2 DEF Binds, Over
  <2>3. CASE Ends(t)
    BY <2>3 DEF Ends
  <2>4. CASE Reopens(t)
    BY <2>4 DEF Reopens
  <2> QED
    BY <1>4, <2>1, <2>2, <2>3, <2>4
<1>5. ASSUME NEW t \in Tasks, NEW s \in Sessions, Creates(t, s)
      PROVE  /\ era' \in {"older", "this"} /\ live' \subseteq Tasks /\ open' \subseteq live'
             /\ row' \in [Tasks -> Rows] /\ job' \in [Tasks -> Jobs] /\ tainted' \subseteq Tasks
  BY <1>5 DEF Creates
<1>6. ASSUME NEW gone \in SUBSET Tasks, Forgets(gone) \/ OlderForgets(gone)
      PROVE  /\ era' \in {"older", "this"} /\ live' \subseteq Tasks /\ open' \subseteq live'
             /\ row' \in [Tasks -> Rows] /\ job' \in [Tasks -> Jobs] /\ tainted' \subseteq Tasks
  BY <1>6 DEF Forgets, OlderForgets
<1>7. CASE Upgrades
  BY <1>7 DEF Upgrades, ledgerVars
<1> QED
  BY <1>1, <1>2, <1>3, <1>4, <1>5, <1>6, <1>7 DEF TaskSteps

(* Naming a task gives it the taint of its parent.                            *)
LEMMA NamesKin ==
  ASSUME TypeOK, Tree, Edges, NEW t \in Tasks, NEW r \in Requests, NEW unplaced \in BOOLEAN,
         NEW s, Names(t, r, unplaced), row' = [row EXCEPT ![t] = RowOf(r, s)],
         live' \in {live, live \union {t}},
         NEW pc, pc # "new", NEW asid, job' = [job EXCEPT ![t] = [pc |-> pc, asid |-> asid]],
         live' = live \/ pc # "allowed"
  PROVE  KinStand /\ Tree' /\ Edges'
<1>1. t \notin Named /\ t \notin live /\ t \notin tainted
  BY DEF Names, Fresh, Tree, Filed, Named
<1>2. Named' = Named \union {t}
  BY <1>1 DEF Named, TypeOK
<1>3. \A u \in Tasks : u # t => row'[u] = row[u] /\ job'[u] = job[u]
  BY DEF TypeOK
<1>4. row'[t].by = r.by /\ row'[t].parent = r.parent /\ r.parent \in live \union {NoTask}
  BY DEF TypeOK, RowOf, Names
<1>5. \A u \in Named : u # t /\ row[u].parent # t
  BY <1>1, CredentialAssumption DEF Tree, Filed, Named
<1>6. tainted' = IF Taints(r, unplaced) THEN tainted \union {t} ELSE tainted
  BY DEF Names
<1>7. live \subseteq Named /\ t # NoTask /\ r.parent # t /\ live \subseteq Tasks
  BY <1>1, <1>4, CredentialAssumption DEF Tree, Filed, Named, TypeOK
<1>8. KinStand
  BY <1>3, <1>4, <1>5, <1>6, <1>7 DEF KinStand
<1>9. Tree'
  <2>1. Filed \subseteq Filed'
    BY <1>1, <1>3 DEF Filed, Named
  <2>2. live' \subseteq Filed'
    BY <1>1, <2>1, <1>3 DEF Tree, Filed, TypeOK
  <2>3. tainted' \subseteq Named'
    BY <1>2, <1>6 DEF Tree
  <2>4. ASSUME NEW u \in Named' PROVE row'[u].parent \in Filed' \union {NoTask}
    <3>1. CASE u = t
      BY <3>1, <1>4, <2>1 DEF Tree
    <3>2. CASE u # t
      BY <3>2, <1>2, <1>3, <2>1 DEF Tree, Named
    <3> QED
      BY <3>1, <3>2
  <2> QED
    BY <2>2, <2>3, <2>4 DEF Tree
<1>10. Edges'
  <2> SUFFICES ASSUME NEW u \in Named'
               PROVE  /\ row'[u].by = "owner" => u \notin tainted'
                      /\ row'[u].by = "assistant" /\ row'[u].parent # NoTask
                           => (u \in tainted' <=> row'[u].parent \in tainted')
    BY DEF Edges
  <2>1. CASE u # t
    <3>1. u \in Named /\ row'[u] = row[u] /\ row[u].parent # t
      BY <2>1, <1>2, <1>3, <1>5 DEF Named
    <3> QED
      BY <2>1, <3>1, <1>6 DEF Edges
  <2>2. CASE u = t
    <3>1. NoTask \notin tainted
      BY CredentialAssumption DEF TypeOK
    <3>2. r.by = "owner" => r.parent = NoTask
      BY DEF Requests
    <3>3. r.by = "owner" => ~Taints(r, unplaced)
      BY <3>1, <3>2 DEF Taints
    <3>4. r.by = "assistant" /\ r.parent # NoTask
            => (Taints(r, unplaced) <=> r.parent \in tainted)
      BY DEF Taints
    <3> QED
      BY <2>2, <1>1, <1>4, <1>6, <1>7, <3>3, <3>4
  <2> QED
    BY <2>1, <2>2
<1> QED
  BY <1>8, <1>9, <1>10

(* What passes the check is clean.                                            *)
LEMMA AllowedIsClean ==
  ASSUME TypeOK, Tree, Edges, Runs, NEW r \in Requests, Allowed(r)
  PROVE  ~Taints(r, FALSE)
<1>1. Depth + 1 \in 0..(Depth + 1) /\ NoTask \notin tainted
  BY CredentialAssumption DEF TypeOK
<1>2. r.by # "peer" /\ (r.by = "owner" => r.parent = NoTask)
  BY DEF Allowed, Requests
<1>3. r.parent = NoTask \/ r.parent \notin tainted
  BY <1>1, <1>2, LocalIsClean DEF Allowed, Requests
<1> QED
  BY <1>1, <1>2, <1>3 DEF Taints

(* Nothing a step does to the ledger undoes what it says of ancestries.       *)
LEMMA LedgerStep ==
  ASSUME TypeOK, Tree, Edges, Runs, Clean, Older, [Next]_vars
  PROVE  KinStand /\ Tree' /\ Edges' /\ Clean'
<1>0. ASSUME UNCHANGED <<live, row, job, tainted>>
      PROVE  KinStand /\ Tree' /\ Edges' /\ Clean'
  <2>1. Filed' = Filed /\ Named' = Named
    BY <1>0 DEF Filed, Named
  <2> QED
    BY <1>0, <2>1 DEF KinStand, Tree, Edges, Clean
<1>1. ASSUME NEW t \in Tasks, NEW r \in Requests, NEW u \in BOOLEAN, InsertsOther(t, r, u)
      PROVE  KinStand /\ Tree' /\ Edges' /\ Clean'
  <2>0. /\ Names(t, r, u) /\ row' = [row EXCEPT ![t] = RowOf(r, NoSession)]
        /\ live' \in {live, live \union {t}} /\ "over" # "new" /\ "over" # "allowed"
        /\ job' = [job EXCEPT ![t] = [pc |-> "over", asid |-> NoSession]]
    BY <1>1 DEF InsertsOther, Over
  <2>1. KinStand /\ Tree' /\ Edges'
    BY <2>0, NamesKin, Zenon
  <2>2. Clean'
    BY <1>1 DEF InsertsOther, Over, Clean, TypeOK, Names
  <2> QED
    BY <2>1, <2>2
<1>2. ASSUME NEW t \in Tasks, NEW r \in Requests, NEW u \in BOOLEAN, NEW s \in Sessions,
             OlderDispatches(t, r, u, s)
      PROVE  KinStand /\ Tree' /\ Edges' /\ Clean'
  <2>0. /\ Names(t, r, u) /\ row' = [row EXCEPT ![t] = RowOf(r, s)]
        /\ live' \in {live, live \union {t}} /\ "over" # "new" /\ "over" # "allowed"
        /\ job' = [job EXCEPT ![t] = [pc |-> "over", asid |-> NoSession]]
    BY <1>2 DEF OlderDispatches, Over
  <2>1. KinStand /\ Tree' /\ Edges'
    BY <2>0, NamesKin, Zenon
  <2>2. Clean'
    BY <1>2 DEF OlderDispatches, Over, Clean, TypeOK, Names
  <2> QED
    BY <2>1, <2>2
<1>3. ASSUME NEW t \in Tasks, NEW r \in Requests, Asks(t, r)
      PROVE  KinStand /\ Tree' /\ Edges' /\ Clean'
  <2>1. job' = [job EXCEPT ![t] = [pc |-> "allowed", asid |-> NoSession]]
    BY <1>3 DEF Asks
  <2>2. KinStand /\ Tree' /\ Edges'
    BY <1>3, <2>1, NamesKin, Zenon DEF Asks
  <2>3. ~Taints(r, FALSE) /\ t \notin tainted
    BY <1>3, AllowedIsClean DEF Asks, Names, Fresh, Tree
  <2>4. Clean'
    BY <1>3, <2>1, <2>3 DEF Asks, Clean, TypeOK, Names, RowOf
  <2> QED
    BY <2>2, <2>4
<1>4. ASSUME NEW t \in Tasks, Inserts(t)
      PROVE  KinStand /\ Tree' /\ Edges' /\ Clean'
  <2>1. /\ live' = live \union {t} /\ UNCHANGED <<row, tainted>>
        /\ job' = [job EXCEPT ![t].pc = "queued"] /\ t \in Named \ Filed
    BY <1>4 DEF Inserts, Named, Filed
  <2>2. Filed' = Filed \union {t} /\ Named' = Named
    BY <2>1 DEF Filed, Named, TypeOK, Jobs
  <2>3. \A u \in Named : row[u].parent # t
    BY <2>1, CredentialAssumption DEF Tree
  <2>4. live \subseteq Named
    BY DEF Tree, Filed, Named
  <2>5. KinStand /\ Tree' /\ Edges'
    BY <2>1, <2>2, <2>3, <2>4 DEF KinStand, Tree, Edges
  <2>6. Clean'
    BY <1>4, <2>1 DEF Inserts, Clean, TypeOK, Jobs
  <2> QED
    BY <2>5, <2>6
<1>5. ASSUME NEW t \in Tasks, NEW s \in Sessions, Creates(t, s)
      PROVE  KinStand /\ Tree' /\ Edges' /\ Clean'
  <2>1. UNCHANGED <<live, row, tainted>> /\ job[t].pc = "queued"
        /\ job' = [job EXCEPT ![t] = [pc |-> "created", asid |-> s]]
    BY <1>5 DEF Creates
  <2>2. Filed' = Filed /\ Named' = Named
    BY <2>1 DEF Filed, Named, TypeOK
  <2>3. KinStand /\ Tree' /\ Edges'
    BY <2>1, <2>2 DEF KinStand, Tree, Edges
  <2>4. Clean'
    BY <2>1 DEF Clean, TypeOK
  <2> QED
    BY <2>3, <2>4
<1>6. ASSUME NEW t \in Tasks, Binds(t)
      PROVE  KinStand /\ Tree' /\ Edges' /\ Clean'
  <2>1. UNCHANGED <<live, tainted>> /\ job[t].pc = "created" /\ job' = [job EXCEPT ![t] = Over]
        /\ (row' = row \/ row' = [row EXCEPT ![t].asid = job[t].asid])
    BY <1>6 DEF Binds
  <2>2. Filed' = Filed /\ Named' = Named
    BY <2>1 DEF Filed, Named, TypeOK, Over
  <2>3. \A u \in Tasks : row'[u].by = row[u].by /\ row'[u].parent = row[u].parent
    BY <2>1 DEF TypeOK, Rows
  <2>4. live \subseteq Tasks /\ Named \subseteq Tasks
    BY DEF TypeOK, Named
  <2>5. KinStand /\ Tree' /\ Edges'
    BY <2>1, <2>2, <2>3, <2>4 DEF KinStand, Tree, Edges
  <2>6. Clean'
    BY <2>1 DEF Clean, TypeOK, Over
  <2> QED
    BY <2>5, <2>6
<1>7. ASSUME NEW gone \in SUBSET Tasks, Forgets(gone) \/ OlderForgets(gone)
      PROVE  KinStand /\ Tree' /\ Edges' /\ Clean'
  <2>1. live' \subseteq live /\ UNCHANGED <<row, job, tainted>>
    BY <1>7 DEF Forgets, OlderForgets
  <2>2. Filed' = Filed /\ Named' = Named
    BY <2>1 DEF Filed, Named
  <2> QED
    BY <2>1, <2>2 DEF KinStand, Tree, Edges, Clean
<1>8. CASE Restarts
  <2>1. UNCHANGED <<live, row, tainted>>
        /\ job' = [t \in Tasks |-> IF job[t].pc = "new" THEN job[t] ELSE Over]
    BY <1>8 DEF Restarts
  <2>2. Filed \subseteq Filed' /\ Named' = Named
    BY <2>1 DEF Filed, Named, Over
  <2>3. KinStand /\ Tree' /\ Edges'
    BY <2>1, <2>2 DEF KinStand, Tree, Edges
  <2>4. Clean'
    BY <2>1 DEF Clean, Over
  <2> QED
    BY <2>3, <2>4
<1>9. ASSUME NEW t \in Tasks, Ends(t) \/ Reopens(t)
      PROVE  UNCHANGED <<live, row, job, tainted>>
  BY <1>9 DEF Ends, Reopens
<1>10. CASE TaskSteps
  <2>1. CASE Upgrades
    BY <2>1, <1>0 DEF Upgrades, ledgerVars
  <2> QED
    BY <1>10, <2>1, <1>0, <1>1, <1>2, <1>3, <1>4, <1>5, <1>6, <1>7, <1>9 DEF TaskSteps
<1>11. CASE SessionSteps \/ Supervises \/ ServiceReady \/ ServiceEnds \/ OwnerStarts
  BY <1>11, <1>0, SessionsMoves, SupervisorsMoves DEF ledgerVars, Aside
<1>12. ASSUME NEW r \in Reconcilers, Reconciles(r)
       PROVE  UNCHANGED <<live, row, job, tainted>>
  BY <1>12, ReconcilersMoves DEF ledgerVars
<1>13. CASE UNCHANGED vars
  BY <1>13, <1>0 DEF vars, ledgerVars
<1> QED
  BY <1>0, <1>8, <1>10, <1>11, <1>12, <1>13 DEF Next, Around

-----------------------------------------------------------------------------
(* Types.                                                                    *)

(* What the ledger and the kept rows say are sessions.                        *)
LEMMA BlockTypes ==
  ASSUME TypeOK
  PROVE  Ledger \subseteq Sessions /\ Block \subseteq Sessions /\ Block \intersect cleared = {}
<1>1. Ledger \subseteq Sessions
  BY DEF TypeOK, Ledger, Rows
<1> QED
  BY <1>1 DEF TypeOK, Block

LEMMA ClearTypes ==
  ASSUME TypeOK, NEW s \in Sessions, Clear(s)
  PROVE  kept' \subseteq Sessions \ cleared' /\ cleared' \subseteq Sessions /\ unrecorded' \in BOOLEAN
BY DEF TypeOK, Clear

(* What the supervisor and the service change keeps its type.                 *)
LEMMA SupervisorTypes ==
  ASSUME TypeOK, Supervises \/ ServiceReady \/ ServiceEnds \/ OwnerStarts
  PROVE  /\ recs' \in [Reconcilers -> Recs] /\ service' \in Services
         /\ saved' \in Tokens \union {NoToken} /\ starter' \in Starters
         /\ attached' \in BOOLEAN /\ missing' \in BOOLEAN /\ tokens' \subseteq Tokens
<1> DEFINE Goal ==
      /\ recs' \in [Reconcilers -> Recs] /\ service' \in Services
      /\ saved' \in Tokens \union {NoToken} /\ starter' \in Starters
      /\ attached' \in BOOLEAN /\ missing' \in BOOLEAN /\ tokens' \subseteq Tokens
<1>0. /\ recs \in [Reconcilers -> Recs] /\ service \in Services
      /\ saved \in Tokens \union {NoToken} /\ starter \in Starters
      /\ attached \in BOOLEAN /\ missing \in BOOLEAN /\ tokens \subseteq Tokens
  BY DEF TypeOK
<1>a. Off \in Services /\ Booted \in Services
  BY <1>0 DEF Off, Booted, Services
<1>b. Idle \in Starters /\ [Idle EXCEPT !.pc = "decide"] \in Starters
  BY DEF Idle, Starters
<1> USE <1>0
<1>1. CASE Begins
  BY <1>1 DEF Begins, Goes, Starters
<1>2. ASSUME NEW k \in Tokens, Mints(k)
      PROVE  Goal
  BY <1>2 DEF Mints, Starters
<1>3. CASE Withheld
  BY <1>3 DEF Withheld, Starters
<1>4. CASE Saves
  BY <1>4 DEF Saves, Goes, Starters
<1>5. CASE Launches
  BY <1>5, <1>a DEF Launches, Goes, Starters
<1>6. CASE SeesUp
  BY <1>6, <1>b DEF SeesUp
<1>7. CASE GivesUp
  BY <1>7 DEF GivesUp, Goes, Starters
<1>8. CASE Fails
  BY <1>8, <1>b DEF Fails
<1>c. ASSUME NEW pc \in {"rest", "list"}
      PROVE  [recs EXCEPT !["gateway"].pc = pc] \in [Reconcilers -> Recs]
  BY <1>0 DEF Recs
<1>d. ASSUME NEW pc \in {"again", "attach", "adopt", "stop"}
      PROVE  [starter EXCEPT !.pc = pc] \in Starters
  BY <1>0 DEF Starters
<1>9. CASE Decides
  BY <1>9, <1>c, <1>d DEF Decides, Attaches, Goes
<1>10. CASE DecidesAgain
  BY <1>10, <1>c, <1>d DEF DecidesAgain, Attaches, Goes
<1>11. CASE Stops
  <2>1. CASE service' = Off
    BY <1>11, <2>1, <1>a, <1>c, <1>d DEF Stops, Attaches, Goes, Starters
  <2> QED
    BY <1>11, <2>1, <1>c, <1>d DEF Stops, Attaches, Goes
<1>12. CASE Adopts
  BY <1>12, <1>c, <1>d DEF Adopts, Attaches, Goes
<1>13. CASE AttachEnds
  BY <1>13, <1>b DEF AttachEnds, Recs
<1>14. CASE ServiceReady
  BY <1>14 DEF ServiceReady, Services
<1>15. CASE ServiceEnds
  BY <1>15, <1>a DEF ServiceEnds
<1>16. CASE OwnerStarts
  BY <1>16, <1>a DEF OwnerStarts
<1> QED
  BY <1>1, <1>2, <1>3, <1>4, <1>5, <1>6, <1>7, <1>8, <1>9, <1>10, <1>11, <1>12, <1>13, <1>14,
     <1>15, <1>16 DEF Supervises

(* What the tasks and the agent change keeps its type.                        *)
LEMMA TaskTypes ==
  ASSUME TypeOK, Clean, Known, TaskSteps
  PROVE  /\ kept' \subseteq Sessions \ cleared' /\ cleared' \subseteq Sessions
         /\ unrecorded' \in BOOLEAN
         /\ has' \subseteq made' /\ made' \subseteq Sessions
         /\ foreign' \subseteq made' /\ unnamed' \subseteq made'
<1> DEFINE Goal ==
      /\ kept' \subseteq Sessions \ cleared' /\ cleared' \subseteq Sessions
      /\ unrecorded' \in BOOLEAN
      /\ has' \subseteq made' /\ made' \subseteq Sessions
      /\ foreign' \subseteq made' /\ unnamed' \subseteq made'
<1>0. /\ kept \subseteq Sessions \ cleared /\ cleared \subseteq Sessions /\ unrecorded \in BOOLEAN
      /\ has \subseteq made /\ made \subseteq Sessions
      /\ foreign \subseteq made /\ unnamed \subseteq made
  BY DEF TypeOK
<1>1. CASE \/ \E t \in Tasks, r \in Requests, u \in BOOLEAN : InsertsOther(t, r, u) \/ Asks(t, r)
           \/ \E t \in Tasks : Inserts(t) \/ Ends(t) \/ Reopens(t)
           \/ Upgrades
  BY <1>0, <1>1
     DEF InsertsOther, Asks, Inserts, Ends, Reopens, Upgrades, rowVars, agentVars
<1>2. ASSUME NEW t \in Tasks, NEW r \in Requests, NEW u \in BOOLEAN, NEW s \in Sessions,
             OlderDispatches(t, r, u, s)
      PROVE  Goal
  BY <1>0, <1>2 DEF OlderDispatches, rowVars
<1>3. ASSUME NEW t \in Tasks, NEW s \in Sessions, Creates(t, s)
      PROVE  Goal
  BY <1>0, <1>3 DEF Creates, rowVars
<1>4. ASSUME NEW t \in Tasks, Binds(t)
      PROVE  Goal
  BY <1>0, <1>4 DEF Binds, rowVars, Clean
<1>5. ASSUME NEW gone \in SUBSET Tasks, Forgets(gone)
      PROVE  Goal
  <2>1. kept' = Block /\ cleared' \subseteq cleared /\ UNCHANGED <<unrecorded, agentVars>>
    BY <1>5 DEF Forgets, Retained, Block
  <2> QED
    BY <1>0, <2>1, BlockTypes DEF agentVars
<1>6. ASSUME NEW gone \in SUBSET Tasks, OlderForgets(gone)
      PROVE  Goal
  <2>1. /\ UNCHANGED <<kept, cleared, has, made>> /\ unrecorded' = (unrecorded \/ Ledger # {})
        /\ foreign' \subseteq foreign /\ unnamed' \subseteq unnamed \union foreign
    BY <1>6 DEF OlderForgets
  <2> QED
    BY <1>0, <2>1
<1> QED
  BY <1>1, <1>2, <1>3, <1>4, <1>5, <1>6, Zenon DEF TaskSteps

LEMMA TypesStep ==
  ASSUME TypeOK, Clean, Known, [Next]_vars
  PROVE  TypeOK'
<1>1. CASE TaskSteps
  BY <1>1, LedgerTypes, TaskTypes, TasksMoves DEF TypeOK, serviceVars
<1>2. CASE Supervises \/ ServiceReady \/ ServiceEnds \/ OwnerStarts
  BY <1>2, SupervisorTypes, SupervisorsMoves DEF TypeOK, Aside, ledgerVars, rowVars, agentVars
<1>3. CASE SessionSteps
  <2>1. deleting' \subseteq Sessions /\ recs' \in [Reconcilers -> Recs]
    BY <1>3 DEF SessionSteps, DeviceDeletes, DeviceClears, AgentLoses, CliForgets, CliEnds,
                TypeOK, Recs
  <2>2. kept' \subseteq Sessions \ cleared' /\ cleared' \subseteq Sessions /\ unrecorded' \in BOOLEAN
    <3>1. CASE UNCHANGED rowVars
      BY <3>1 DEF rowVars, TypeOK
    <3>2. CASE CliForgets
      BY <3>2 DEF CliForgets, TypeOK
    <3>3. ASSUME NEW s \in Sessions, DeviceClears(s)
          PROVE  Clear(s) \/ UNCHANGED rowVars
      BY <3>3 DEF DeviceClears
    <3> QED
      BY <1>3, <3>1, <3>2, <3>3, SessionsMoves, ClearTypes
  <2> QED
    BY <1>3, <2>1, <2>2, SessionsMoves DEF TypeOK, ledgerVars, serviceVars
<1>4. ASSUME NEW r \in Reconcilers, Reconciles(r)
      PROVE  TypeOK'
  <2>1. recs' \in [Reconcilers -> Recs]
    <3>1. CASE Lists(r)
      BY <3>1, BlockTypes DEF Lists, GivesUpAsking, Asking, TypeOK, Recs
    <3>2. CASE Clears(r)
      BY <3>2 DEF Clears, GivesUpAsking, Asking, TypeOK, Recs
    <3>3. ASSUME NEW s \in Sessions, Answers(r, s)
          PROVE  recs' \in [Reconcilers -> Recs]
      BY <3>3 DEF Answers, TypeOK, Recs
    <3> QED
      BY <1>4, <3>1, <3>2, <3>3 DEF Reconciles
  <2>2. kept' \subseteq Sessions \ cleared' /\ cleared' \subseteq Sessions /\ unrecorded' \in BOOLEAN
    <3>1. CASE UNCHANGED rowVars
      BY <3>1 DEF rowVars, TypeOK
    <3>2. CASE recs[r].gone # NoSession /\ Clear(recs[r].gone)
      <4>1. recs[r].gone \in Sessions /\ Clear(recs[r].gone)
        BY <3>2 DEF TypeOK, Recs
      <4> QED
        BY <4>1, ClearTypes
    <3> QED
      BY <1>4, <3>1, <3>2, ReconcilersMoves
  <2> QED
    BY <1>4, <2>1, <2>2, ReconcilersMoves DEF TypeOK, ledgerVars, agentVars, serviceVars
<1>5. CASE Restarts
  <2>1. Over \in Jobs /\ Idle \in Starters /\ Resting \in Recs
    BY DEF Over, Jobs, Idle, Starters, Resting, Recs
  <2> QED
    BY <1>5, <2>1 DEF Restarts, TypeOK, rowVars, agentVars
<1>6. CASE UNCHANGED vars
  BY <1>6 DEF vars, TypeOK, ledgerVars, rowVars, agentVars, serviceVars
<1> QED
  BY <1>1, <1>2, <1>3, <1>4, <1>5, <1>6 DEF Next, Around

-----------------------------------------------------------------------------
(* The sessions the gateway knows of.                                         *)

LEMMA BlockKnown ==
  ASSUME TypeOK, Known
  PROVE  Ledger \subseteq made /\ Block \subseteq made
<1>1. Ledger \subseteq made
  BY DEF TypeOK, Known, Ledger
<1> QED
  BY <1>1 DEF Block, Known

LEMMA KnownStep ==
  ASSUME TypeOK, TypeOK', Known, [Next]_vars
  PROVE  Known'
<1>0. made \subseteq made' /\ NoSession \notin made'
  <2>1. CASE TaskSteps
    BY <2>1, CredentialAssumption
       DEF TaskSteps, InsertsOther, OlderDispatches, Asks, Inserts, Binds, Ends, Reopens, Creates,
           Forgets, OlderForgets, Upgrades, agentVars, TypeOK
  <2>2. CASE ~TaskSteps
    BY <2>2, SessionsMoves, SupervisorsMoves, ReconcilersMoves, CredentialAssumption
       DEF Next, Around, Restarts, Aside, agentVars, TypeOK, vars
  <2> QED
    BY <2>1, <2>2
<1>1. kept' \subseteq made'
  <2>1. kept' \subseteq kept \union Block
    <3>1. ASSUME NEW s, Clear(s)
          PROVE  kept' \subseteq kept
      BY <3>1 DEF Clear
    <3>2. CASE TaskSteps
      BY <3>2, TasksMoves DEF rowVars, Forgets, OlderForgets, Retained, Block
    <3>3. CASE SessionSteps
      BY <3>1, <3>3, SessionsMoves DEF rowVars, CliForgets, DeviceClears
    <3>4. ASSUME NEW r \in Reconcilers, Reconciles(r)
          PROVE  kept' \subseteq kept
      BY <3>1, <3>4, ReconcilersMoves DEF rowVars
    <3> QED
      BY <3>2, <3>3, <3>4, SupervisorsMoves DEF Next, Around, Restarts, Aside, rowVars, vars
  <2> QED
    BY <1>0, <2>1, BlockKnown DEF Known
<1>2. deleting' \subseteq made'
  <2>1. CASE SessionSteps
    BY <1>0, <2>1 DEF SessionSteps, DeviceDeletes, DeviceClears, AgentLoses, CliForgets, CliEnds,
                      Known, TypeOK
  <2> QED
    BY <1>0, <2>1, TasksMoves, SupervisorsMoves, ReconcilersMoves
       DEF Next, Around, Restarts, Aside, vars, Known
<1>3. ASSUME NEW t \in Tasks
      PROVE  {row'[t].asid, job'[t].asid} \subseteq made' \union {NoSession}
  <2>0. {row[t].asid, job[t].asid} \subseteq made \union {NoSession}
    BY DEF Known
  <2>1. CASE TaskSteps
    <3>1. ASSUME NEW u \in Tasks, NEW q \in Requests, NEW unplaced \in BOOLEAN,
                 InsertsOther(u, q, unplaced)
          PROVE  {row'[t].asid, job'[t].asid} \subseteq made' \union {NoSession}
      BY <1>0, <2>0, <3>1 DEF InsertsOther, RowOf, Over, TypeOK
    <3>2. ASSUME NEW u \in Tasks, NEW q \in Requests, NEW unplaced \in BOOLEAN, NEW s \in Sessions,
                 OlderDispatches(u, q, unplaced, s)
          PROVE  {row'[t].asid, job'[t].asid} \subseteq made' \union {NoSession}
      BY <1>0, <2>0, <3>2 DEF OlderDispatches, RowOf, Over, TypeOK
    <3>3. ASSUME NEW u \in Tasks, NEW q \in Requests, Asks(u, q)
          PROVE  {row'[t].asid, job'[t].asid} \subseteq made' \union {NoSession}
      BY <1>0, <2>0, <3>3 DEF Asks, RowOf, TypeOK
    <3>4. ASSUME NEW u \in Tasks, Inserts(u)
          PROVE  {row'[t].asid, job'[t].asid} \subseteq made' \union {NoSession}
      BY <1>0, <2>0, <3>4 DEF Inserts, TypeOK, Jobs
    <3>5. ASSUME NEW u \in Tasks, Binds(u)
          PROVE  {row'[t].asid, job'[t].asid} \subseteq made' \union {NoSession}
      BY <1>0, <2>0, <3>5 DEF Binds, TypeOK, Rows, Over, Known
    <3>6. ASSUME NEW u \in Tasks, NEW s \in Sessions, Creates(u, s)
          PROVE  {row'[t].asid, job'[t].asid} \subseteq made' \union {NoSession}
      BY <1>0, <2>0, <3>6 DEF Creates, TypeOK
    <3>7. ASSUME UNCHANGED <<row, job>>
          PROVE  {row'[t].asid, job'[t].asid} \subseteq made' \union {NoSession}
      BY <1>0, <2>0, <3>7
    <3>8. CASE \/ \E u \in Tasks : Ends(u) \/ Reopens(u)
               \/ \E gone \in SUBSET Tasks : Forgets(gone) \/ OlderForgets(gone)
               \/ Upgrades
      BY <3>7, <3>8 DEF Ends, Reopens, Forgets, OlderForgets, Upgrades, ledgerVars
    <3> QED
      BY <2>1, <3>1, <3>2, <3>3, <3>4, <3>5, <3>6, <3>8 DEF TaskSteps
  <2>2. CASE Restarts
    BY <1>0, <2>0, <2>2 DEF Restarts, Over
  <2>3. CASE ~TaskSteps /\ ~Restarts
    BY <1>0, <2>0, <2>3, SessionsMoves, SupervisorsMoves, ReconcilersMoves
       DEF Next, Around, Aside, ledgerVars, vars
  <2> QED
    BY <2>1, <2>2, <2>3
<1>4. ASSUME NEW q \in Reconcilers
      PROVE  recs'[q].todo \union {recs'[q].gone} \subseteq made' \union {NoSession}
  <2>0. recs[q].todo \union {recs[q].gone} \subseteq made \union {NoSession}
    BY DEF Known
  <2>1. ASSUME NEW r \in Reconcilers, Reconciles(r)
        PROVE  recs'[q].todo \union {recs'[q].gone} \subseteq made' \union {NoSession}
    <3>1. CASE Lists(r)
      BY <1>0, <2>0, <3>1, BlockKnown DEF Lists, GivesUpAsking, Asking, TypeOK
    <3>2. CASE Clears(r)
      BY <1>0, <2>0, <3>2 DEF Clears, GivesUpAsking, Asking, TypeOK, Recs
    <3>3. ASSUME NEW s \in Sessions, Answers(r, s)
          PROVE  recs'[q].todo \union {recs'[q].gone} \subseteq made' \union {NoSession}
      BY <1>0, <2>0, <3>3 DEF Answers, TypeOK, Known
    <3> QED
      BY <2>1, <3>1, <3>2, <3>3 DEF Reconciles
  <2>2. ASSUME recs'[q].todo = recs[q].todo, recs'[q].gone = recs[q].gone
        PROVE  recs'[q].todo \union {recs'[q].gone} \subseteq made' \union {NoSession}
    BY <1>0, <2>0, <2>2
  <2>3. ASSUME Supervises \/ ServiceReady \/ ServiceEnds \/ OwnerStarts
        PROVE  recs'[q].todo = recs[q].todo /\ recs'[q].gone = recs[q].gone
    BY <2>3 DEF Supervises, Begins, Mints, Withheld, Saves, Launches, SeesUp, GivesUp, Fails,
         Decides, DecidesAgain, Stops, Adopts, AttachEnds, ServiceReady, ServiceEnds, OwnerStarts,
         Attaches, TypeOK, Recs
  <2>4. ASSUME SessionSteps
        PROVE  recs'[q].todo = recs[q].todo /\ recs'[q].gone = recs[q].gone
    BY <2>4 DEF SessionSteps, DeviceDeletes, DeviceClears, AgentLoses, CliForgets, CliEnds,
                TypeOK, Recs
  <2>5. CASE Restarts
    BY <1>0, <2>0, <2>5 DEF Restarts, Resting, TypeOK
  <2>6. CASE TaskSteps \/ UNCHANGED vars
    BY <2>2, <2>6, TasksMoves DEF vars
  <2> QED
    BY <2>1, <2>2, <2>3, <2>4, <2>5, <2>6 DEF Next, Around
<1> QED
  BY <1>1, <1>2, <1>3, <1>4 DEF Known

-----------------------------------------------------------------------------
(* What is cleared is gone.                                                   *)

(* The agent has no session again that it had: one is new, or they were there. *)
LEMMA HasStep ==
  ASSUME [Next]_vars
  PROVE  /\ has' \subseteq has \union (Sessions \ made) /\ made \subseteq made'
         /\ unnamed' \subseteq unnamed \/ era = "older"
<1>1. CASE TaskSteps
  <2>1. CASE UNCHANGED <<has, made>> /\ (unnamed' = unnamed \/ era = "older")
    BY <2>1
  <2>2. ASSUME NEW t \in Tasks, NEW s \in Sessions, Creates(t, s)
        PROVE  s \notin made /\ has' = has \union {s} /\ made' = made \union {s} /\ unnamed' = unnamed
    BY <2>2 DEF Creates, Fresh
  <2>3. ASSUME NEW t \in Tasks, NEW r \in Requests, NEW u \in BOOLEAN, NEW s \in Sessions,
               OlderDispatches(t, r, u, s)
        PROVE  s \notin made /\ has' = has \union {s} /\ made' = made \union {s} /\ unnamed' = unnamed
    BY <2>3 DEF OlderDispatches, Fresh
  <2>4. CASE ~\E t \in Tasks, s \in Sessions :
               \/ Creates(t, s)
               \/ \E r \in Requests, u \in BOOLEAN : OlderDispatches(t, r, u, s)
    BY <1>1, <2>1, <2>4 DEF TaskSteps, InsertsOther, Asks, Inserts, Binds, Ends, Reopens,
                            Forgets, OlderForgets, Upgrades, agentVars
  <2> QED
    BY <2>2, <2>3, <2>4
<1>2. CASE ~TaskSteps
  BY <1>2, SessionsMoves, SupervisorsMoves, ReconcilersMoves
     DEF Next, Around, Restarts, Aside, agentVars, vars
<1> QED
  BY <1>1, <1>2

LEMMA GoneStep ==
  ASSUME TypeOK, TypeOK', Known, Gone, [Next]_vars
  PROVE  Gone'
<1>0. NoSession \notin has' /\ (\A s \in made : s \in has' => s \in has)
  BY HasStep, CredentialAssumption DEF TypeOK
<1>1. deleting' \intersect has' = {}
  <2>1. CASE SessionSteps
    BY <1>0, <2>1 DEF SessionSteps, DeviceDeletes, DeviceClears, AgentLoses, CliForgets, CliEnds,
                      Known, Gone, TypeOK
  <2> QED
    BY <1>0, <2>1, TasksMoves, SupervisorsMoves, ReconcilersMoves
       DEF Next, Around, Restarts, Aside, vars, Known, Gone
<1>2. ASSUME NEW q \in Reconcilers
      PROVE  recs'[q].gone \notin has'
  <2>0. ASSUME recs'[q].gone \in {recs[q].gone, NoSession}
        PROVE  recs'[q].gone \notin has'
    BY <1>0, <2>0 DEF Known, Gone
  <2>1. ASSUME NEW r \in Reconcilers, Reconciles(r)
        PROVE  recs'[q].gone \notin has'
    <3>1. CASE Lists(r) \/ Clears(r)
      BY <2>0, <3>1 DEF Lists, Clears, GivesUpAsking, Asking, TypeOK, Recs
    <3>2. ASSUME NEW s \in Sessions, Answers(r, s)
          PROVE  recs'[q].gone \notin has'
      BY <1>0, <2>0, <3>2 DEF Answers, Missing, TypeOK, Gone, agentVars
    <3> QED
      BY <2>1, <3>1, <3>2 DEF Reconciles
  <2>2. ASSUME Supervises \/ ServiceReady \/ ServiceEnds \/ OwnerStarts
        PROVE  recs'[q].gone = recs[q].gone
    BY <2>2 DEF Supervises, Begins, Mints, Withheld, Saves, Launches, SeesUp, GivesUp, Fails,
         Decides, DecidesAgain, Stops, Adopts, AttachEnds, ServiceReady, ServiceEnds, OwnerStarts,
         Attaches, TypeOK, Recs
  <2>3. ASSUME SessionSteps
        PROVE  recs'[q].gone = recs[q].gone
    BY <2>3 DEF SessionSteps, DeviceDeletes, DeviceClears, AgentLoses, CliForgets, CliEnds,
                TypeOK, Recs
  <2>4. CASE Restarts
    BY <2>0, <2>4 DEF Restarts, Resting, TypeOK
  <2>5. CASE TaskSteps \/ UNCHANGED vars
    BY <2>0, <2>5, TasksMoves DEF vars
  <2> QED
    BY <2>0, <2>1, <2>2, <2>3, <2>4, <2>5 DEF Next, Around
<1> QED
  BY <1>1, <1>2 DEF Gone

-----------------------------------------------------------------------------
(* What withholds.                                                            *)

(* A row changes when its task is new, and when its dispatch binds a session.  *)
LEMMA RowsMove ==
  ASSUME TypeOK, Tree, [Next]_vars
  PROVE  \A v \in live :
           \/ row'[v] = row[v]
           \/ job[v].pc = "created" /\ row' = [row EXCEPT ![v].asid = job[v].asid]
<1> SUFFICES ASSUME NEW v \in live
             PROVE  \/ row'[v] = row[v]
                    \/ job[v].pc = "created" /\ row' = [row EXCEPT ![v].asid = job[v].asid]
  OBVIOUS
<1>0. v \in Named /\ v \in Tasks
  BY DEF Tree, Filed, Named, TypeOK
<1>1. ASSUME NEW t \in Tasks, NEW x, t \notin Named, row' = [row EXCEPT ![t] = x]
      PROVE  row'[v] = row[v]
  BY <1>0, <1>1 DEF TypeOK
<1>2. ASSUME NEW t \in Tasks, NEW r \in Requests, NEW u \in BOOLEAN,
             \/ InsertsOther(t, r, u) \/ Asks(t, r)
             \/ \E s \in Sessions : OlderDispatches(t, r, u, s)
      PROVE  row'[v] = row[v]
  BY <1>1, <1>2 DEF InsertsOther, Asks, OlderDispatches, Names, Fresh
<1>3. ASSUME NEW t \in Tasks, Binds(t)
      PROVE  \/ row'[v] = row[v]
             \/ job[v].pc = "created" /\ row' = [row EXCEPT ![v].asid = job[v].asid]
  BY <1>0, <1>3 DEF Binds, TypeOK
<1>4. CASE \/ \E t \in Tasks : Inserts(t) \/ Ends(t) \/ Reopens(t)
           \/ \E t \in Tasks, s \in Sessions : Creates(t, s)
           \/ \E gone \in SUBSET Tasks : Forgets(gone) \/ OlderForgets(gone)
           \/ Upgrades \/ Restarts
  BY <1>4 DEF Inserts, Ends, Reopens, Creates, Forgets, OlderForgets, Upgrades, Restarts, ledgerVars
<1>5. CASE TaskSteps
  <2>1. ASSUME NEW t \in Tasks, NEW r \in Requests, Asks(t, r)
        PROVE  row'[v] = row[v]
    BY <1>2, <2>1
  <2> QED
    BY <1>2, <1>3, <1>4, <1>5, <2>1, Zenon DEF TaskSteps
<1>6. CASE SessionSteps \/ Supervises \/ ServiceReady \/ ServiceEnds \/ OwnerStarts \/ UNCHANGED vars
  BY <1>6, SessionsMoves, SupervisorsMoves DEF Aside, ledgerVars, vars
<1>7. ASSUME NEW r \in Reconcilers, Reconciles(r)
      PROVE  row'[v] = row[v]
  BY <1>7, ReconcilersMoves DEF ledgerVars
<1> QED
  BY <1>4, <1>5, <1>6, <1>7 DEF Next, Around

(* A session whose task does not resolve stays one while the task is there.   *)
LEMMA LedgerStays ==
  ASSUME TypeOK, Tree, Clean, KinStand, NEW s \in Sessions,
         NEW t \in live, row[t].asid = s, Restricted(t), t \in live', [Next]_vars
  PROVE  row'[t].asid = s /\ s \in Ledger'
<1>1. Restricted(t)'
  BY RestrictedStays
<1>2. row'[t].asid = s
  BY RowsMove, CredentialAssumption DEF TypeOK, Clean, Rows
<1> QED
  BY <1>1, <1>2, CredentialAssumption DEF Ledger

(* After the upgrade a row goes only with its session, a task only as one that *)
(* ended, with its session kept by name.                                     *)
LEMMA RestrictionsMove ==
  ASSUME TypeOK, Gone, era = "this", [Next]_vars
  PROVE  \/ \E gone \in SUBSET Tasks : Forgets(gone)
         \/ /\ live \subseteq live'
            /\ UNCHANGED <<kept, cleared>> \/ \E s \in Sessions \ has : Clear(s)
<1>1. CASE TaskSteps
  <2>1. CASE \E gone \in SUBSET Tasks : Forgets(gone)
    BY <2>1
  <2>2. CASE ~\E gone \in SUBSET Tasks : Forgets(gone)
    <3>1. \A gone \in SUBSET Tasks : ~OlderForgets(gone)
      BY DEF OlderForgets
    <3>2. UNCHANGED <<kept, cleared>>
      BY <1>1, <2>2, <3>1, TasksMoves DEF rowVars
    <3>3. live \subseteq live'
      BY <1>1, <2>2, <3>1 DEF TaskSteps, InsertsOther, OlderDispatches, Asks, Inserts, Binds, Ends,
                              Reopens, Creates, Upgrades, ledgerVars
    <3> QED
      BY <3>2, <3>3
  <2> QED
    BY <2>1, <2>2
<1>2. CASE SessionSteps
  <2>1. ASSUME NEW s \in Sessions, DeviceClears(s)
        PROVE  UNCHANGED <<kept, cleared>> \/ (s \notin has /\ Clear(s))
    BY <2>1 DEF DeviceClears, Gone, rowVars
  <2>2. UNCHANGED <<kept, cleared>> \/ \E s \in Sessions \ has : Clear(s)
    BY <1>2, <2>1, SessionsMoves DEF CliForgets, rowVars
  <2> QED
    BY <1>2, <2>2, SessionsMoves DEF ledgerVars
<1>3. ASSUME NEW r \in Reconcilers, Reconciles(r)
      PROVE  /\ live \subseteq live'
             /\ UNCHANGED <<kept, cleared>> \/ \E s \in Sessions \ has : Clear(s)
  <2>1. ASSUME recs[r].gone # NoSession
        PROVE  recs[r].gone \in Sessions \ has
    BY <2>1 DEF Gone, TypeOK, Recs
  <2> QED
    BY <1>3, <2>1, ReconcilersMoves DEF rowVars, ledgerVars
<1>4. CASE Supervises \/ Around \/ UNCHANGED vars
  BY <1>4, SupervisorsMoves DEF Around, Restarts, Aside, ledgerVars, rowVars, vars
<1> QED
  BY <1>1, <1>2, <1>3, <1>4 DEF Next

(* What withholds the credential goes on doing so while the agent has it.     *)
LEMMA BlockStays ==
  ASSUME TypeOK, Tree, Clean, KinStand, Gone, era = "this", [Next]_vars,
         NEW s \in Block, s \in has
  PROVE  s \in Block'
<1>1. ASSUME NEW gone \in SUBSET Tasks, Forgets(gone)
      PROVE  s \in Block'
  BY <1>1 DEF Forgets, Retained, Block
<1>2. CASE /\ live \subseteq live'
           /\ UNCHANGED <<kept, cleared>> \/ \E x \in Sessions \ has : Clear(x)
  <2>1. (s \in kept => s \in kept') /\ (s \notin cleared => s \notin cleared')
    BY <1>2 DEF Clear
  <2>2. CASE s \in kept
    BY <2>1, <2>2 DEF Block
  <2>3. CASE s \in Ledger \ cleared
    <3>1. PICK t \in live : row[t].asid = s /\ Restricted(t)
      BY <2>3 DEF Ledger
    <3>2. s \in Sessions
      BY BlockTypes
    <3>3. s \in Ledger'
      BY <1>2, <3>1, <3>2, LedgerStays
    <3> QED
      BY <2>1, <2>3, <3>3 DEF Block
  <2> QED
    BY <2>2, <2>3 DEF Block
<1> QED
  BY <1>1, <1>2, RestrictionsMove

(* A tainted task does not resolve, so its session is one of these.           *)
LEMMA TaintedWithholds ==
  ASSUME TypeOK, Tree, Edges, Runs, NEW t \in live, t \in tainted, row[t].asid # NoSession
  PROVE  row[t].asid \in Ledger
<1>1. Depth \in 0..(Depth + 1)
  BY CredentialAssumption
<1>2. Restricted(t)
  BY <1>1, LocalIsClean DEF Restricted
<1> QED
  BY <1>2 DEF Ledger

-----------------------------------------------------------------------------
(* Before the upgrade and after it.                                           *)

LEMMA OlderStep ==
  ASSUME TypeOK, Tree, Older, [Next]_vars
  PROVE  Older'
<1> SUFFICES ASSUME era' = "older" PROVE Older'
  BY DEF Older
<1>0. era = "older"
  BY SessionsMoves, SupervisorsMoves, ReconcilersMoves
     DEF Next, TaskSteps, InsertsOther, OlderDispatches, Asks, Inserts, Binds, Ends, Reopens,
         Creates, Forgets, OlderForgets, Upgrades, Around, Restarts, Aside, vars
<1>1. /\ tokens = {} /\ kept = {} /\ cleared = {} /\ deleting = {}
      /\ starter.pc = "rest" /\ \A r \in Reconcilers : recs[r] = Resting
      /\ \A t \in Tasks : job[t].pc \in {"new", "over"}
      /\ \A s \in foreign : \E t \in live : t \in tainted /\ row[t].asid = s
  BY <1>0 DEF Older
<1>a. live \subseteq Named /\ tainted \subseteq Named
  BY DEF Tree, Filed, Named
<1>2. CASE TaskSteps
  <2>1. UNCHANGED <<tokens, starter, recs, deleting, kept, cleared>>
    BY <1>0, <1>2, TasksMoves DEF serviceVars, rowVars, Forgets, OlderForgets
  <2>2. ASSUME NEW t \in Tasks, NEW r \in Requests, NEW u \in BOOLEAN, InsertsOther(t, r, u)
        PROVE  /\ \A x \in Tasks : job'[x].pc \in {"new", "over"}
               /\ \A s \in foreign' : \E x \in live' : x \in tainted' /\ row'[x].asid = s
    <3>1. t \notin live /\ tainted \subseteq tainted' /\ foreign' = foreign
      BY <1>a, <2>2 DEF InsertsOther, Names, Fresh, agentVars
    <3> QED
      BY <1>1, <2>2, <3>1 DEF InsertsOther, Over, TypeOK
  <2>3. ASSUME NEW t \in Tasks, NEW r \in Requests, NEW u \in BOOLEAN, NEW s \in Sessions,
               OlderDispatches(t, r, u, s)
        PROVE  /\ \A x \in Tasks : job'[x].pc \in {"new", "over"}
               /\ \A z \in foreign' : \E x \in live' : x \in tainted' /\ row'[x].asid = z
    <3>1. t \notin live /\ tainted \subseteq tainted' /\ (Taints(r, u) => t \in tainted')
      BY <1>a, <2>3 DEF OlderDispatches, Names, Fresh
    <3>2. row'[t].asid = s /\ (\A x \in live : row'[x] = row[x]) /\ live' = live \union {t}
      BY <2>3, <3>1 DEF OlderDispatches, RowOf, TypeOK
    <3>3. foreign' = IF Taints(r, u) THEN foreign \union {s} ELSE foreign
      BY <2>3 DEF OlderDispatches
    <3>4. \A x \in Tasks : job'[x].pc \in {"new", "over"}
      BY <1>1, <2>3 DEF OlderDispatches, Over, TypeOK
    <3> QED
      BY <1>1, <3>1, <3>2, <3>3, <3>4
  <2>4. ASSUME NEW gone \in SUBSET Tasks, OlderForgets(gone)
        PROVE  /\ \A x \in Tasks : job'[x].pc \in {"new", "over"}
               /\ \A s \in foreign' : \E x \in live' : x \in tainted' /\ row'[x].asid = s
    BY <1>1, <2>4 DEF OlderForgets
  <2>5. ASSUME NEW t \in Tasks, Ends(t) \/ Reopens(t)
        PROVE  UNCHANGED <<live, row, job, tainted, foreign>>
    BY <2>5 DEF Ends, Reopens, agentVars
  <2>6. /\ \A t \in Tasks : ~Inserts(t) /\ ~Binds(t) /\ \A s \in Sessions : ~Creates(t, s)
        /\ \A t \in Tasks, r \in Requests : ~Asks(t, r)
        /\ \A gone \in SUBSET Tasks : ~Forgets(gone)
        /\ ~Upgrades
    BY <1>0, <1>1 DEF Inserts, Binds, Creates, Asks, Forgets, Upgrades
  <2>7. /\ \A x \in Tasks : job'[x].pc \in {"new", "over"}
        /\ \A s \in foreign' : \E x \in live' : x \in tainted' /\ row'[x].asid = s
    BY <1>1, <1>2, <2>2, <2>3, <2>4, <2>5, <2>6 DEF TaskSteps
  <2> QED
    BY <1>1, <2>1, <2>7 DEF Older
<1>3. CASE SessionSteps
  <2>1. \E s \in Sessions : AgentLoses(s)
    BY <1>0, <1>1, <1>3
       DEF SessionSteps, DeviceDeletes, DeviceClears, CliForgets, CliEnds, Asked, Resting, Reconcilers
  <2> QED
    BY <1>1, <2>1 DEF AgentLoses, ledgerVars, rowVars, serviceVars, Older
<1>4. ASSUME NEW r \in Reconcilers
      PROVE  ~Reconciles(r)
  <2>1. recs[r].pc = "rest" /\ recs[r].gone = NoSession
    BY <1>1 DEF Resting
  <2> QED
    BY <2>1 DEF Reconciles, Lists, Clears, Answers
<1>5. CASE Supervises \/ Around
  <2>1. ServiceReady
    BY <1>0, <1>1, <1>5
       DEF Supervises, Begins, Mints, Withheld, Saves, Launches, SeesUp, GivesUp, Fails, Decides,
           DecidesAgain, Stops, Adopts, AttachEnds, At, Around, ServiceEnds, OwnerStarts, Restarts
  <2> QED
    BY <1>1, <2>1 DEF ServiceReady, Aside, ledgerVars, rowVars, agentVars, Older
<1>6. CASE UNCHANGED vars
  BY <1>1, <1>6 DEF vars, ledgerVars, rowVars, agentVars, serviceVars, Older
<1> QED
  BY <1>2, <1>3, <1>4, <1>5, <1>6 DEF Next

(* No work of this era is another computer's.                                 *)
LEMMA NothingForeign ==
  ASSUME Clean, era = "this", [Next]_vars
  PROVE  foreign' = foreign /\ unnamed' \subseteq unnamed /\ era' = "this"
<1>1. CASE TaskSteps
  BY <1>1 DEF TaskSteps, InsertsOther, OlderDispatches, Asks, Inserts, Binds, Ends, Reopens,
              Creates, Forgets, OlderForgets, Upgrades, agentVars, Clean
<1>2. CASE ~TaskSteps
  BY <1>2, SessionsMoves, SupervisorsMoves, ReconcilersMoves
     DEF Next, Around, Restarts, Aside, agentVars, vars
<1> QED
  BY <1>1, <1>2

LEMMA WithholdsStep ==
  ASSUME TypeOK, Tree, Edges, Runs, Clean, Known, Gone, Older, Withholds, KinStand, [Next]_vars
  PROVE  Withholds'
<1>0. \A s \in made : s \in has' => s \in has
  BY HasStep
<1>1. ASSUME era' = "this"
      PROVE  foreign' \intersect has' \subseteq Block'
  <2>1. CASE era = "this"
    BY <1>0, <2>1, NothingForeign, BlockStays DEF Withholds, TypeOK
  <2>2. CASE era # "this"
    <3>1. era = "older"
      BY <2>2 DEF TypeOK
    <3>2. Upgrades
      BY <1>1, <3>1, SessionsMoves, SupervisorsMoves, ReconcilersMoves
         DEF Next, TaskSteps, InsertsOther, OlderDispatches, Asks, Inserts, Binds, Ends, Reopens,
             Creates, Forgets, OlderForgets, Around, Restarts, Aside, vars
    <3>3. foreign \subseteq Ledger /\ cleared = {} /\ kept = {}
      BY <3>1, TaintedWithholds, CredentialAssumption DEF Older, TypeOK
    <3>4. Block' = Block
      BY <3>2 DEF Upgrades, Block, Ledger, Restricted, Local, Chain, ledgerVars, rowVars
    <3> QED
      BY <3>2, <3>3, <3>4 DEF Upgrades, agentVars, Block
  <2> QED
    BY <2>1, <2>2
<1>2. ASSUME unnamed' \intersect has' # {}
      PROVE  unrecorded'
  <2>1. CASE \E gone \in SUBSET Tasks : OlderForgets(gone)
    <3>1. PICK gone \in SUBSET Tasks : OlderForgets(gone)
      BY <2>1
    <3>2. \A s \in foreign : \E t \in live : t \in tainted /\ row[t].asid = s
      BY <3>1 DEF OlderForgets, Older
    <3>3. foreign # {} => Ledger # {}
      BY <3>2, TaintedWithholds, CredentialAssumption DEF TypeOK
    <3> QED
      BY <1>2, <3>1, <3>3 DEF OlderForgets, Withholds
  <2>2. CASE ~\E gone \in SUBSET Tasks : OlderForgets(gone)
    <3>1. unnamed' \subseteq unnamed
      BY <2>2, SessionsMoves, SupervisorsMoves, ReconcilersMoves
         DEF Next, TaskSteps, InsertsOther, OlderDispatches, Asks, Inserts, Binds, Ends, Reopens,
             Creates, Forgets, Upgrades, Around, Restarts, Aside, vars, agentVars
    <3>2. unnamed \intersect has # {}
      BY <1>0, <1>2, <3>1 DEF TypeOK
    <3>3. unrecorded' = unrecorded \/ CliForgets
      BY <2>2, TasksMoves, SessionsMoves, SupervisorsMoves, ReconcilersMoves
         DEF Next, Around, Restarts, Aside, vars, rowVars, Forgets, DeviceClears, Clear
    <3>4. ~CliForgets
      BY <1>2 DEF CliForgets
    <3> QED
      BY <3>2, <3>3, <3>4 DEF Withholds
  <2> QED
    BY <2>1, <2>2
<1> QED
  BY <1>1, <1>2 DEF Withholds

LEMMA BesideStep ==
  ASSUME TypeOK, Clean, Older, Older', Withholds, NoCredentialBeside, [Next]_vars
  PROVE  NoCredentialBeside'
<1> SUFFICES ASSUME tokens' # {}
             PROVE  (foreign' \union unnamed') \intersect has' = {}
  BY DEF NoCredentialBeside
<1>0. \A s \in made : s \in has' => s \in has
  BY HasStep
<1>1. ASSUME tokens' \subseteq tokens \/ \E k \in Tokens : Mints(k)
      PROVE  era = "this"
  BY <1>1 DEF Mints, Older, TypeOK, At
<1>2. tokens' \subseteq tokens \/ \E k \in Tokens : Mints(k)
  BY TasksMoves, SessionsMoves, ReconcilersMoves
     DEF Next, Supervises, Begins, Withheld, Saves, Launches, SeesUp, GivesUp, Fails, Decides,
         DecidesAgain, Stops, Adopts, AttachEnds, Around, ServiceReady, ServiceEnds, OwnerStarts,
         Restarts, serviceVars, vars
<1>3. (foreign' \union unnamed') \intersect has' \subseteq (foreign \union unnamed) \intersect has
  BY <1>0, <1>1, <1>2, NothingForeign DEF TypeOK
<1>4. ASSUME NEW k \in Tokens, Mints(k)
      PROVE  (foreign \union unnamed) \intersect has = {}
  BY <1>1, <1>4 DEF Mints, MayMint, Withholds
<1> QED
  BY <1>2, <1>3, <1>4 DEF NoCredentialBeside

-----------------------------------------------------------------------------
LEMMA Start ==
  ASSUME Init
  PROVE  IInv
<1>1. TypeOK
  BY DEF Init, TypeOK, Rows, Jobs, Principals, Recs, Resting, Off, Services, Idle, Starters
<1>2. Tree /\ Edges /\ Clean /\ Known /\ Gone /\ Withholds /\ NoCredentialBeside
  BY CredentialAssumption
     DEF Init, Tree, Edges, Clean, Known, Gone, Withholds, NoCredentialBeside, Named, Resting
<1>3. Older
  BY DEF Init, Older, Idle
<1>4. Runs
  <2> SUFFICES ASSUME NEW n \in 1..(Depth + 1), NEW p \in [1..n -> live] PROVE FALSE
    BY DEF Runs
  <2>1. 1 \in 1..n
    BY CredentialAssumption
  <2> QED
    BY <2>1 DEF Init
<1> QED
  BY <1>1, <1>2, <1>3, <1>4 DEF IInv

LEMMA Step ==
  ASSUME IInv, [Next]_vars
  PROVE  IInv'
<1>1. TypeOK'
  BY TypesStep DEF IInv
<1>2. KinStand /\ Tree' /\ Edges' /\ Clean'
  BY LedgerStep DEF IInv
<1>3. Runs'
  BY <1>1, <1>2, RunsStep DEF IInv
<1>4. Known' /\ Gone'
  BY <1>1, KnownStep, GoneStep DEF IInv
<1>5. Older'
  BY OlderStep DEF IInv
<1>6. Withholds'
  BY <1>2, WithholdsStep DEF IInv
<1>7. NoCredentialBeside'
  BY <1>5, BesideStep DEF IInv
<1> QED
  BY <1>1, <1>2, <1>3, <1>4, <1>5, <1>6, <1>7 DEF IInv

LEMMA Inductive == Spec => []IInv
BY Start, Step, PTL DEF Spec

(* The state keeps its types: the rows kept by name and the tombstones stay    *)
(* apart, and the agent has only sessions it made.                           *)
THEOREM CredentialTypes == Spec => []TypeOK
BY Inductive, PTL DEF IInv

(* No runtime credential is live while a session that ran another computer's  *)
(* work, or nobody's, can still be resumed (RuntimeBlock, store_sqlite.rs).  *)
THEOREM NeverBeside == Spec => []NoCredentialBeside
BY Inductive, PTL DEF IInv

(* A session stops withholding the credential only when the agent no longer   *)
(* has it: not when its task ends, is deleted or purged, and not when the    *)
(* service did not answer for it.                                            *)
THEOREM HeldTillGone == Spec => HeldUntilGone
<1>1. IInv /\ [Next]_vars
        => [era = "this" => \A s \in Sessions : s \in Block /\ ~(s \in Block)' => s \notin has]_vars
  <2> SUFFICES ASSUME IInv, [Next]_vars, era = "this", NEW s \in Sessions, s \in Block, s \in has
               PROVE  s \in Block'
    OBVIOUS
  <2> QED
    BY LedgerStep, BlockStays DEF IInv
<1> QED
  BY <1>1, Inductive, PTL DEF Spec, HeldUntilGone
=============================================================================
