-------------------------- MODULE TaskNoticesProofs --------------------------
(***************************************************************************)
(* TaskNotices proved for every set of child states and every bound.       *)
(*                                                                         *)
(* What is told is a version that was read some time ago, so neither       *)
(* safety property is inductive. The strengthening says where each reader  *)
(* stands: a version read is in the past, and if it is still the child's   *)
(* it is still in the child's state; what the pass is about to record was  *)
(* said or given up, what the parent's call recorded or is about to stands *)
(* in the state that call is going to answer; and, as long as nothing went *)
(* wrong, the pass is alone and every version it said is behind told_seq.  *)
(***************************************************************************)
EXTENDS TaskNotices, TLAPS

Jobs == {"delegate", "pass", "call", "other"}
Counters == {"rest", "notify", "judge", "send", "check", "mark", "reply"}

(* The ghosts and the counters, which TypeOK says little of, and the program   *)
(* counters each of the four can have.                                         *)
GhostsOK ==
  /\ spent \in [{"calls", "faults", "crowds", "restarts"} -> Nat]
  /\ said \subseteq [state : ChildStates, seq : 1..MaxSeq]
  /\ jobs["delegate"].pc \in {"rest", "notify"}
  /\ jobs["pass"].pc \in {"rest", "judge", "send", "mark"}
  /\ jobs["call"].pc \in {"rest", "check", "mark", "reply"}
  /\ jobs["other"].pc \in {"rest", "check", "mark"}

(* A version read is a past one, and a version has one state.                  *)
ReadsArePast ==
  /\ child.seq = 1 => child.state = "working"
  /\ answer.seq <= child.seq
  /\ \A a \in Jobs :
       /\ jobs[a].read.seq <= child.seq
       /\ jobs[a].read.seq = child.seq => jobs[a].read.state = child.state

(* told_seq is a past version, of a row that is there.                         *)
ToldIsPast == told <= child.seq /\ (~noticed => told = 0)

(* What the pass is about to record was said, or given up; what the parent's   *)
(* call is about to, or did, stands in the state it is going to answer.        *)
MarksAreBacked ==
  /\ At("pass", "mark") => jobs["pass"].read.seq \in dropped \/ Said(jobs["pass"].read)
  /\ At("call", "check") \/ At("call", "mark") => jobs["call"].read.state = answer.state
  /\ At("call", "reply") =>
       jobs["call"].read = FirstVersion \/ jobs["call"].read.state = answer.state

(* As long as nothing went wrong, the pass is alone, and ahead of what it said. *)
PassIsAhead ==
  Untroubled =>
    /\ At("call", "rest") /\ At("other", "rest")
    /\ ~At("pass", "rest") => noticed
    /\ At("pass", "rest") => \A r \in said : r.seq <= told
    /\ At("pass", "judge") \/ At("pass", "send") =>
         told < jobs["pass"].read.seq /\ \A r \in said : r.seq <= told
    /\ At("pass", "mark") => \A r \in said : r.seq <= jobs["pass"].read.seq

IInv ==
  /\ TypeOK /\ GhostsOK /\ ReadsArePast /\ ToldIsPast
  /\ MarksAreBacked /\ ToldStateWasSaid /\ PassIsAhead

Calls ==
  \/ WaitAnswers \/ CancelAnswers \/ OtherWaits
  \/ Call("call") \/ Call("other") \/ CallReplies \/ CallBreaks

Others ==
  \/ \E s \in ChildStates : ChildMoves(s)
  \/ ChildAges
  \/ ParentEnds \/ ParentReopens \/ UserTurn \/ TurnEnds \/ Vanish
  \/ FollowerSees \/ Crowd

-----------------------------------------------------------------------------
(* What a bounded event leaves of the counters.                               *)
LEMMA SpendCounts ==
  ASSUME GhostsOK, NEW what \in {"calls", "faults", "crowds", "restarts"}, NEW max, Spend(what, max)
  PROVE  /\ spent' \in [{"calls", "faults", "crowds", "restarts"} -> Nat]
         /\ spent'[what] # 0
         /\ Untroubled' => Untroubled
BY DEF GhostsOK, Spend, Untroubled

(* A step of a program counter leaves the three others.                       *)
LEMMA GoMoves ==
  ASSUME TypeOK, NEW a \in Jobs, NEW read \in Version,
         NEW pc \in Counters, Go(a, pc, read)
  PROVE  /\ jobs' \in [Jobs -> [pc : Counters, read : Version]]
         /\ jobs'[a].pc = pc /\ jobs'[a].read = read
         /\ \A b \in Jobs : b # a => jobs'[b] = jobs[b]
BY DEF TypeOK, Go, Jobs, Counters

(* A step of the pass leaves the two calls.                                   *)
LEMMA PassGoes ==
  ASSUME TypeOK, NEW pc \in {"rest", "judge", "send", "mark"}, NEW read \in Version,
         Go("pass", pc, read)
  PROVE  /\ jobs'["pass"].pc = pc /\ jobs'["pass"].read = read
         /\ jobs'["call"] = jobs["call"] /\ jobs'["other"] = jobs["other"]
<1>1. pc \in Counters
  BY DEF Counters
<1> QED
  BY <1>1, GoMoves DEF Jobs

(* A step of the parent's call leaves the pass.                               *)
LEMMA CallGoes ==
  ASSUME TypeOK, NEW pc \in {"rest", "check", "mark", "reply"}, NEW read \in Version,
         Go("call", pc, read)
  PROVE  /\ jobs'["call"].pc = pc /\ jobs'["call"].read = read
         /\ jobs'["pass"] = jobs["pass"]
<1>1. pc \in Counters
  BY DEF Counters
<1> QED
  BY <1>1, GoMoves DEF Jobs

(* The first version is one.                                                  *)
LEMMA FirstIsVersion == FirstVersion \in Version
BY NoticesAssumption DEF FirstVersion, Version

(* A version keeps its state and number without its age.                      *)
LEMMA StandingIsVersion ==
  ASSUME NEW v \in Version
  PROVE  Standing(v) \in Version /\ Standing(v).seq = v.seq /\ Standing(v).state = v.state
BY DEF Standing, Version

-----------------------------------------------------------------------------
(* What others do: the child only gets newer, and nothing is read, said or     *)
(* recorded.                                                                   *)
LEMMA OthersFacts ==
  ASSUME IInv, Others
  PROVE  /\ child' \in Version /\ child.seq <= child'.seq
         /\ child'.seq = child.seq => child'.state = child.state
         /\ sess' \in [status : {"idle", "busy", "gone"}, shown : BOOLEAN, unseen : BOOLEAN]
         /\ parent' \in {"open", "ended"}
         /\ spent' \in [{"calls", "faults", "crowds", "restarts"} -> Nat]
         /\ Untroubled' => Untroubled
         /\ Aside
<1> USE DEF IInv, TypeOK
<1>1. ASSUME NEW s \in ChildStates, ChildMoves(s)
      PROVE  /\ child' \in Version /\ child.seq < child'.seq
             /\ Aside /\ UNCHANGED <<parent, sess, spent>>
  BY <1>1, NoticesAssumption DEF ChildMoves, Version
<1>2. ASSUME ChildAges
      PROVE  /\ child' \in Version /\ child'.seq = child.seq /\ child'.state = child.state
             /\ Aside /\ UNCHANGED <<parent, sess, spent>>
  BY <1>2, NoticesAssumption DEF ChildAges, Version
<1>3. CASE \E s \in ChildStates : ChildMoves(s)
  BY <1>1, <1>3 DEF Untroubled, GhostsOK, Version
<1>4. CASE ChildAges
  BY <1>2, <1>4 DEF Untroubled, GhostsOK, Version
<1>5. CASE ParentEnds \/ ParentReopens
  BY <1>5 DEF ParentEnds, ParentReopens, Untroubled, GhostsOK, Version
<1>6. CASE UserTurn \/ TurnEnds \/ Vanish \/ FollowerSees
  <2>1. sess' \in [status : {"idle", "busy", "gone"}, shown : BOOLEAN, unseen : BOOLEAN]
    BY <1>6 DEF UserTurn, TurnEnds, Vanish, FollowerSees, Prompted
  <2> QED
    BY <1>6, <2>1 DEF UserTurn, TurnEnds, Vanish, FollowerSees, Untroubled, GhostsOK, Version
<1>7. CASE Crowd
  <2>1. /\ spent' \in [{"calls", "faults", "crowds", "restarts"} -> Nat]
        /\ Untroubled' => Untroubled
    BY <1>7, SpendCounts DEF Crowd
  <2>2. sess' \in [status : {"idle", "busy", "gone"}, shown : BOOLEAN, unseen : BOOLEAN]
    BY <1>7 DEF Crowd
  <2> QED
    BY <1>7, <2>1, <2>2 DEF Crowd, Version
<1> QED
  BY <1>3, <1>4, <1>5, <1>6, <1>7 DEF Others

(* What a pass does: the child, its row and the calls are left alone.          *)
LEMMA PassFacts ==
  ASSUME IInv, Pass
  PROVE  /\ UNCHANGED <<child, noticed, parent, answer, unheard>>
         /\ \E pc \in {"rest", "judge", "send", "mark"}, read \in {FirstVersion, child, jobs["pass"].read} :
              Go("pass", pc, read)
         /\ sess' = sess \/ sess' = Prompted
         /\ said' = said \/ Says(jobs["pass"].read)
         /\ dropped' = dropped \/ dropped' = dropped \union {jobs["pass"].read.seq}
         /\ told' = told \/ told' = jobs["pass"].read.seq
         /\ noticed' \/ told' = told
         /\ spent' \in [{"calls", "faults", "crowds", "restarts"} -> Nat]
         /\ Untroubled' => Untroubled
<1>0. GhostsOK
  BY DEF IInv
<1>1. CASE PassLists
  BY <1>0, <1>1 DEF PassLists, GhostsOK, Untroubled
<1>2. CASE PassJudges
  <2>1. spent' = spent \/ Spend("faults", MaxFaults)
    BY <1>2 DEF PassJudges
  <2>2. /\ spent' \in [{"calls", "faults", "crowds", "restarts"} -> Nat]
        /\ Untroubled' => Untroubled
    BY <1>0, <2>1, SpendCounts DEF GhostsOK, Untroubled
  <2> QED
    BY <1>2, <2>2 DEF PassJudges, Rest
<1>3. CASE PassSends
  BY <1>0, <1>3 DEF PassSends, GhostsOK, Untroubled
<1>4. CASE PassFailsToSend
  <2>1. spent' = spent \/ Spend("faults", MaxFaults)
    BY <1>4 DEF PassFailsToSend
  <2>2. /\ spent' \in [{"calls", "faults", "crowds", "restarts"} -> Nat]
        /\ Untroubled' => Untroubled
    BY <1>0, <2>1, SpendCounts DEF GhostsOK, Untroubled
  <2> QED
    BY <1>4, <2>2 DEF PassFailsToSend, Rest
<1>5. CASE Mark("pass")
  BY <1>0, <1>5 DEF Mark, Recorded, Rest, GhostsOK, Untroubled
<1>6. CASE MarkFails("pass")
  <2>1. /\ spent' \in [{"calls", "faults", "crowds", "restarts"} -> Nat]
        /\ Untroubled' => Untroubled
    BY <1>0, <1>6, SpendCounts DEF MarkFails
  <2> QED
    BY <1>6, <2>1 DEF MarkFails, Recorded, Rest
<1> QED
  BY <1>1, <1>2, <1>3, <1>4, <1>5, <1>6 DEF Pass

(* What a call does: only a cancel moves the child, only the reply says        *)
(* anything, and what it reads is the child as it stands, or what it read.     *)
LEMMA CallsFacts ==
  ASSUME IInv, Calls
  PROVE  /\ UNCHANGED <<noticed, parent, sess, dropped>>
         /\ child' \in Version /\ (child' = child \/ child'.seq = child.seq + 1)
         /\ \E a \in {"call", "other"}, pc \in {"rest", "check", "mark", "reply"}, read \in Version :
              /\ Go(a, pc, read)
              /\ a = "other" => pc # "reply"
              /\ \/ read \in {FirstVersion, child', jobs[a].read}
                 \/ child' = child /\ read = Standing(child)
         /\ answer' \in {answer, FirstVersion, Standing(child), child'}
         /\ said' = said \/ Says(answer)
         /\ told' = told \/ \E a \in {"call", "other"} : told' = jobs[a].read.seq
         /\ noticed' \/ told' = told
         /\ \/ unheard' = unheard
            \/ \E a \in {"call", "other"} : unheard' = unheard \union {jobs[a].read.seq}
         /\ spent' \in [{"calls", "faults", "crowds", "restarts"} -> Nat]
         /\ Untroubled' => Untroubled
<1>0. /\ TypeOK /\ GhostsOK /\ FirstVersion \in Version /\ child \in Version
      /\ Standing(child) \in Version /\ \A a \in Jobs : jobs[a].read \in Version
  BY FirstIsVersion, StandingIsVersion DEF IInv, TypeOK, Jobs
<1>1. ASSUME spent' = spent \/ Spend("calls", MaxCalls) \/ Spend("faults", MaxFaults)
      PROVE  /\ spent' \in [{"calls", "faults", "crowds", "restarts"} -> Nat]
             /\ Untroubled' => Untroubled
  BY <1>0, <1>1, SpendCounts DEF GhostsOK, Untroubled
<1>2. CASE WaitAnswers
  BY <1>0, <1>1, <1>2 DEF WaitAnswers
<1>3. CASE OtherWaits
  BY <1>0, <1>1, <1>3 DEF OtherWaits
<1>4. CASE CancelAnswers
  <2>1. child' \in Version /\ child'.seq = child.seq + 1
    BY <1>0, <1>4, NoticesAssumption DEF CancelAnswers, Version
  <2> HIDE DEF Version
  <2> QED
    BY <1>0, <1>1, <1>4, <2>1 DEF CancelAnswers
<1>5. ASSUME NEW a \in {"call", "other"}, CallChecks(a)
      PROVE  /\ UNCHANGED <<child, noticed, told, parent, sess, said, dropped, answer, unheard>>
             /\ \E pc \in {"rest", "mark", "reply"}, read \in {FirstVersion, Standing(child)} :
                  Go(a, pc, read) /\ (a = "other" => pc # "reply")
             /\ spent' = spent \/ Spend("faults", MaxFaults)
  BY <1>5 DEF CallChecks, Recorded, Rest
<1>6. ASSUME NEW a \in {"call", "other"}, Mark(a) \/ MarkFails(a)
      PROVE  /\ UNCHANGED <<child, noticed, parent, sess, said, dropped, answer>>
             /\ \E pc \in {"rest", "reply"}, read \in {FirstVersion, jobs[a].read} :
                  Go(a, pc, read) /\ (a = "other" => pc # "reply")
             /\ told' = told \/ told' = jobs[a].read.seq
             /\ noticed' \/ told' = told
             /\ unheard' = unheard \/ unheard' = unheard \union {jobs[a].read.seq}
             /\ spent' = spent \/ Spend("faults", MaxFaults)
  BY <1>6 DEF Mark, MarkFails, Recorded, Rest
<1>7. CASE \E a \in {"call", "other"} : CallChecks(a)
  <2>1. PICK a \in {"call", "other"} : CallChecks(a)
    BY <1>7
  <2> QED
    BY <1>0, <1>1, <1>5, <2>1
<1>8. CASE \E a \in {"call", "other"} : Mark(a) \/ MarkFails(a)
  <2>1. PICK a \in {"call", "other"} : Mark(a) \/ MarkFails(a)
    BY <1>8
  <2> QED
    BY <1>0, <1>1, <1>6, <2>1 DEF Jobs
<1>9. CASE CallReplies
  BY <1>0, <1>1, <1>9 DEF CallReplies, Rest
<1>10. CASE CallBreaks
  BY <1>0, <1>1, <1>10 DEF CallBreaks, Rest, Lost
<1> QED
  BY <1>2, <1>3, <1>4, <1>7, <1>8, <1>9, <1>10 DEF Calls, Call

(* The jobs of the next state have their types, and only one of them moved.    *)
LEMMA JobsStep ==
  ASSUME IInv, Next
  PROVE  /\ jobs' \in [Jobs -> [pc : Counters, read : Version]]
         /\ jobs'["delegate"].pc \in {"rest", "notify"}
         /\ jobs'["pass"].pc \in {"rest", "judge", "send", "mark"}
         /\ jobs'["call"].pc \in {"rest", "check", "mark", "reply"}
         /\ jobs'["other"].pc \in {"rest", "check", "mark"}
         /\ child' \in Version
<1>0. /\ TypeOK /\ GhostsOK /\ FirstVersion \in Version /\ child \in Version
      /\ \A a \in Jobs : jobs[a].read \in Version
  BY FirstIsVersion DEF IInv, TypeOK, Jobs
<1> DEFINE Has(a, pc) == CASE a = "delegate" -> pc \in {"rest", "notify"}
                           [] a = "pass" -> pc \in {"rest", "judge", "send", "mark"}
                           [] a = "call" -> pc \in {"rest", "check", "mark", "reply"}
                           [] OTHER -> pc \in {"rest", "check", "mark"}
<1>7. ASSUME NEW a \in Jobs, NEW pc \in Counters, NEW read \in Version, Go(a, pc, read), Has(a, pc)
      PROVE  /\ jobs' \in [Jobs -> [pc : Counters, read : Version]]
             /\ \A b \in Jobs : Has(b, jobs'[b].pc)
  <2>1. /\ jobs' \in [Jobs -> [pc : Counters, read : Version]] /\ jobs'[a].pc = pc
        /\ \A b \in Jobs : b # a => jobs'[b] = jobs[b]
    BY <1>0, <1>7, GoMoves
  <2>2. \A b \in Jobs : Has(b, jobs[b].pc)
    BY <1>0 DEF GhostsOK, Jobs
  <2> HIDE DEF Has
  <2> QED
    BY <1>7, <2>1, <2>2
<1>8. ASSUME \A b \in Jobs : Has(b, jobs'[b].pc)
      PROVE  /\ jobs'["delegate"].pc \in {"rest", "notify"}
             /\ jobs'["pass"].pc \in {"rest", "judge", "send", "mark"}
             /\ jobs'["call"].pc \in {"rest", "check", "mark", "reply"}
             /\ jobs'["other"].pc \in {"rest", "check", "mark"}
  BY <1>8 DEF Jobs
<1>1. CASE Notify
  <2>1. Go("delegate", "rest", FirstVersion) /\ child' = child
    BY <1>1 DEF Notify, Rest
  <2> QED
    BY <1>0, <1>7, <1>8, <2>1 DEF Jobs, Counters
<1>2. CASE Pass
  <2>1. PICK pc \in {"rest", "judge", "send", "mark"}, read \in Version : Go("pass", pc, read)
    BY <1>0, <1>2, PassFacts DEF Jobs
  <2>2. child' = child
    BY <1>2, PassFacts
  <2> QED
    BY <1>0, <1>7, <1>8, <2>1, <2>2 DEF Jobs, Counters
<1>3. CASE Calls
  <2>1. PICK a \in {"call", "other"}, pc \in {"rest", "check", "mark", "reply"}, read \in Version :
          Go(a, pc, read) /\ (a = "other" => pc # "reply")
    BY <1>3, CallsFacts
  <2>2. child' \in Version
    BY <1>3, CallsFacts
  <2>3. a \in Jobs /\ pc \in Counters /\ Has(a, pc)
    BY <2>1 DEF Jobs, Counters
  <2> HIDE DEF Has
  <2> QED
    BY <1>7, <1>8, <2>1, <2>2, <2>3
<1>5. CASE Others
  BY <1>0, <1>5, OthersFacts DEF Aside, GhostsOK, TypeOK, Jobs, Counters
<1>6. CASE Restart
  BY <1>0, <1>6 DEF Restart, Resting, TypeOK, Jobs, Counters
<1> QED
  BY <1>1, <1>2, <1>3, <1>5, <1>6 DEF Next, Calls, Others

(* The versions a job read stay past ones.                                     *)
LEMMA ReadsStep ==
  ASSUME IInv, Next
  PROVE  ReadsArePast' /\ child.seq <= child'.seq
<1> USE DEF ReadsArePast
<1>0. /\ TypeOK /\ GhostsOK /\ ReadsArePast /\ child \in Version /\ child' \in Version /\ answer \in Version
      /\ FirstVersion \in Version /\ FirstVersion.seq = 1 /\ FirstVersion.state = "working"
      /\ Standing(child).seq = child.seq /\ Standing(child).state = child.state
      /\ \A a \in Jobs : jobs[a].read \in Version
  BY JobsStep, FirstIsVersion, StandingIsVersion DEF IInv, TypeOK, Jobs, FirstVersion
<1>1. ASSUME child' = child \/ child'.seq = child.seq + 1,
             answer' \in {answer, FirstVersion, Standing(child), child'},
             \E a \in Jobs, read \in Version, pc \in Counters :
               /\ Go(a, pc, read)
               /\ \/ read \in {FirstVersion, child', jobs[a].read}
                  \/ child' = child /\ read = Standing(child)
      PROVE  ReadsArePast' /\ child.seq <= child'.seq
  <2>1. PICK a \in Jobs, read \in Version, pc \in Counters :
               /\ Go(a, pc, read)
               /\ \/ read \in {FirstVersion, child', jobs[a].read}
                  \/ child' = child /\ read = Standing(child)
    BY <1>1
  <2>2. read.seq <= child'.seq /\ (read.seq = child'.seq => read.state = child'.state)
    BY <1>0, <1>1, <2>1 DEF Version
  <2>3. jobs'[a].read = read /\ \A b \in Jobs : b # a => jobs'[b] = jobs[b]
    BY <1>0, <2>1, GoMoves
  <2>4. \A b \in Jobs : /\ jobs'[b].read.seq <= child'.seq
                        /\ jobs'[b].read.seq = child'.seq => jobs'[b].read.state = child'.state
    BY <1>0, <1>1, <2>2, <2>3 DEF Version
  <2>5. answer'.seq <= child'.seq
    BY <1>0, <1>1 DEF Version
  <2>6. child.seq <= child'.seq /\ (child'.seq = 1 => child'.state = "working")
    BY <1>0, <1>1 DEF Version
  <2> HIDE <1>0, <1>1
  <2> QED
    BY <2>4, <2>5, <2>6
<1>2. CASE Notify
  BY <1>0, <1>1, <1>2 DEF Notify, Rest, Jobs, Counters
<1>3. CASE Pass
  <2>1. PICK pc \in {"rest", "judge", "send", "mark"}, read \in {FirstVersion, child, jobs["pass"].read} :
          Go("pass", pc, read)
    BY <1>3, PassFacts
  <2>2. "pass" \in Jobs /\ pc \in Counters /\ read \in Version
    BY <1>0 DEF Jobs, Counters
  <2>3. child' = child /\ answer' = answer
    BY <1>3, PassFacts
  <2> QED
    BY <1>1, <2>1, <2>2, <2>3
<1>4. CASE Calls
  <2>1. PICK a \in {"call", "other"}, pc \in {"rest", "check", "mark", "reply"}, read \in Version :
          /\ Go(a, pc, read)
          /\ \/ read \in {FirstVersion, child', jobs[a].read}
             \/ child' = child /\ read = Standing(child)
    BY <1>4, CallsFacts
  <2>2. a \in Jobs /\ pc \in Counters
    BY DEF Jobs, Counters
  <2>3. /\ child' = child \/ child'.seq = child.seq + 1
        /\ answer' \in {answer, FirstVersion, Standing(child), child'}
    BY <1>4, CallsFacts
  <2> QED
    BY <1>1, <2>1, <2>2, <2>3
<1>6. CASE Others
  BY <1>0, <1>6, OthersFacts DEF Aside, Version, Jobs
<1>7. CASE Restart
  BY <1>0, <1>7 DEF Restart, Resting, TypeOK, Jobs, Version
<1> QED
  BY <1>2, <1>3, <1>4, <1>6, <1>7 DEF Next, Calls, Others

(* The types are kept.                                                         *)
LEMMA TypesStep ==
  ASSUME IInv, Next
  PROVE  TypeOK' /\ GhostsOK'
<1>0. TypeOK /\ GhostsOK /\ ReadsArePast /\ ToldIsPast
  BY DEF IInv
<1>1. /\ \A a \in Jobs : jobs[a].read \in Version /\ jobs[a].read.seq <= child.seq
      /\ \A a \in Jobs : jobs[a].read.seq \in 1..MaxSeq /\ jobs[a].read.seq \in 1..child'.seq
      /\ child \in Version /\ child' \in Version /\ child.seq <= child'.seq
      /\ answer \in Version /\ answer.seq <= child'.seq /\ FirstVersion \in Version
      /\ Standing(child) \in Version
  <2>1. /\ \A a \in Jobs : jobs[a].read \in Version /\ jobs[a].read.seq <= child.seq
        /\ child \in Version /\ child' \in Version /\ child.seq <= child'.seq
        /\ answer \in Version /\ answer.seq <= child.seq
    BY <1>0, JobsStep, ReadsStep DEF TypeOK, Jobs, ReadsArePast
  <2>2. \A a \in Jobs : jobs[a].read.seq \in 1..MaxSeq /\ jobs[a].read.seq \in 1..child'.seq
    BY <2>1 DEF Version
  <2>3. answer.seq <= child'.seq
    BY <2>1 DEF Version
  <2> QED
    BY <2>1, <2>2, <2>3, FirstIsVersion, StandingIsVersion
<1>2. noticed' \in BOOLEAN /\ told' \in 0..MaxSeq
  <2>1. CASE Notify \/ Restart
    BY <1>0, <2>1 DEF Notify, Restart, TypeOK
  <2>2. CASE Pass
    BY <1>0, <1>1, <2>2, PassFacts DEF TypeOK, Jobs
  <2>3. CASE Calls
    BY <1>0, <1>1, <2>3, CallsFacts DEF TypeOK, Jobs
  <2>4. CASE Others
    BY <1>0, <2>4, OthersFacts DEF Aside, TypeOK
  <2> QED
    BY <2>1, <2>2, <2>3, <2>4 DEF Next, Calls, Others
<1>3. /\ said' \subseteq [state : ChildStates, seq : 1..MaxSeq]
      /\ \A r \in said' : r.seq <= child'.seq
  <2>1. ASSUME NEW v \in Version, v.seq <= child'.seq, said' = said \/ Says(v)
        PROVE  /\ said' \subseteq [state : ChildStates, seq : 1..MaxSeq]
               /\ \A r \in said' : r.seq <= child'.seq
    BY <1>0, <1>1, <2>1 DEF Says, GhostsOK, TypeOK, Version
  <2>2. CASE Pass
    BY <1>1, <2>1, <2>2, PassFacts DEF Jobs, Version
  <2>3. CASE Calls
    BY <1>1, <2>1, <2>3, CallsFacts
  <2>4. said' = said \/ Pass \/ Calls
    BY OthersFacts DEF Next, Calls, Others, Aside, Notify, Restart
  <2> QED
    BY <1>1, <2>1, <2>2, <2>3, <2>4
<1>4. dropped' \union unheard' \subseteq 1..child'.seq
  <2>1. dropped \union unheard \subseteq 1..child'.seq
    BY <1>0, <1>1 DEF TypeOK, Version
  <2>2. CASE Pass
    BY <1>1, <2>1, <2>2, PassFacts DEF Jobs
  <2>3. CASE Calls
    BY <1>1, <2>1, <2>3, CallsFacts DEF Jobs
  <2>4. CASE Others
    BY <2>1, <2>4, OthersFacts DEF Aside
  <2>5. CASE Notify \/ Restart
    BY <1>1, <2>1, <2>5 DEF Notify, Restart, Lost, Jobs
  <2> QED
    BY <2>2, <2>3, <2>4, <2>5 DEF Next, Calls, Others
<1>5. /\ parent' \in {"open", "ended"}
      /\ sess' \in [status : {"idle", "busy", "gone"}, shown : BOOLEAN, unseen : BOOLEAN]
  <2>1. Prompted \in [status : {"idle", "busy", "gone"}, shown : BOOLEAN, unseen : BOOLEAN]
    BY <1>0 DEF TypeOK, Prompted
  <2>2. CASE Notify \/ Restart
    BY <1>0, <2>2 DEF TypeOK, Notify, Restart
  <2>3. CASE Others
    BY <2>3, OthersFacts
  <2>4. CASE Pass
    BY <1>0, <2>1, <2>4, PassFacts DEF TypeOK
  <2>5. CASE Calls
    BY <1>0, <2>5, CallsFacts DEF TypeOK
  <2> QED
    BY <2>2, <2>3, <2>4, <2>5 DEF Next, Calls, Others
<1>6. spent' \in [{"calls", "faults", "crowds", "restarts"} -> Nat]
  <2>1. CASE Restart
    BY <1>0, <2>1, SpendCounts DEF Restart
  <2>2. CASE Others
    BY <2>2, OthersFacts
  <2>3. CASE Pass
    BY <2>3, PassFacts
  <2>4. CASE Calls
    BY <2>4, CallsFacts
  <2>5. CASE Notify
    BY <1>0, <2>5 DEF Notify, GhostsOK
  <2> QED
    BY <2>1, <2>2, <2>3, <2>4, <2>5 DEF Next, Calls, Others
<1>7. answer' \in Version
  <2>1. CASE Calls
    BY <1>1, <2>1, CallsFacts
  <2>2. CASE Pass
    BY <1>1, <2>2, PassFacts
  <2>3. CASE Others
    BY <1>1, <2>3, OthersFacts DEF Aside
  <2> QED
    BY <1>1, <2>1, <2>2, <2>3 DEF Next, Calls, Others, Notify, Restart
<1>8. /\ jobs' \in [Jobs -> [pc : Counters, read : Version]]
      /\ jobs'["delegate"].pc \in {"rest", "notify"}
      /\ jobs'["pass"].pc \in {"rest", "judge", "send", "mark"}
      /\ jobs'["call"].pc \in {"rest", "check", "mark", "reply"}
      /\ jobs'["other"].pc \in {"rest", "check", "mark"}
  BY JobsStep
<1>9. TypeOK'
  BY <1>1, <1>2, <1>3, <1>4, <1>5, <1>7, <1>8 DEF TypeOK, Jobs, Counters, Version
<1>10. GhostsOK'
  BY <1>3, <1>6, <1>8 DEF GhostsOK
<1> QED
  BY <1>9, <1>10

(* told_seq only ever takes the version of a read.                             *)
LEMMA ToldStep ==
  ASSUME IInv, Next
  PROVE  ToldIsPast'
<1>0. /\ TypeOK /\ ToldIsPast /\ child \in Version /\ child' \in Version /\ child.seq <= child'.seq
      /\ \A a \in Jobs : jobs[a].read \in Version /\ jobs[a].read.seq <= child.seq
  BY JobsStep, ReadsStep DEF IInv, TypeOK, Jobs, ReadsArePast
<1>1. ASSUME told' = told \/ \E a \in Jobs : told' = jobs[a].read.seq,
             noticed' \/ (noticed' = noticed /\ told' = told)
      PROVE  ToldIsPast'
  <2>1. told' <= child'.seq
    BY <1>0, <1>1, NoticesAssumption DEF ToldIsPast, TypeOK, Version
  <2> QED
    BY <1>0, <1>1, <2>1 DEF ToldIsPast
<1>2. CASE Pass
  BY <1>1, <1>2, PassFacts DEF Jobs
<1>3. CASE Calls
  BY <1>1, <1>3, CallsFacts DEF Jobs
<1>4. CASE Others
  BY <1>1, <1>4, OthersFacts DEF Aside
<1>5. CASE Notify \/ Restart
  BY <1>1, <1>5 DEF Notify, Restart
<1> QED
  BY <1>2, <1>3, <1>4, <1>5 DEF Next, Calls, Others

(* No ghost forgets.                                                           *)
LEMMA GhostsGrow ==
  ASSUME IInv, Next
  PROVE  said \subseteq said' /\ dropped \subseteq dropped' /\ unheard \subseteq unheard'
<1>1. CASE Others
  BY <1>1, OthersFacts DEF Aside
<1>2. CASE Pass
  BY <1>2, PassFacts DEF Says
<1>3. CASE Calls
  BY <1>3, CallsFacts DEF Says
<1>4. CASE Notify \/ Restart
  BY <1>4 DEF Notify, Restart
<1> QED
  BY <1>1, <1>2, <1>3, <1>4 DEF Next, Calls, Others

(* What a job is about to record is backed.                                    *)
LEMMA MarksStep ==
  ASSUME IInv, Next
  PROVE  MarksAreBacked'
<1>0. /\ TypeOK /\ GhostsOK /\ MarksAreBacked /\ child \in Version /\ FirstVersion \in Version
      /\ Standing(child) \in Version /\ Standing(child).state = child.state
      /\ \A a \in Jobs : jobs[a].read \in Version
      /\ said \subseteq said' /\ dropped \subseteq dropped'
  BY FirstIsVersion, StandingIsVersion, GhostsGrow DEF IInv, TypeOK, Jobs
<1>1. ASSUME jobs' = jobs, answer' = answer
      PROVE  MarksAreBacked'
  <2>1. (At("pass", "mark") => jobs["pass"].read.seq \in dropped \/ Said(jobs["pass"].read))'
    BY <1>0, <1>1 DEF MarksAreBacked, At, Said
  <2>2. (At("call", "check") \/ At("call", "mark") => jobs["call"].read.state = answer.state)'
    BY <1>0, <1>1 DEF MarksAreBacked, At
  <2>3. (At("call", "reply") =>
          jobs["call"].read = FirstVersion \/ jobs["call"].read.state = answer.state)'
    BY <1>0, <1>1 DEF MarksAreBacked, At, FirstVersion
  <2> QED
    BY <2>1, <2>2, <2>3 DEF MarksAreBacked
<1>2. ASSUME NEW pc \in {"rest", "judge", "send", "mark"}, NEW read \in Version, Go("pass", pc, read),
             answer' = answer,
             pc = "mark" => read.seq \in dropped' \/ [state |-> read.state, seq |-> read.seq] \in said'
      PROVE  MarksAreBacked'
  <2>1. jobs'["pass"].pc = pc /\ jobs'["pass"].read = read /\ jobs'["call"] = jobs["call"]
    BY <1>0, <1>2, PassGoes
  <2>2. (At("pass", "mark") => jobs["pass"].read.seq \in dropped \/ Said(jobs["pass"].read))'
    BY <1>0, <1>2, <2>1 DEF MarksAreBacked, At, Said
  <2>3. (At("call", "check") \/ At("call", "mark") => jobs["call"].read.state = answer.state)'
    BY <1>0, <1>2, <2>1 DEF MarksAreBacked, At
  <2>4. (At("call", "reply") =>
          jobs["call"].read = FirstVersion \/ jobs["call"].read.state = answer.state)'
    BY <1>0, <1>2, <2>1 DEF MarksAreBacked, At, FirstVersion
  <2> QED
    BY <2>2, <2>3, <2>4 DEF MarksAreBacked
<1>3. ASSUME NEW pc \in {"rest", "check", "mark", "reply"}, NEW read \in Version, Go("call", pc, read),
             pc \in {"check", "mark"} => read.state = answer'.state,
             pc = "reply" => read = FirstVersion \/ read.state = answer'.state
      PROVE  MarksAreBacked'
  <2>1. jobs'["call"].pc = pc /\ jobs'["call"].read = read /\ jobs'["pass"] = jobs["pass"]
    BY <1>0, <1>3, CallGoes
  <2>2. (At("pass", "mark") => jobs["pass"].read.seq \in dropped \/ Said(jobs["pass"].read))'
    BY <1>0, <1>3, <2>1 DEF MarksAreBacked, At, Said
  <2>3. (At("call", "check") \/ At("call", "mark") => jobs["call"].read.state = answer.state)'
    BY <1>0, <1>3, <2>1 DEF MarksAreBacked, At
  <2>4. (At("call", "reply") =>
          jobs["call"].read = FirstVersion \/ jobs["call"].read.state = answer.state)'
    BY <1>0, <1>3, <2>1 DEF MarksAreBacked, At, FirstVersion
  <2> QED
    BY <2>2, <2>3, <2>4 DEF MarksAreBacked
<1>4. ASSUME NEW a \in {"delegate", "other"}, NEW pc \in Counters, NEW read \in Version, Go(a, pc, read),
             answer' = answer
      PROVE  MarksAreBacked'
  <2>1. jobs'["call"] = jobs["call"] /\ jobs'["pass"] = jobs["pass"]
    BY <1>0, <1>4, GoMoves DEF Jobs
  <2> QED
    BY <1>0, <1>4, <2>1 DEF MarksAreBacked, At, Said
<1>5. CASE Notify
  BY <1>0, <1>4, <1>5 DEF Notify, Rest, Counters
<1>6. CASE PassLists
  BY <1>0, <1>2, <1>6 DEF PassLists
<1>7. CASE PassJudges
  BY <1>0, <1>2, <1>7 DEF PassJudges, Rest, Jobs
<1>8. CASE PassSends
  <2>1. Go("pass", "mark", jobs["pass"].read) /\ Says(jobs["pass"].read) /\ answer' = answer
    BY <1>8 DEF PassSends
  <2> QED
    BY <1>0, <1>2, <2>1 DEF Says, Jobs
<1>9. CASE PassFailsToSend
  BY <1>0, <1>2, <1>9 DEF PassFailsToSend, Rest, Jobs
<1>10. CASE Mark("pass") \/ MarkFails("pass")
  BY <1>0, <1>2, <1>10 DEF Mark, MarkFails, Recorded, Rest, Jobs
<1>11. CASE WaitAnswers
  BY <1>0, <1>3, <1>11 DEF WaitAnswers
<1>12. CASE CancelAnswers
  <2>1. /\ child' \in Version /\ answer' = child'
        /\ Go("call", "check", child') \/ Go("call", "reply", FirstVersion)
    BY <1>12, JobsStep DEF CancelAnswers
  <2> QED
    BY <1>0, <1>3, <2>1
<1>13. CASE OtherWaits
  BY <1>0, <1>4, <1>13 DEF OtherWaits, Counters
<1>14. CASE CallChecks("call")
  <2>1. /\ answer' = answer /\ jobs["call"].read.state = answer.state
        /\ \/ child.state = jobs["call"].read.state /\ Go("call", "mark", Standing(child))
           \/ Go("call", "reply", FirstVersion)
    BY <1>0, <1>14 DEF CallChecks, Recorded, MarksAreBacked
  <2> QED
    BY <1>0, <1>3, <2>1
<1>15. CASE Mark("call") \/ MarkFails("call")
  <2>1. /\ answer' = answer /\ jobs["call"].read.state = answer.state
        /\ Go("call", "reply", jobs["call"].read) \/ Go("call", "reply", FirstVersion)
    BY <1>0, <1>15 DEF Mark, MarkFails, Recorded, MarksAreBacked
  <2> QED
    BY <1>0, <1>3, <2>1 DEF Jobs
<1>16. CASE Call("other")
  <2>1. /\ answer' = answer
        /\ \E pc \in {"rest", "mark"}, read \in Version : Go("other", pc, read)
    BY <1>0, <1>16 DEF Call, CallChecks, Mark, MarkFails, Recorded, Rest
  <2> QED
    BY <1>4, <2>1 DEF Counters
<1>17. CASE CallReplies \/ CallBreaks
  BY <1>0, <1>3, <1>17 DEF CallReplies, CallBreaks, Rest
<1>18. CASE Others
  BY <1>1, <1>18, OthersFacts DEF Aside
<1>19. CASE Restart
  BY <1>19 DEF Restart, Resting, MarksAreBacked, At, Said, TypeOK, IInv
<1> QED
  BY <1>5, <1>6, <1>7, <1>8, <1>9, <1>10, <1>11, <1>12, <1>13, <1>14, <1>15, <1>16, <1>17, <1>18, <1>19
  DEF Next, Others, Pass, Call

(* The child's own version is only recorded as told once its state was said,   *)
(* or by a call that is going to answer it.                                    *)
LEMMA ToldStateStep ==
  ASSUME IInv, Next
  PROVE  ToldStateWasSaid'
<1>0. /\ TypeOK /\ GhostsOK /\ MarksAreBacked /\ ToldStateWasSaid /\ ToldIsPast /\ ReadsArePast
      /\ child \in Version /\ child' \in Version /\ child.seq <= child'.seq
      /\ \A a \in Jobs : jobs[a].read \in Version
      /\ said \subseteq said' /\ dropped \subseteq dropped' /\ unheard \subseteq unheard'
  BY GhostsGrow, JobsStep, ReadsStep DEF IInv, TypeOK, Jobs
<1>1. ASSUME told' = told, noticed' = noticed, child'.seq = child.seq => child'.state = child.state,
             \/ ~At("call", "reply")
             \/ jobs'["call"] = jobs["call"] /\ answer' = answer
             \/ jobs["call"].read.seq \in unheard'
             \/ [state |-> answer.state, seq |-> answer.seq] \in said'
      PROVE  ToldStateWasSaid'
  <2> SUFFICES ASSUME noticed, told = child'.seq
               PROVE  child'.seq \in dropped' \union unheard' \/ Heard'
    BY <1>1 DEF ToldStateWasSaid
  <2>1. child'.seq = child.seq /\ child'.state = child.state
    BY <1>0, <1>1 DEF ToldIsPast, TypeOK, Version
  <2>2. child.seq \in dropped \union unheard \/ Heard
    BY <1>0, <2>1 DEF ToldStateWasSaid
  <2>3. CASE \E r \in said : r.state = child.state
    BY <1>0, <2>1, <2>3 DEF Heard
  <2>4. CASE /\ At("call", "reply") /\ jobs["call"].read.seq = child.seq
             /\ answer.state = child.state
    <3>1. CASE [state |-> answer.state, seq |-> answer.seq] \in said'
      BY <2>1, <2>4, <3>1 DEF Heard
    <3>2. CASE jobs'["call"] = jobs["call"] /\ answer' = answer
      BY <2>1, <2>4, <3>2 DEF Heard, At
    <3> QED
      BY <1>1, <2>1, <2>4, <3>1, <3>2
  <2> QED
    BY <1>0, <2>1, <2>2, <2>3, <2>4 DEF Heard
<1>2. ASSUME NEW a \in Jobs, NEW pc \in Counters, NEW read \in Version, Go(a, pc, read), a # "call"
      PROVE  jobs'["call"] = jobs["call"]
  BY <1>0, <1>2, GoMoves DEF Jobs
<1>3. CASE Notify
  <2>1. jobs'["call"] = jobs["call"]
    BY <1>2, <1>3, FirstIsVersion DEF Notify, Rest, Jobs, Counters
  <2>2. CASE noticed
    BY <1>1, <1>3, <2>1, <2>2 DEF Notify, TypeOK
  <2>3. CASE ~noticed
    BY <1>0, <1>3, <2>3 DEF Notify, ToldStateWasSaid, ToldIsPast, Version
  <2> QED
    BY <2>2, <2>3
<1>4. CASE Pass
  <2>1. jobs'["call"] = jobs["call"]
    BY <1>0, <1>2, <1>4, PassFacts, FirstIsVersion DEF Jobs, Counters
  <2>2. UNCHANGED <<child, noticed, answer>>
    BY <1>4, PassFacts
  <2>3. CASE told' = told
    BY <1>1, <2>1, <2>2, <2>3
  <2>4. CASE Mark("pass")
    <3> SUFFICES ASSUME jobs["pass"].read.seq = child.seq
                 PROVE  child.seq \in dropped \/ \E r \in said : r.state = child.state
      BY <1>0, <1>1, <2>1, <2>2, <2>4 DEF Mark, ToldStateWasSaid, Heard
    <3>1. jobs["pass"].read.state = child.state /\ At("pass", "mark")
      BY <1>0, <2>4 DEF ReadsArePast, Jobs, Mark
    <3> QED
      BY <1>0, <3>1 DEF MarksAreBacked, Said
  <2> QED
    BY <1>4, <2>3, <2>4 DEF Pass, PassLists, PassJudges, PassSends, PassFailsToSend, MarkFails
<1>5. CASE WaitAnswers
  <2>1. ~At("call", "reply")
    BY <1>5 DEF WaitAnswers, CanCall, At
  <2> QED
    BY <1>1, <1>5, <2>1 DEF WaitAnswers
<1>6. CASE CancelAnswers
  <2>1. /\ told' = told /\ noticed' = noticed /\ child'.seq = child.seq + 1
        /\ ~At("call", "reply")
    BY <1>6 DEF CancelAnswers, CanCall, At
  <2> QED
    BY <1>0, <1>1, <2>1 DEF Version
<1>7. CASE OtherWaits
  <2>1. jobs'["call"] = jobs["call"]
    BY <1>0, <1>2, <1>7, StandingIsVersion DEF OtherWaits, Jobs, Counters
  <2> QED
    BY <1>1, <1>7, <2>1 DEF OtherWaits
<1>8. CASE Call("other")
  <2>1. \E pc \in {"rest", "mark"}, read \in Version : Go("other", pc, read)
    BY <1>0, <1>8, FirstIsVersion, StandingIsVersion DEF Call, CallChecks, Mark, MarkFails, Recorded, Rest
  <2>2. jobs'["call"] = jobs["call"]
    BY <1>2, <2>1 DEF Jobs, Counters
  <2>3. CASE CallChecks("other") \/ MarkFails("other")
    BY <1>1, <2>2, <2>3 DEF CallChecks, MarkFails
  <2>4. CASE Mark("other")
    <3>1. /\ UNCHANGED <<child, noticed, answer>>
          /\ told' = (IF noticed THEN jobs["other"].read.seq ELSE told)
          /\ jobs["other"].read.seq \in unheard'
      BY <2>4 DEF Mark
    <3> QED
      BY <1>1, <2>2, <3>1 DEF ToldStateWasSaid
  <2> QED
    BY <1>8, <2>3, <2>4 DEF Call
<1>9. CASE Call("call")
  <2>1. CASE CallChecks("call") \/ MarkFails("call")
    <3>1. ~At("call", "reply")
      BY <2>1 DEF CallChecks, MarkFails, At
    <3> QED
      BY <1>1, <2>1, <3>1 DEF CallChecks, MarkFails
  <2>2. CASE Mark("call")
    <3>1. /\ UNCHANGED <<child, noticed, answer>>
          /\ told' = (IF noticed THEN jobs["call"].read.seq ELSE told)
          /\ Go("call", "reply", jobs["call"].read)
          /\ jobs["call"].read.state = answer.state
      BY <1>0, <2>2 DEF Mark, Recorded, MarksAreBacked
    <3>2. jobs'["call"].pc = "reply" /\ jobs'["call"].read = jobs["call"].read
      BY <1>0, <3>1, GoMoves DEF Jobs, Counters
    <3> SUFFICES ASSUME noticed, jobs["call"].read.seq = child.seq
                 PROVE  Heard'
      BY <3>1 DEF ToldStateWasSaid
    <3>3. jobs["call"].read.state = child.state
      BY <1>0 DEF ReadsArePast, Jobs
    <3> QED
      BY <3>1, <3>2, <3>3 DEF Heard, At
  <2> QED
    BY <1>9, <2>1, <2>2 DEF Call
<1>10. CASE CallReplies
  BY <1>1, <1>10 DEF CallReplies, Says
<1>11. CASE CallBreaks \/ Restart
  <2>1. ~At("call", "reply") \/ jobs["call"].read.seq \in unheard'
    BY <1>11 DEF CallBreaks, Restart, Lost
  <2> QED
    BY <1>1, <1>11, <2>1 DEF CallBreaks, Restart
<1>12. CASE Others
  BY <1>1, <1>12, OthersFacts DEF Aside
<1> QED
  BY <1>3, <1>4, <1>5, <1>6, <1>7, <1>8, <1>9, <1>10, <1>11, <1>12 DEF Next, Others

(* As long as nothing goes wrong, the pass says a version once.                *)
LEMMA AheadStep ==
  ASSUME IInv, Next
  PROVE  PassIsAhead'
<1>0. /\ TypeOK /\ GhostsOK /\ ToldIsPast /\ child \in Version /\ FirstVersion \in Version
      /\ \A a \in Jobs : jobs[a].read \in Version
      /\ \A r \in said : r.seq \in Nat /\ r.seq <= child.seq
      /\ told \in Nat
  BY FirstIsVersion DEF IInv, TypeOK, GhostsOK, Jobs
<1> SUFFICES ASSUME Untroubled' PROVE PassIsAhead'
  BY DEF PassIsAhead
<1>1. ASSUME NEW what \in {"calls", "faults", "restarts"}, NEW max, Spend(what, max)
      PROVE  FALSE
  BY <1>0, <1>1, SpendCounts DEF Untroubled
<1>2. ~WaitAnswers /\ ~CancelAnswers /\ ~OtherWaits /\ ~CallBreaks /\ ~Restart /\ ~\E a \in Jobs : MarkFails(a)
  BY <1>1 DEF WaitAnswers, CancelAnswers, OtherWaits, CallBreaks, Restart, MarkFails
<1>3. Untroubled
  <2>1. CASE Others
    BY <2>1, OthersFacts
  <2>2. CASE Pass \/ Calls
    BY <2>2, PassFacts, CallsFacts
  <2>3. CASE Notify
    BY <2>3 DEF Notify, Untroubled
  <2> QED
    BY <1>2, <2>1, <2>2, <2>3 DEF Next, Others, Calls
<1>4. /\ At("call", "rest") /\ At("other", "rest")
      /\ ~At("pass", "rest") => noticed
      /\ At("pass", "rest") => \A r \in said : r.seq <= told
      /\ At("pass", "judge") \/ At("pass", "send") =>
           told < jobs["pass"].read.seq /\ \A r \in said : r.seq <= told
      /\ At("pass", "mark") => \A r \in said : r.seq <= jobs["pass"].read.seq
  BY <1>3 DEF IInv, PassIsAhead
<1>5. ASSUME NEW pc \in {"rest", "judge", "send", "mark"}, NEW read \in Version, Go("pass", pc, read)
      PROVE  /\ jobs'["pass"].pc = pc /\ jobs'["pass"].read = read
             /\ jobs'["call"] = jobs["call"] /\ jobs'["other"] = jobs["other"]
  BY <1>0, <1>5, PassGoes
<1>6. CASE Notify
  <2>1. jobs'["pass"] = jobs["pass"] /\ jobs'["call"] = jobs["call"] /\ jobs'["other"] = jobs["other"]
    BY <1>0, <1>6, GoMoves DEF Notify, Rest, Jobs, Counters
  <2> QED
    BY <1>4, <1>6, <2>1 DEF Notify, PassIsAhead, At
<1>7. CASE PassLists
  <2>1. /\ jobs'["pass"].pc = "judge" /\ jobs'["pass"].read = child /\ jobs'["call"] = jobs["call"] /\ jobs'["other"] = jobs["other"]
    BY <1>0, <1>5, <1>7 DEF PassLists
  <2>2. told < child.seq /\ noticed
    BY <1>0, <1>7 DEF PassLists, Pending, ToldIsPast, Version
  <2> QED
    BY <1>4, <1>7, <2>1, <2>2 DEF PassLists, PassIsAhead, At
<1>8. CASE PassJudges
  <2>1. PICK pc \in {"rest", "send", "mark"} :
          /\ (pc = "rest" /\ Rest("pass")) \/ Go("pass", pc, jobs["pass"].read)
    BY <1>8 DEF PassJudges
  <2>2. /\ jobs'["pass"].pc = pc /\ jobs'["call"] = jobs["call"] /\ jobs'["other"] = jobs["other"]
        /\ pc # "rest" => jobs'["pass"].read = jobs["pass"].read
    BY <1>0, <1>5, <2>1 DEF Rest, Jobs
  <2>3. At("pass", "judge") /\ UNCHANGED <<noticed, told, said>>
    BY <1>8 DEF PassJudges
  <2>4. /\ told < jobs["pass"].read.seq /\ \A r \in said : r.seq <= told
        /\ jobs["pass"].read.seq \in Nat
    BY <1>0, <1>4, <2>3 DEF Jobs, Version
  <2>5. \A r \in said : r.seq <= jobs["pass"].read.seq
    BY <1>0, <2>4
  <2>6. noticed
    BY <1>4, <2>3 DEF At
  <2> QED
    BY <1>4, <2>2, <2>3, <2>4, <2>5, <2>6 DEF PassIsAhead, At
<1>9. CASE PassSends
  <2>1. /\ At("pass", "send") /\ Go("pass", "mark", jobs["pass"].read) /\ Says(jobs["pass"].read)
        /\ UNCHANGED <<noticed, told>>
    BY <1>9 DEF PassSends
  <2>2. /\ jobs'["pass"].pc = "mark" /\ jobs'["pass"].read = jobs["pass"].read /\ jobs'["call"] = jobs["call"] /\ jobs'["other"] = jobs["other"]
    BY <1>0, <1>5, <2>1 DEF Jobs
  <2>3. /\ told < jobs["pass"].read.seq /\ \A r \in said : r.seq <= told
        /\ jobs["pass"].read.seq \in Nat /\ noticed
    BY <1>0, <1>4, <2>1 DEF Jobs, Version, At
  <2>4. \A r \in said' : r.seq <= jobs["pass"].read.seq
    BY <1>0, <2>1, <2>3 DEF Says
  <2> QED
    BY <1>4, <2>1, <2>2, <2>3, <2>4 DEF PassIsAhead, At
<1>10. CASE PassFailsToSend
  <2>1. /\ At("pass", "send") /\ sess.status = "gone" /\ UNCHANGED <<noticed, told>> /\ said' = said
    BY <1>1, <1>10 DEF PassFailsToSend
  <2>2. PICK pc \in {"rest", "mark"} :
          (pc = "rest" /\ Rest("pass")) \/ Go("pass", pc, jobs["pass"].read)
    BY <1>10 DEF PassFailsToSend
  <2>3. /\ jobs'["pass"].pc = pc /\ jobs'["call"] = jobs["call"] /\ jobs'["other"] = jobs["other"]
        /\ pc # "rest" => jobs'["pass"].read = jobs["pass"].read
    BY <1>0, <1>5, <2>2 DEF Rest, Jobs
  <2>4. /\ told < jobs["pass"].read.seq /\ \A r \in said : r.seq <= told
        /\ jobs["pass"].read.seq \in Nat /\ noticed
    BY <1>0, <1>4, <2>1 DEF Jobs, Version, At
  <2>5. \A r \in said : r.seq <= jobs["pass"].read.seq
    BY <1>0, <2>4
  <2> QED
    BY <1>4, <2>1, <2>3, <2>4, <2>5 DEF PassIsAhead, At
<1>11. CASE Mark("pass")
  <2>1. /\ At("pass", "mark") /\ Go("pass", "rest", FirstVersion)
        /\ told' = (IF noticed THEN jobs["pass"].read.seq ELSE told)
        /\ UNCHANGED <<noticed, said>>
    BY <1>11 DEF Mark, Recorded, Rest
  <2>2. /\ jobs'["pass"].pc = "rest" /\ jobs'["call"] = jobs["call"] /\ jobs'["other"] = jobs["other"]
    BY <1>0, <1>5, <2>1
  <2> QED
    BY <1>4, <2>1, <2>2 DEF PassIsAhead, At
<1>12. CASE Calls
  <2>1. \A a \in {"call", "other"}, pc \in {"check", "mark", "reply"} : ~At(a, pc)
    BY <1>4 DEF At
  <2> QED
    BY <1>2, <1>12, <2>1 DEF Calls, Call, CallChecks, Mark, MarkFails, CallReplies
<1>13. CASE Others
  <2>1. UNCHANGED <<noticed, told, jobs, said>>
    BY <1>13, OthersFacts DEF Aside
  <2> QED
    BY <1>4, <2>1 DEF PassIsAhead, At
<1> QED
  BY <1>2, <1>6, <1>7, <1>8, <1>9, <1>10, <1>11, <1>12, <1>13 DEF Next, Others, Pass, Calls, Jobs

-----------------------------------------------------------------------------
LEMMA InitIInv == Init => IInv
<1> SUFFICES ASSUME Init PROVE IInv
  OBVIOUS
<1> USE FirstIsVersion, NoticesAssumption DEF Init
<1>1. jobs \in [Jobs -> [pc : {"rest", "notify"}, read : {FirstVersion}]]
  BY DEF Resting, Jobs
<1>2. sess \in [status : {"idle", "busy", "gone"}, shown : BOOLEAN, unseen : BOOLEAN]
  OBVIOUS
<1>3. TypeOK
  <2>1. jobs \in [Jobs -> [pc : Counters, read : Version]]
    <3>1. \A r \in [pc : {"rest", "notify"}, read : {FirstVersion}] :
            r \in [pc : Counters, read : Version]
      BY FirstIsVersion DEF Counters
    <3> QED
      BY <1>1, <3>1
  <2>2. child \in Version /\ answer \in Version /\ told \in 0..MaxSeq
    BY FirstIsVersion
  <2>3. noticed \in BOOLEAN /\ parent \in {"open", "ended"}
    OBVIOUS
  <2>4. (\A r \in said : r.seq <= child.seq) /\ dropped \union unheard \subseteq 1..child.seq
    OBVIOUS
  <2> QED
    BY <1>2, <2>1, <2>2, <2>3, <2>4 DEF TypeOK, Jobs, Counters
<1>4. GhostsOK
  <2>1. /\ jobs["delegate"].pc = "notify" /\ jobs["pass"].pc = "rest" /\ jobs["call"].pc = "rest" /\ jobs["other"].pc = "rest"
    BY DEF Resting
  <2> QED
    BY <2>1 DEF GhostsOK
<1>5. /\ ReadsArePast /\ ToldIsPast /\ MarksAreBacked /\ ToldStateWasSaid /\ PassIsAhead
  BY <1>1 DEF FirstVersion, Resting, ReadsArePast, ToldIsPast, MarksAreBacked, ToldStateWasSaid, PassIsAhead, At, Jobs
<1> QED
  BY <1>3, <1>4, <1>5 DEF IInv

LEMMA NextIInv == IInv /\ [Next]_vars => IInv'
<1> SUFFICES ASSUME IInv, [Next]_vars PROVE IInv'
  OBVIOUS
<1>1. CASE Next
  BY <1>1, TypesStep, ReadsStep, ToldStep, MarksStep, ToldStateStep, AheadStep DEF IInv
<1>2. CASE UNCHANGED vars
  BY <1>2 DEF vars, IInv, TypeOK, GhostsOK, ReadsArePast, ToldIsPast, MarksAreBacked, ToldStateWasSaid,
     Heard, PassIsAhead, At, Said, Untroubled
<1> QED
  BY <1>1, <1>2

(* The strengthening holds throughout.                                         *)
THEOREM Strengthening == Spec => []IInv
BY InitIInv, NextIInv, PTL DEF Spec

(* Every variable keeps its type (TaskNotices.tla TypeOK).                     *)
THEOREM NoticesTypes == Spec => []TypeOK
<1>1. IInv => TypeOK
  BY DEF IInv
<1> QED
  BY <1>1, Strengthening, PTL

(* A state that counts as told was said to the parent, or the call under way   *)
(* is going to answer it, however the pass, the calls and the child's moves    *)
(* interleave; unless that version was given up, or recorded for an answer     *)
(* that broke off or for another session's wait (TaskNotices.tla unheard).     *)
THEOREM NothingUnsaidIsTold == Spec => []ToldStateWasSaid
<1>1. IInv => ToldStateWasSaid
  BY DEF IInv
<1> QED
  BY <1>1, Strengthening, PTL

(* Without a fault, a restart or a call of the parent, no line goes out twice. *)
THEOREM OneLineAVersion == Spec => []RepeatsOnlyAfterTrouble
<1>1. IInv => RepeatsOnlyAfterTrouble
  <2> SUFFICES ASSUME IInv, Untroubled, At("pass", "send"), NEW r \in said,
                      r.seq = jobs["pass"].read.seq
               PROVE  FALSE
    BY DEF RepeatsOnlyAfterTrouble, SaysAgain
  <2>1. told < jobs["pass"].read.seq /\ r.seq <= told
    BY DEF IInv, PassIsAhead
  <2>2. told \in Nat /\ r.seq \in Nat
    BY DEF IInv, TypeOK, GhostsOK
  <2> QED
    BY <2>1, <2>2
<1> QED
  BY <1>1, Strengthening, PTL
=============================================================================
