------------------------- MODULE DeviceTrafficProofs -------------------------
(***************************************************************************)
(* What a device sends, proved: its requests (ReplayStore, for every set   *)
(* of credentials and nonces, every skew, every clock and every number of  *)
(* requests) and its files (ChunkedUpload, for every set of uploads and of *)
(* requests, every size and every limit).                                  *)
(*                                                                         *)
(* That a request does not run twice is not inductive: what makes it so is *)
(* where an admitted request is remembered. Its row is there, or the       *)
(* cutoff is past its timestamp, or its credential is past its version;    *)
(* and none of the three is ever undone.                                   *)
(*                                                                         *)
(* That a finished file is the chunks that were taken is not inductive     *)
(* alone either. It needs that one request at most has an upload in hand   *)
(* (busy), where that request stands between the registry and the file,    *)
(* and that no write goes past the declared size.                          *)
(***************************************************************************)
EXTENDS ReplayStore, ChunkedUpload, FiniteSetTheorems, SequenceTheorems, TLAPS

-----------------------------------------------------------------------------
(* REQUESTS (ReplayStore)                                                      *)

(* An admitted request is remembered by its row, the cutoff or the pin.       *)
Remembered ==
  \A d \in ran :
    \/ d \in kept
    \/ d.version = 2 /\ d.stamp < cutoff
    \/ d.version = 1 /\ pin[d.cred] = 2

(* The pin is at the latest version its credential used.                      *)
PinCovers ==
  /\ \A d \in ran : d.version <= pin[d.cred]
  /\ \A r \in kept : r.version <= pin[r.cred]

(* The cutoff trails the latest admission by the skew.                        *)
CutoffTrails == cutoff = 0 \/ cutoff + MaxSkew <= latest

ReplayInv ==
  /\ ReplayTypeOK /\ Remembered /\ PinCovers /\ CutoffTrails /\ NothingRunsTwice
  /\ IsFiniteSet(kept) /\ RowsAreBounded

-----------------------------------------------------------------------------
(* The new cutoff is at least the one on disk, and no fresh version 2          *)
(* timestamp that passes the one on disk is before it.                        *)
LEMMA OldestBounds ==
  ASSUME clock \in Nat, cutoff \in Nat, MaxSkew \in Nat
  PROVE  /\ Oldest \in Nat /\ Oldest >= cutoff
         /\ Oldest = cutoff \/ Oldest + MaxSkew = clock
         /\ \A s \in Nat : Fresh(s) /\ s >= cutoff => s >= Oldest
BY DEF Oldest, Fresh

(* What a transaction keeps, it had.                                          *)
LEMMA ReleasedIsKept ==
  ASSUME NEW e
  PROVE  Pruned \subseteq kept /\ Released(e) \subseteq Pruned
BY DEF Pruned, Released

(* An admitted request is new: nothing that ran before is the same request.   *)
LEMMA AdmittedIsNew ==
  ASSUME ReplayInv, NEW e \in Envelopes, Verdict(e) = "accepted", NEW d \in ran
  PROVE  ~SameRequest(d, e)
<1> SUFFICES ASSUME SameRequest(d, e) PROVE FALSE
  OBVIOUS
<1>1. /\ Fresh(e.stamp) /\ e.version >= pin[e.cred] /\ ~Seen(e)
      /\ e.version = 2 => e.stamp >= cutoff
  BY SMT, ReplayAssumption DEF Verdict, ReplayInv, ReplayTypeOK, Envelopes, Versions
<1>2. d.cred = e.cred /\ d.nonce = e.nonce /\ d.version = e.version
  BY DEF SameRequest
<1>3. d \notin Pruned
  BY <1>1, <1>2 DEF Seen
<1>4. CASE e.version = 2
  <2>1. d.stamp = e.stamp /\ e.stamp \in Nat
    BY <1>4, ReplayAssumption DEF SameRequest, Envelopes
  <2>2. e.stamp >= cutoff /\ e.stamp >= Oldest /\ cutoff \in Nat
    BY <1>1, <1>4, <2>1, OldestBounds, ReplayAssumption DEF ReplayInv, ReplayTypeOK
  <2>3. d \in kept
    BY <1>2, <1>4, <2>1, <2>2 DEF ReplayInv, Remembered
  <2> QED
    BY <1>3, <2>1, <2>2, <2>3 DEF Pruned
<1>5. CASE e.version = 1
  <2>1. pin[e.cred] = 1
    BY <1>1, <1>5 DEF ReplayInv, ReplayTypeOK, Envelopes, Versions
  <2>2. d \in kept
    BY <1>2, <1>5, <2>1 DEF ReplayInv, Remembered
  <2> QED
    BY <1>2, <1>3, <1>5, <2>2 DEF Pruned
<1> QED
  BY <1>4, <1>5 DEF Envelopes, Versions

-----------------------------------------------------------------------------
(* What an admission makes of the tables.                                     *)
LEMMA AdmitFacts ==
  ASSUME ReplayInv, Admit
  PROVE  \E e \in Envelopes :
           /\ e = Head(queue) /\ Verdict(e) = "accepted"
           /\ Fresh(e.stamp) /\ pin[e.cred] <= e.version
           /\ e.version = 2 => e.stamp >= cutoff
           /\ ~Full(e)
           /\ pin' = [pin EXCEPT ![e.cred] = e.version]
<1>1. Head(queue) \in Envelopes
  BY DEF Admit, ReplayInv, ReplayTypeOK
<1> DEFINE e == Head(queue)
<1>2. /\ Verdict(e) = "accepted"
      /\ pin' = [pin EXCEPT ![e.cred] = IF e.version > @ THEN e.version ELSE @]
  BY DEF Admit
<1>3. /\ pin[e.cred] \in Versions /\ e.version \in Versions
      /\ e.stamp \in Nat /\ cutoff \in Nat
  BY <1>1, ReplayAssumption DEF ReplayInv, ReplayTypeOK, Envelopes
<1>4. /\ Fresh(e.stamp) /\ ~(e.version = 2 /\ e.stamp < cutoff)
      /\ ~(e.version < pin[e.cred]) /\ ~Full(e)
  BY <1>2 DEF Verdict
<1>5. (IF e.version > pin[e.cred] THEN e.version ELSE pin[e.cred]) = e.version
  BY <1>3, <1>4 DEF Versions
<1>6. pin[e.cred] <= e.version /\ (e.version = 2 => e.stamp >= cutoff)
  BY <1>3, <1>4 DEF Versions
<1> HIDE DEF e
<1> QED
  BY <1>1, <1>2, <1>4, <1>5, <1>6 DEF e

(* An admission keeps the types.                                              *)
LEMMA AdmitKeepsTypes ==
  ASSUME ReplayInv, Admit
  PROVE  ReplayTypeOK'
<1>1. PICK e \in Envelopes : e = Head(queue) /\ pin' = [pin EXCEPT ![e.cred] = e.version]
  BY AdmitFacts
<1>2. cutoff' \in Nat
  BY OldestBounds, ReplayAssumption DEF Admit, ReplayInv, ReplayTypeOK
<1>3. pin' \in [Credentials -> Versions]
  BY <1>1 DEF ReplayInv, ReplayTypeOK, Envelopes
<1>4. kept' \subseteq Envelopes /\ ran' \subseteq Envelopes
  BY <1>1, ReleasedIsKept DEF Admit, ReplayInv, ReplayTypeOK
<1>5. queue' \in Seq(Envelopes)
  BY DEF Admit, ReplayInv, ReplayTypeOK
<1>6. latest' \in Nat /\ twice' \in BOOLEAN /\ clock' \in Times
  BY ReplayAssumption DEF Admit, ReplayInv, ReplayTypeOK
<1> QED
  BY <1>2, <1>3, <1>4, <1>5, <1>6 DEF ReplayTypeOK, Admit, Acceptance

(* An admission forgets nothing that could run again.                         *)
LEMMA AdmitKeepsRemembered ==
  ASSUME ReplayInv, Admit
  PROVE  Remembered'
<1>1. PICK e \in Envelopes :
        /\ e = Head(queue) /\ pin[e.cred] <= e.version
        /\ pin' = [pin EXCEPT ![e.cred] = e.version]
  BY AdmitFacts
<1>2. kept' = Released(e) \union {e} /\ ran' = ran \union {e} /\ cutoff' = Oldest
  BY <1>1 DEF Admit
<1>3. Oldest \in Nat /\ Oldest >= cutoff /\ cutoff \in Nat
  BY OldestBounds, ReplayAssumption DEF ReplayInv, ReplayTypeOK
<1> SUFFICES ASSUME NEW d \in ran, d # e
             PROVE  \/ d \in kept'
                    \/ d.version = 2 /\ d.stamp < cutoff'
                    \/ d.version = 1 /\ pin'[d.cred] = 2
  BY <1>2 DEF Remembered
<1>4. /\ d \in Envelopes /\ d.stamp \in Nat /\ d.version \in {1, 2}
      /\ pin[d.cred] \in {1, 2} /\ pin[e.cred] \in {1, 2} /\ e.version \in {1, 2}
  BY ReplayAssumption DEF ReplayInv, ReplayTypeOK, Envelopes, Versions
<1>5. pin'[d.cred] = IF d.cred = e.cred THEN e.version ELSE pin[d.cred]
  BY <1>1, <1>4 DEF ReplayInv, ReplayTypeOK, Envelopes
<1>6. CASE d.version = 2 /\ d.stamp < cutoff
  BY <1>2, <1>3, <1>4, <1>6
<1>7. CASE d.version = 1 /\ pin[d.cred] = 2
  BY <1>1, <1>4, <1>5, <1>7
<1>8. CASE d \in kept /\ d \notin Pruned
  BY <1>2, <1>3, <1>4, <1>8 DEF Pruned
<1>9. CASE d \in Pruned /\ d \notin Released(e)
  BY <1>4, <1>5, <1>9 DEF Released
<1>10. CASE d \in Released(e)
  BY <1>2, <1>10
<1> QED
  BY <1>6, <1>7, <1>8, <1>9, <1>10 DEF ReplayInv, Remembered

(* An admission never leaves the pin behind.                                  *)
LEMMA AdmitKeepsPin ==
  ASSUME ReplayInv, Admit
  PROVE  PinCovers'
<1>1. PICK e \in Envelopes :
        /\ e = Head(queue) /\ pin[e.cred] <= e.version
        /\ pin' = [pin EXCEPT ![e.cred] = e.version]
  BY AdmitFacts
<1>2. kept' \subseteq kept \union {e} /\ ran' = ran \union {e}
  BY <1>1, ReleasedIsKept DEF Admit
<1>3. ASSUME NEW d \in Envelopes, d.version <= pin[d.cred] \/ d = e
      PROVE  d.version <= pin'[d.cred]
  <2>1. /\ d.version \in {1, 2} /\ e.version \in {1, 2}
        /\ pin[d.cred] \in {1, 2} /\ d.cred \in Credentials
    BY DEF ReplayInv, ReplayTypeOK, Envelopes, Versions
  <2>2. pin'[d.cred] = IF d.cred = e.cred THEN e.version ELSE pin[d.cred]
    BY <1>1, <2>1 DEF ReplayInv, ReplayTypeOK
  <2> QED
    BY <1>1, <1>3, <2>1, <2>2
<1> QED
  BY <1>2, <1>3 DEF PinCovers, ReplayInv, ReplayTypeOK

(* An admission keeps each credential within its rows.                        *)
LEMMA AdmitKeepsBound ==
  ASSUME ReplayInv, Admit
  PROVE  IsFiniteSet(kept') /\ RowsAreBounded'
<1>1. PICK e \in Envelopes : e = Head(queue) /\ ~Full(e)
  BY AdmitFacts
<1>2. kept' = Released(e) \union {e}
  BY <1>1 DEF Admit
<1>3. IsFiniteSet(kept) /\ Released(e) \subseteq kept
  BY ReleasedIsKept DEF ReplayInv
<1>4. IsFiniteSet(Released(e))
  BY <1>3, FS_Subset
<1>5. IsFiniteSet(kept')
  BY <1>2, <1>4, FS_AddElement
<1>6. ASSUME NEW c \in Credentials
      PROVE  Cardinality(RowsOf(c, kept')) <= MaxRows
  <2>1. CASE c = e.cred
    <3>1. RowsOf(c, kept') = RowsOf(c, Released(e)) \union {e}
      BY <1>2, <2>1 DEF RowsOf
    <3>2. IsFiniteSet(RowsOf(c, Released(e)))
      BY <1>4, FS_Subset DEF RowsOf
    <3>3. Cardinality(RowsOf(c, Released(e))) \in Nat
      BY <3>2, FS_CardinalityType
    <3>4. Cardinality(RowsOf(c, kept')) <= Cardinality(RowsOf(c, Released(e))) + 1
      BY <3>1, <3>2, <3>3, FS_AddElement
    <3>5. Cardinality(RowsOf(c, Released(e))) < MaxRows
      BY <1>1, <2>1, <3>3, ReplayAssumption DEF Full
    <3>6. Cardinality(RowsOf(c, kept')) \in Nat
      BY <1>5, FS_Subset, FS_CardinalityType DEF RowsOf
    <3> QED
      BY <3>3, <3>4, <3>5, <3>6, ReplayAssumption
  <2>2. CASE c # e.cred
    <3>1. RowsOf(c, kept') \subseteq RowsOf(c, kept)
      BY <1>2, <1>3, <2>2 DEF RowsOf
    <3>2. IsFiniteSet(RowsOf(c, kept))
      BY <1>3, FS_Subset DEF RowsOf
    <3>3. /\ Cardinality(RowsOf(c, kept')) <= Cardinality(RowsOf(c, kept))
          /\ Cardinality(RowsOf(c, kept')) \in Nat /\ Cardinality(RowsOf(c, kept)) \in Nat
      BY <3>1, <3>2, FS_Subset, FS_CardinalityType
    <3>4. Cardinality(RowsOf(c, kept)) <= MaxRows
      BY DEF ReplayInv, RowsAreBounded
    <3> QED
      BY <3>3, <3>4, ReplayAssumption
  <2> QED
    BY <2>1, <2>2
<1> QED
  BY <1>5, <1>6 DEF RowsAreBounded

-----------------------------------------------------------------------------
LEMMA InitReplayInv == ReplayInit => ReplayInv
<1> SUFFICES ASSUME ReplayInit PROVE ReplayInv
  OBVIOUS
<1>1. ReplayTypeOK
  <2>1. clock \in Times /\ cutoff \in Nat /\ latest \in Nat /\ twice \in BOOLEAN
    BY DEF ReplayInit
  <2>2. queue \in Seq(Envelopes) /\ kept \subseteq Envelopes /\ ran \subseteq Envelopes
    BY DEF ReplayInit
  <2>3. pin \in [Credentials -> Versions]
    BY DEF ReplayInit, Versions
  <2>4. answer \in Acceptance \union {"none"}
    BY DEF ReplayInit
  <2> QED
    BY <2>1, <2>2, <2>3, <2>4 DEF ReplayTypeOK
<1>2. Remembered /\ PinCovers /\ CutoffTrails /\ NothingRunsTwice
  BY DEF ReplayInit, Remembered, PinCovers, CutoffTrails, NothingRunsTwice
<1>3. IsFiniteSet(kept)
  BY FS_EmptySet DEF ReplayInit
<1>4. ASSUME NEW c \in Credentials PROVE Cardinality(RowsOf(c, kept)) <= MaxRows
  <2>1. RowsOf(c, kept) = {}
    BY DEF ReplayInit, RowsOf
  <2> QED
    BY <2>1, FS_EmptySet, ReplayAssumption
<1> QED
  BY <1>1, <1>2, <1>3, <1>4 DEF ReplayInv, RowsAreBounded

LEMMA StepReplayInv == ReplayInv /\ [ReplayNext]_replayVars => ReplayInv'
<1> SUFFICES ASSUME ReplayInv, [ReplayNext]_replayVars PROVE ReplayInv'
  OBVIOUS
<1>1. ASSUME UNCHANGED <<cutoff, pin, kept, ran, twice, latest>>, ReplayTypeOK'
      PROVE  ReplayInv'
  BY <1>1 DEF ReplayInv, Remembered, PinCovers, CutoffTrails, NothingRunsTwice,
              RowsAreBounded, RowsOf
<1>2. ASSUME NEW e \in Envelopes, Open(e) PROVE ReplayInv'
  <2>1. ReplayTypeOK'
    BY <1>2 DEF Open, ReplayInv, ReplayTypeOK
  <2> QED
    BY <1>1, <1>2, <2>1 DEF Open
<1>3. CASE Refuse
  <2>1. Verdict(Head(queue)) \in Acceptance
    BY DEF Verdict, Acceptance
  <2>2. ReplayTypeOK'
    BY <1>3, <2>1 DEF Refuse, ReplayInv, ReplayTypeOK
  <2> QED
    BY <1>1, <1>3, <2>2 DEF Refuse
<1>4. CASE Admit
  <2>1. ReplayTypeOK' /\ Remembered' /\ PinCovers' /\ IsFiniteSet(kept') /\ RowsAreBounded'
    BY <1>4, AdmitKeepsTypes, AdmitKeepsRemembered, AdmitKeepsPin, AdmitKeepsBound
  <2>2. NothingRunsTwice'
    <3>1. PICK e \in Envelopes : e = Head(queue) /\ Verdict(e) = "accepted"
      BY <1>4, AdmitFacts
    <3>2. \A d \in ran : ~SameRequest(d, e)
      BY <3>1, AdmittedIsNew
    <3> QED
      BY <1>4, <3>1, <3>2 DEF Admit, NothingRunsTwice, ReplayInv
  <2>3. CutoffTrails'
    <3>1. /\ cutoff' = Oldest /\ latest' = IF clock > latest THEN clock ELSE latest
          /\ clock \in Nat /\ latest \in Nat /\ cutoff \in Nat
      BY <1>4, ReplayAssumption DEF Admit, ReplayInv, ReplayTypeOK
    <3>2. Oldest = cutoff \/ Oldest + MaxSkew = clock
      BY <3>1, OldestBounds, ReplayAssumption
    <3> QED
      BY <3>1, <3>2, ReplayAssumption DEF CutoffTrails, ReplayInv
  <2> QED
    BY <2>1, <2>2, <2>3 DEF ReplayInv
<1>5. ASSUME NEW t \in Times, ClockReads(t) PROVE ReplayInv'
  <2>1. ReplayTypeOK'
    BY <1>5 DEF ClockReads, ReplayInv, ReplayTypeOK
  <2> QED
    BY <1>1, <1>5, <2>1 DEF ClockReads
<1>6. CASE Restart
  <2>1. ReplayTypeOK'
    BY <1>6 DEF Restart, ReplayInv, ReplayTypeOK
  <2> QED
    BY <1>1, <1>6, <2>1 DEF Restart
<1>7. CASE UNCHANGED replayVars
  <2>1. ReplayTypeOK'
    BY <1>7 DEF replayVars, ReplayInv, ReplayTypeOK
  <2> QED
    BY <1>1, <1>7, <2>1 DEF replayVars
<1> QED
  BY <1>2, <1>3, <1>4, <1>5, <1>6, <1>7 DEF ReplayNext

LEMMA ReplayInvariance == ReplaySpec => []ReplayInv
BY InitReplayInv, StepReplayInv, PTL DEF ReplaySpec

-----------------------------------------------------------------------------
(* The state of the store is well typed.                                      *)
THEOREM ReplayTypes == ReplaySpec => []ReplayTypeOK
<1>1. ReplayInv => ReplayTypeOK
  BY DEF ReplayInv
<1> QED
  BY ReplayInvariance, <1>1, PTL

(* No request is admitted twice, whatever is repeated, whatever the clock is   *)
(* set to, and whenever the gateway restarts.                                 *)
THEOREM AtMostOnce == ReplaySpec => []NothingRunsTwice
<1>1. ReplayInv => NothingRunsTwice
  BY DEF ReplayInv
<1> QED
  BY ReplayInvariance, <1>1, PTL

(* No credential keeps more rows than it may.                                 *)
THEOREM Bounded == ReplaySpec => []RowsAreBounded
<1>1. ReplayInv => RowsAreBounded
  BY DEF ReplayInv
<1> QED
  BY ReplayInvariance, <1>1, PTL

(* A step that admits nothing leaves the cutoff and what ran alone.           *)
LEMMA OnlyAdmitMoves ==
  ASSUME ReplayNext \/ UNCHANGED replayVars, ~Admit
  PROVE  UNCHANGED <<cutoff, ran>>
BY DEF ReplayNext, Open, Refuse, ClockReads, Restart, replayVars

(* The cutoff never goes back, and no version 1 request runs once its          *)
(* credential has used version 2.                                             *)
THEOREM Forward == ReplaySpec => NoWayBack
<1> DEFINE Onward ==
      /\ cutoff' >= cutoff
      /\ \A e \in ran' \ ran : \A d \in ran : d.cred = e.cred => d.version <= e.version
<1>1. ReplayInv /\ [ReplayNext]_replayVars => Onward
  <2> SUFFICES ASSUME ReplayInv, [ReplayNext]_replayVars PROVE Onward
    OBVIOUS
  <2>1. CASE Admit
    <3>1. PICK e \in Envelopes :
            /\ e = Head(queue) /\ pin[e.cred] <= e.version
      BY <2>1, AdmitFacts
    <3>2. cutoff' = Oldest /\ ran' = ran \union {e}
      BY <2>1, <3>1 DEF Admit
    <3>3. Oldest >= cutoff
      BY OldestBounds, ReplayAssumption DEF ReplayInv, ReplayTypeOK
    <3>4. ASSUME NEW d \in ran, d.cred = e.cred PROVE d.version <= e.version
      <4>1. d.version <= pin[e.cred]
        BY <3>4 DEF ReplayInv, PinCovers
      <4>2. d.version \in {1, 2} /\ e.version \in {1, 2} /\ pin[e.cred] \in {1, 2}
        BY DEF ReplayInv, ReplayTypeOK, Envelopes, Versions
      <4> QED
        BY <3>1, <4>1, <4>2
    <3> QED
      BY <3>2, <3>3, <3>4
  <2>2. CASE ~Admit
    <3>1. UNCHANGED <<cutoff, ran>> /\ cutoff \in Nat
      BY <2>2, OnlyAdmitMoves DEF ReplayInv, ReplayTypeOK
    <3> QED
      BY <3>1
  <2> QED
    BY <2>1, <2>2
<1>2. ReplayInv /\ [ReplayNext]_replayVars => [Onward]_replayVars
  BY <1>1
<1> QED
  BY ReplayInvariance, <1>2, PTL DEF ReplaySpec, NoWayBack

(* A request fresh by a clock that was never set back is not turned away for   *)
(* its timestamp: pruning for other credentials does not reach it.             *)
THEOREM SteadyClock == ReplaySpec => SteadyClockRefusesNone
<1> DEFINE Steady == queue # <<>> /\ clock >= latest /\ Fresh(Head(queue).stamp) =>
                       answer' # "invalid_metadata"
<1>1. ReplayInv /\ [ReplayNext]_replayVars => [Steady]_replayVars
  <2> SUFFICES ASSUME ReplayInv, ReplayNext, queue # <<>>, clock >= latest, Fresh(Head(queue).stamp)
               PROVE  answer' # "invalid_metadata"
    OBVIOUS
  <2>1. CASE Refuse
    <3> DEFINE e == Head(queue)
    <3>1. e \in Envelopes
      BY DEF ReplayInv, ReplayTypeOK
    <3>2. /\ e.stamp \in Nat /\ clock \in Nat /\ latest \in Nat /\ cutoff \in Nat
          /\ cutoff = 0 \/ cutoff + MaxSkew <= latest
      BY <3>1, ReplayAssumption DEF ReplayInv, ReplayTypeOK, Envelopes, CutoffTrails
    <3>3. ~(e.stamp < cutoff) /\ Fresh(e.stamp)
      BY <3>2, ReplayAssumption DEF Fresh
    <3>4. Verdict(e) # "invalid_metadata"
      BY <3>3 DEF Verdict
    <3> QED
      BY <2>1, <3>4 DEF Refuse
  <2>2. CASE ~Refuse
    BY <2>2 DEF ReplayNext, Open, Admit, ClockReads, Restart
  <2> QED
    BY <2>1, <2>2
<1> QED
  BY ReplayInvariance, <1>1, PTL DEF ReplaySpec, SteadyClockRefusesNone

(* A credential that never used version 2 is never refused its first version 2 *)
(* request for want of room.                                                   *)
THEOREM UpgradeHasRoom == ReplaySpec => UpgradeFindsRoom
<1> DEFINE HasRoom ==
      queue # <<>> /\ Head(queue).version = 2 /\ pin[Head(queue).cred] = 1 =>
        answer' # "capacity"
<1>1. ReplayInv /\ [ReplayNext]_replayVars => [HasRoom]_replayVars
  <2> SUFFICES ASSUME ReplayInv, ReplayNext, queue # <<>>,
                      Head(queue).version = 2, pin[Head(queue).cred] = 1
               PROVE  answer' # "capacity"
    OBVIOUS
  <2>1. CASE Refuse
    <3> DEFINE e == Head(queue)
    <3>1. \A r \in Pruned : r.cred = e.cred => r.version = 1
      <4> SUFFICES ASSUME NEW r \in Pruned, r.cred = e.cred PROVE r.version = 1
        OBVIOUS
      <4>1. r \in kept /\ r.version \in {1, 2}
        BY DEF Pruned, ReplayInv, ReplayTypeOK, Envelopes, Versions
      <4> QED
        BY <4>1 DEF ReplayInv, PinCovers
    <3>2. RowsOf(e.cred, Released(e)) = {}
      BY <3>1 DEF Released, RowsOf
    <3>3. ~Full(e)
      BY <3>2, FS_EmptySet, ReplayAssumption DEF Full
    <3>4. Verdict(e) # "capacity"
      BY <3>3 DEF Verdict
    <3> QED
      BY <2>1, <3>4 DEF Refuse
  <2>2. CASE ~Refuse
    BY <2>2 DEF ReplayNext, Open, Admit, ClockReads, Restart
  <2> QED
    BY <2>1, <2>2
<1> QED
  BY ReplayInvariance, <1>1, PTL DEF ReplaySpec, UpgradeFindsRoom

-----------------------------------------------------------------------------
(* FILES (ChunkedUpload)                                                      *)

Job == [pc: Phases, id: Ids, base: 0..Size, body: Data(Requests), out: SUBSET Write, age: Ages]

(* The phases of a request that has an upload in hand, or makes one.           *)
Holding == {"writing", "undo", "release", "judging", "judged", "published"}
Claiming == Holding \union {"filed"}
Claims(r, u) == jobs[r].pc \in Claiming /\ jobs[r].id = u

(* How much of a body is in the file: all but what the pool has.               *)
Landed(job) == IF job.out = {} THEN Len(job.body) ELSE Len(job.body) - 1

(* What a file that no late write changed has to begin with.                   *)
Sound(file) == file.there /\ ~file.strayed

(* Of a request r, the entry up of its upload and the two files of it.         *)
JobOK(r, job, up, file, st) ==
  /\ job.out # {} => /\ job.pc = "writing" /\ job.body # <<>>
                     /\ job.out = {[id |-> job.id, at |-> job.base + Len(job.body) - 1, byte |-> r]}
  /\ job.pc = "filed" => ~up.there
  /\ job.pc \in Claiming \ {"published"} => ~st.there
  /\ job.pc \in Holding /\ up.there => up.busy
  /\ job.pc \in {"writing", "undo"} /\ up.there => job.base = up.received
  /\ job.pc = "writing" => /\ \A i \in 1..Len(job.body) : job.body[i] = r
                           /\ job.base + Len(job.body) <= Size
                           /\ Sound(file) => \A i \in 1..Landed(job) :
                                job.base + i <= Len(file.data) /\ file.data[job.base + i] = r
  /\ job.pc \in {"writing", "undo", "release"} =>
       job.base + Len(job.body) <= Size /\ Len(job.body) <= Chunk
  /\ job.pc \in {"judging", "judged"} => /\ Len(job.body) = Size
                                         /\ Sound(file) => Begins(file.data, job.body)

UploadOK(up, file, st) ==
  /\ up.there => Len(up.taken) = up.received
  /\ up.there /\ Sound(file) => Begins(file.data, up.taken)
  /\ ~file.there => file = NoFile
  /\ ~st.there => st = NoFile
  /\ Sound(st) => st.data = st.taken /\ Len(st.taken) = Size

Typed ==
  /\ uploads \in [Ids -> Upload \union {None}]
  /\ partial \in [Ids -> File] /\ stored \in [Ids -> File]
  /\ jobs \in [Requests -> Job]
  /\ late \subseteq Write /\ \A w \in late : w.at < Size

Alone == \A u \in Ids : \A r, s \in Requests : Claims(r, u) /\ Claims(s, u) => r = s

(* A finished file's upload is done, or about to be.                           *)
Finishes ==
  \A u \in Ids : Has(u) /\ stored[u].there =>
    uploads[u].done \/ \E r \in Requests : Claims(r, u) /\ jobs[r].pc = "published"

IInv ==
  /\ Typed /\ Alone /\ Finishes
  /\ \A u \in Ids : UploadOK(uploads[u], partial[u], stored[u])
  /\ \A r \in Requests :
       LET u == jobs[r].id IN JobOK(r, jobs[r], uploads[u], partial[u], stored[u])

-----------------------------------------------------------------------------
(* FILES                                                                      *)

LEMMA Sizes ==
  /\ Size \in Nat /\ Size >= 1 /\ Chunk \in Nat /\ Chunk >= 1 /\ IdleTtl \in Nat
  /\ 0 \in Ages /\ \A age \in Ages : Older(age) \in Ages
BY UploadAssumption DEF Ages, Older, Least

LEMMA DataIs ==
  ASSUME NEW S, NEW d
  PROVE  d \in Data(S) <=> d \in Seq(S) /\ Len(d) <= Size
<1>1. ASSUME d \in Data(S) PROVE d \in Seq(S) /\ Len(d) <= Size
  <2>1. PICK n \in 0..Size : d \in [1..n -> S]
    BY <1>1 DEF Data
  <2> QED BY <2>1, Sizes
<1>2. ASSUME d \in Seq(S), Len(d) <= Size PROVE d \in Data(S)
  <2>1. Len(d) \in 0..Size /\ d \in [1..Len(d) -> S]
    BY <1>2, LenProperties, Sizes
  <2> QED BY <2>1 DEF Data
<1> QED BY <1>1, <1>2

LEMMA MadeData ==
  ASSUME NEW S, NEW n \in 0..Size, NEW d \in [1..n -> S]
  PROVE  d \in Data(S) /\ d \in Seq(S) /\ Len(d) = n
<1>1. d \in Seq(S) /\ Len(d) = n
  BY Sizes
<1> QED BY <1>1, DataIs, Sizes

LEMMA BeginsIs ==
  ASSUME NEW S, NEW a \in Seq(S), NEW T, NEW b \in Seq(T)
  PROVE  Begins(a, b) <=> Len(a) >= Len(b) /\ \A i \in 1..Len(b) : a[i] = b[i]
<1>0. Len(a) \in Nat /\ Len(b) \in Nat
  BY LenProperties
<1>1. ASSUME Len(a) >= Len(b)
      PROVE  SubSeq(a, 1, Len(b)) = b <=> \A i \in 1..Len(b) : a[i] = b[i]
  <2> DEFINE c == SubSeq(a, 1, Len(b))
  <2>1. \A i \in 1..Len(b) : a[i] \in S
    BY <1>0, <1>1, ElementOfSeq
  <2>2. c \in Seq(S) /\ Len(c) = Len(b) /\ \A i \in 1..Len(b) : c[i] = a[i]
    BY <1>0, <2>1, SubSeqProperties
  <2> HIDE DEF c
  <2>3. c \in Seq(S \union T) /\ b \in Seq(S \union T)
    BY <2>2, SeqMonotonic
  <2> QED BY <2>2, <2>3, SeqEqual DEF c
<1> QED BY <1>1 DEF Begins

(* What a file is, and how long.                                              *)
LEMMA FileData ==
  ASSUME NEW file \in File
  PROVE  /\ file.data \in Data(Requests \union {Zero}) /\ file.data \in Seq(Requests \union {Zero})
         /\ Len(file.data) \in 0..Size
         /\ file.taken \in Data(Requests) /\ file.taken \in Seq(Requests)
<1>1. file.data \in Data(Requests \union {Zero}) /\ file.taken \in Data(Requests)
  BY DEF File
<1>2. file.data \in Seq(Requests \union {Zero}) /\ Len(file.data) <= Size /\ file.taken \in Seq(Requests)
  BY <1>1, DataIs
<1> QED BY <1>1, <1>2, LenProperties, Sizes

LEMMA WrittenIs ==
  ASSUME NEW file \in File, NEW w \in Write, w.at < Size
  PROVE  LET e == Written(file, w) IN
         /\ e \in File /\ e.there = file.there /\ e.strayed = file.strayed /\ e.taken = file.taken
         /\ Len(e.data) = Longest(Len(file.data), w.at + 1)
         /\ \A i \in 1..Len(e.data) :
              e.data[i] = IF i = w.at + 1 THEN w.byte ELSE IF i <= Len(file.data) THEN file.data[i] ELSE Zero
<1> DEFINE n == Longest(Len(file.data), w.at + 1)
           d == [i \in 1..n |-> IF i = w.at + 1 THEN w.byte ELSE IF i <= Len(file.data) THEN file.data[i] ELSE Zero]
<1>1. w.at \in Nat /\ w.byte \in Requests
  BY Sizes DEF Write
<1>2. n \in 0..Size
  BY <1>1, FileData, Sizes DEF Longest
<1>3. d \in [1..n -> Requests \union {Zero}]
  BY <1>1, <1>2, FileData, ElementOfSeq
<1>4. d \in Data(Requests \union {Zero}) /\ Len(d) = n
  <2> HIDE DEF n, d
  <2> QED BY <1>2, <1>3, MadeData
<1>5. Written(file, w) = [file EXCEPT !.age = 0, !.data = d]
  BY DEF Written
<1>6. \A i \in 1..n : d[i] = IF i = w.at + 1 THEN w.byte ELSE IF i <= Len(file.data) THEN file.data[i] ELSE Zero
  OBVIOUS
<1> HIDE DEF d, n
<1>7. LET e == [file EXCEPT !.age = 0, !.data = d] IN
      e \in File /\ e.there = file.there /\ e.strayed = file.strayed /\ e.taken = file.taken /\ e.data = d
  BY <1>4, Sizes DEF File
<1> QED BY <1>4, <1>5, <1>6, <1>7 DEF n

LEMMA TruncatedIs ==
  ASSUME NEW file \in File, NEW n \in 0..Size
  PROVE  LET e == Truncated(file, n) IN
         /\ e \in File /\ e.there = file.there /\ e.strayed = file.strayed /\ e.taken = file.taken
         /\ Len(e.data) = n
         /\ \A i \in 1..n : e.data[i] = IF i <= Len(file.data) THEN file.data[i] ELSE Zero
<1> DEFINE d == [i \in 1..n |-> IF i <= Len(file.data) THEN file.data[i] ELSE Zero]
<1>1. d \in [1..n -> Requests \union {Zero}]
  BY FileData, ElementOfSeq, Sizes
<1>2. d \in Data(Requests \union {Zero}) /\ Len(d) = n
  <2> HIDE DEF d
  <2> QED BY <1>1, MadeData
<1>3. Truncated(file, n) = [file EXCEPT !.age = 0, !.data = d]
  BY DEF Truncated
<1>4. \A i \in 1..n : d[i] = IF i <= Len(file.data) THEN file.data[i] ELSE Zero
  OBVIOUS
<1> HIDE DEF d
<1>5. LET e == [file EXCEPT !.age = 0, !.data = d] IN
      e \in File /\ e.there = file.there /\ e.strayed = file.strayed /\ e.taken = file.taken /\ e.data = d
  BY <1>2, Sizes DEF File
<1> QED BY <1>2, <1>3, <1>4, <1>5

(* A file that is whole later was whole before, and begins with what it was.   *)
Grown(file, file2) ==
  Sound(file2) => /\ Sound(file) /\ Len(file2.data) >= Len(file.data)
                  /\ \A i \in 1..Len(file.data) : file2.data[i] = file.data[i]

LEMMA GrownStill ==
  ASSUME NEW file \in File
  PROVE  Grown(file, file) /\ Grown(file, NoFile)
<1>1. Len(file.data) \in Nat
  BY FileData, Sizes
<1> QED BY <1>1 DEF Grown, Sound, NoFile

LEMMA BeginsLater ==
  ASSUME NEW file \in File, NEW file2 \in File, Grown(file, file2), Sound(file2),
         NEW b \in Seq(Requests), Begins(file.data, b)
  PROVE  Begins(file2.data, b)
<1>1. /\ file.data \in Seq(Requests \union {Zero}) /\ file2.data \in Seq(Requests \union {Zero})
      /\ Len(file.data) \in Nat /\ Len(file2.data) \in Nat /\ Len(b) \in Nat
  BY FileData, LenProperties, Sizes
<1>2. Len(file.data) >= Len(b) /\ \A i \in 1..Len(b) : file.data[i] = b[i]
  BY <1>1, BeginsIs
<1>3. Len(file2.data) >= Len(b) /\ \A i \in 1..Len(b) : file2.data[i] = b[i]
  BY <1>1, <1>2 DEF Grown
<1> QED BY <1>1, <1>3, BeginsIs

LEMMA NoFileIs == NoFile \in File /\ ~NoFile.there
<1>1. <<>> \in Data(Requests) /\ <<>> \in Data(Requests \union {Zero})
  <2>1. ASSUME NEW S PROVE <<>> \in Data(S)
    <3>1. <<>> \in Seq(S) /\ Len(<<>>) = 0
      OBVIOUS
    <3>2. Len(<<>>) <= Size
      BY Sizes
    <3> QED BY <3>1, <3>2, DataIs, Zenon
  <2> QED BY <2>1
<1> QED BY <1>1, Sizes DEF NoFile, File

LEMMA BeginsEmpty ==
  ASSUME NEW file \in File
  PROVE  Begins(file.data, <<>>)
<1> DEFINE none == NoFile.taken
           d == file.data
<1>1. none \in Seq(Requests) /\ Len(none) = 0
  <2>1. none \in Seq(Requests)
    BY NoFileIs, FileData
  <2>2. none = <<>>
    BY DEF NoFile
  <2> QED BY <2>1, <2>2
<1>2. d \in Seq(Requests \union {Zero}) /\ Len(d) \in Nat
  BY FileData, Sizes
<1> HIDE DEF none, d
<1>3. Len(d) >= Len(none) /\ \A i \in 1..Len(none) : d[i] = none[i]
  BY <1>1, <1>2
<1>4. Begins(d, none)
  BY <1>1, <1>2, <1>3, BeginsIs
<1> QED BY <1>4 DEF none, d, NoFile

(* A late write.                                                              *)
LEMMA StraysIs ==
  ASSUME NEW file \in File, ~file.there => file = NoFile, NEW w \in Write, w.at < Size
  PROVE  LET e == Strays(file, w) IN
         /\ e \in File /\ e.there = file.there /\ e.taken = file.taken
         /\ ~file.there => e = NoFile
         /\ Grown(file, e)
<1> DEFINE g == Reached(file, w)
           b == (file.strayed \/ (w.at < Len(file.data) /\ file.data[w.at + 1] # w.byte))
           e == [g EXCEPT !.strayed = (g.strayed \/ (w.at < Len(file.data) /\ file.data[w.at + 1] # w.byte))]
<1>0. w.at \in Nat /\ file.strayed \in BOOLEAN /\ file.there \in BOOLEAN
  BY Sizes DEF Write, File
<1>1. Strays(file, w) = e
  BY DEF Strays
<1>2. CASE ~file.there
  <2>1. file = NoFile /\ g = NoFile
    BY <1>2 DEF Reached
  <2>2. ~(w.at < Len(file.data)) /\ ~file.strayed
    BY <1>0, <2>1 DEF NoFile
  <2>3. e = NoFile
    <3> DEFINE c == (g.strayed \/ (w.at < Len(file.data) /\ file.data[w.at + 1] # w.byte))
    <3>1. ~c
      BY <2>1, <2>2 DEF NoFile
    <3>2. [NoFile EXCEPT !.strayed = FALSE] = NoFile
      <4> DEFINE f == NoFile
      <4>1. f \in File /\ f.strayed = FALSE
        BY NoFileIs DEF NoFile
      <4> HIDE DEF f
      <4>2. [f EXCEPT !.strayed = FALSE] = f
        BY <4>1 DEF File
      <4> QED BY <4>2 DEF f
    <3>3. e = [g EXCEPT !.strayed = c]
      OBVIOUS
    <3>4. c \in BOOLEAN
      OBVIOUS
    <3> HIDE DEF c, g, e
    <3>5. c = FALSE
      BY <3>1, <3>4
    <3> QED BY <2>1, <3>2, <3>3, <3>5
  <2> QED BY <1>1, <1>2, <2>1, <2>3, NoFileIs DEF Grown, Sound
<1>3. CASE file.there
  <2>1. g = Written(file, w)
    BY <1>3 DEF Reached
  <2>2. /\ g \in File /\ g.there = file.there /\ g.strayed = file.strayed /\ g.taken = file.taken
        /\ Len(g.data) = Longest(Len(file.data), w.at + 1)
        /\ \A i \in 1..Len(g.data) :
             g.data[i] = IF i = w.at + 1 THEN w.byte ELSE IF i <= Len(file.data) THEN file.data[i] ELSE Zero
    BY <2>1, WrittenIs
  <2> HIDE DEF g
  <2>3. e = [g EXCEPT !.strayed = b] /\ b \in BOOLEAN
    BY <1>0, <2>2
  <2>4. b => (file.strayed \/ (w.at < Len(file.data) /\ file.data[w.at + 1] # w.byte))
    OBVIOUS
  <2>5. ~b => ~file.strayed /\ ~(w.at < Len(file.data) /\ file.data[w.at + 1] # w.byte)
    OBVIOUS
  <2> HIDE DEF b
  <2>6. e \in File /\ e.there = file.there /\ e.taken = file.taken /\ e.data = g.data /\ e.strayed = b
    BY <2>2, <2>3 DEF File
  <2> HIDE DEF e
  <2>7. ASSUME Sound(e) PROVE /\ Sound(file) /\ Len(e.data) >= Len(file.data)
                              /\ \A i \in 1..Len(file.data) : e.data[i] = file.data[i]
    <3>1. ~b
      BY <2>6, <2>7 DEF Sound
    <3>2. ~file.strayed /\ (w.at < Len(file.data) => file.data[w.at + 1] = w.byte)
      BY <2>5, <3>1
    <3>3. Len(file.data) \in Nat
      BY FileData, Sizes
    <3>4. Len(e.data) >= Len(file.data)
      BY <1>0, <2>2, <2>6, <3>3 DEF Longest
    <3>5. ASSUME NEW i \in 1..Len(file.data) PROVE e.data[i] = file.data[i]
      BY <1>0, <2>2, <2>6, <3>2, <3>3, <3>4
    <3> QED BY <1>3, <3>2, <3>4, <3>5 DEF Sound
  <2> QED BY <1>1, <1>3, <2>6, <2>7 DEF Grown, e
<1> QED BY <1>0, <1>2, <1>3

-----------------------------------------------------------------------------
(* STEPS                                                                      *)

(* An entry that is there later was there before, and says no less.            *)
Less(up, up2) ==
  up2.there => /\ up.there /\ up2.received = up.received /\ up2.taken = up.taken
               /\ (up.busy => up2.busy) /\ (up.done => up2.done)

(* A request that is where it was, or has no upload in hand any more.          *)
Kept1(job, job2) ==
  \/ /\ job2.pc = job.pc /\ job2.id = job.id /\ job2.base = job.base
     /\ job2.body = job.body /\ job2.out = job.out
  \/ job2.pc \notin Claiming /\ job2.out = {}

LEMMA JobStays ==
  ASSUME NEW r, NEW job \in Job, NEW job2 \in Job, Kept1(job, job2),
         NEW up, NEW up2, Less(up, up2),
         NEW file \in File, NEW file2 \in File, Grown(file, file2),
         NEW st, NEW st2, st2.there => st.there,
         JobOK(r, job, up, file, st)
  PROVE  JobOK(r, job2, up2, file2, st2)
<1>1. CASE job2.pc \notin Claiming /\ job2.out = {}
  BY <1>1 DEF JobOK, Claiming, Holding
<1>2. CASE /\ job2.pc = job.pc /\ job2.id = job.id /\ job2.base = job.base
           /\ job2.body = job.body /\ job2.out = job.out
  <2>0. /\ Len(file.data) \in Nat /\ Len(file2.data) \in Nat /\ Len(job.body) \in Nat
        /\ job.body \in Seq(Requests) /\ job.base \in Nat
    BY FileData, DataIs, Sizes, LenProperties DEF Job
  <2>1. job.pc = "writing" /\ Sound(file2) => \A i \in 1..Landed(job) :
           job.base + i <= Len(file2.data) /\ file2.data[job.base + i] = r
    <3> SUFFICES ASSUME job.pc = "writing", Sound(file2), NEW i \in 1..Landed(job)
                 PROVE  job.base + i <= Len(file2.data) /\ file2.data[job.base + i] = r
      OBVIOUS
    <3>1. Sound(file) /\ Len(file2.data) >= Len(file.data)
          /\ \A k \in 1..Len(file.data) : file2.data[k] = file.data[k]
      BY DEF Grown
    <3>2. job.base + i <= Len(file.data) /\ file.data[job.base + i] = r
      BY <3>1 DEF JobOK
    <3>3. i \in Nat /\ i >= 1
      BY <2>0 DEF Landed
    <3> QED BY <2>0, <3>1, <3>2, <3>3
  <2>2. job.pc \in {"judging", "judged"} /\ Sound(file2) => Begins(file2.data, job.body)
    BY <2>0, BeginsLater DEF JobOK, Grown
  <2>3. Landed(job2) = Landed(job)
    BY <1>2 DEF Landed
  <2> QED BY <1>2, <2>1, <2>2, <2>3 DEF JobOK, Less, Claiming, Holding
<1> QED BY <1>1, <1>2 DEF Kept1

LEMMA UploadIs ==
  ASSUME NEW up \in Upload \union {None}, up.there
  PROVE  /\ up \in Upload /\ up.received \in 0..Size /\ up.busy \in BOOLEAN /\ up.done \in BOOLEAN
         /\ up.age \in Ages /\ up.taken \in Data(Requests) /\ up.taken \in Seq(Requests)
<1>1. up # None
  BY DEF None
<1>2. up \in Upload
  BY <1>1
<1>3. up.received \in 0..Size /\ up.busy \in BOOLEAN /\ up.done \in BOOLEAN /\ up.age \in Ages /\ up.taken \in Data(Requests)
  BY <1>2 DEF Upload
<1> QED BY <1>2, <1>3, DataIs

LEMMA UploadStays ==
  ASSUME NEW up \in Upload \union {None}, NEW up2, Less(up, up2),
         NEW file \in File, NEW file2 \in File, Grown(file, file2), ~file2.there => file2 = NoFile,
         NEW st, UploadOK(up, file, st)
  PROVE  UploadOK(up2, file2, st)
<1>1. up.there => up.taken \in Seq(Requests)
  BY UploadIs
<1>2. up2.there /\ Sound(file2) => Begins(file2.data, up2.taken)
  BY <1>1, BeginsLater DEF UploadOK, Less, Grown
<1> QED BY <1>2 DEF UploadOK, Less

(* Nobody takes up an upload, and nothing is written but late.                 *)
LEMMA NobodyStep ==
  ASSUME IInv, Typed', stored' = stored,
         \A r \in Requests : Kept1(jobs[r], jobs'[r]),
         \A u \in Ids : /\ Less(uploads[u], uploads'[u]) /\ Grown(partial[u], partial'[u])
                        /\ ~partial'[u].there => partial'[u] = NoFile,
         \A u \in Ids : \A r \in Requests :
           Claims(r, u) /\ jobs[r].pc = "published" /\ uploads'[u].there => Claims(r, u)' /\ jobs'[r].pc = "published"
  PROVE  IInv'
<1>1. Typed /\ Alone /\ Finishes
  BY DEF IInv
<1>2. ASSUME NEW r \in Requests
      PROVE  LET u == jobs'[r].id IN JobOK(r, jobs'[r], uploads'[u], partial'[u], stored'[u])
  <2> DEFINE u == jobs'[r].id
  <2>1. jobs[r] \in Job /\ jobs'[r] \in Job /\ u \in Ids /\ jobs[r].id \in Ids
    BY <1>1 DEF Typed, Job
  <2>2. CASE jobs'[r].pc \notin Claiming /\ jobs'[r].out = {}
    BY <2>2 DEF JobOK, Claiming, Holding
  <2>3. CASE ~(jobs'[r].pc \notin Claiming /\ jobs'[r].out = {})
    <3>1. Kept1(jobs[r], jobs'[r]) /\ u = jobs[r].id
      BY <2>3 DEF Kept1
    <3>2. JobOK(r, jobs[r], uploads[u], partial[u], stored[u])
      BY <3>1 DEF IInv
    <3>3. partial[u] \in File /\ partial'[u] \in File
      BY <1>1, <2>1 DEF Typed
    <3>4. Less(uploads[u], uploads'[u]) /\ Grown(partial[u], partial'[u])
      BY <2>1
    <3>5. JobOK(r, jobs'[r], uploads'[u], partial'[u], stored[u])
      BY <2>1, <3>1, <3>2, <3>3, <3>4, JobStays
    <3> QED BY <3>5
  <2> QED BY <2>2, <2>3
<1>3. ASSUME NEW u \in Ids PROVE UploadOK(uploads'[u], partial'[u], stored'[u])
  <2>1. /\ uploads[u] \in Upload \union {None} /\ partial[u] \in File /\ partial'[u] \in File
        /\ UploadOK(uploads[u], partial[u], stored[u])
    BY <1>1 DEF Typed, IInv
  <2> QED BY <2>1, UploadStays
<1>4. \A r \in Requests : \A u \in Ids : Claims(r, u)' => Claims(r, u)
  BY DEF Claims, Kept1
<1>5. Alone'
  BY <1>1, <1>4 DEF Alone
<1>6. Finishes'
  BY <1>1 DEF Finishes, Less, Has
<1> QED BY <1>2, <1>3, <1>5, <1>6 DEF IInv

(* One request r alone is at work on u, or begins with it.                     *)
LEMMA OneStep ==
  ASSUME IInv, Typed', NEW r \in Requests, NEW u \in Ids,
         \A s \in Requests : s # r => Kept1(jobs[s], jobs'[s]) /\ (jobs[s].pc = "published" => jobs'[s] = jobs[s])
                                      /\ ~Claims(s, u),
         jobs[r].pc \in Claiming => jobs[r].id = u,
         jobs'[r].pc \in Claiming => jobs'[r].id = u,
         LET v == jobs'[r].id IN JobOK(r, jobs'[r], uploads'[v], partial'[v], stored'[v]),
         UploadOK(uploads'[u], partial'[u], stored'[u]),
         uploads'[u].there /\ stored'[u].there => uploads'[u].done \/ (jobs'[r].pc = "published" /\ jobs'[r].id = u),
         \A v \in Ids : v # u => /\ stored'[v] = stored[v]
                                 /\ Less(uploads[v], uploads'[v]) /\ Grown(partial[v], partial'[v])
                                 /\ ~partial'[v].there => partial'[v] = NoFile
  PROVE  IInv'
<1>1. Typed /\ Alone /\ Finishes
  BY DEF IInv
<1>2. ASSUME NEW s \in Requests
      PROVE  LET v == jobs'[s].id IN JobOK(s, jobs'[s], uploads'[v], partial'[v], stored'[v])
  <2> DEFINE v == jobs'[s].id
  <2>1. jobs[s] \in Job /\ jobs'[s] \in Job /\ v \in Ids /\ jobs[s].id \in Ids
    BY <1>1 DEF Typed, Job
  <2>2. CASE s = r
    BY <2>2
  <2>3. CASE jobs'[s].pc \notin Claiming /\ jobs'[s].out = {}
    BY <2>3 DEF JobOK, Claiming, Holding
  <2>4. CASE s # r /\ ~(jobs'[s].pc \notin Claiming /\ jobs'[s].out = {})
    <3>0. Kept1(jobs[s], jobs'[s]) /\ ~Claims(s, u)
      BY <2>4
    <3>1. v = jobs[s].id /\ jobs'[s].pc = jobs[s].pc /\ jobs'[s].out = jobs[s].out
      BY <2>4, <3>0 DEF Kept1
    <3>2. JobOK(s, jobs[s], uploads[v], partial[v], stored[v])
      BY <3>1 DEF IInv
    <3>3. jobs[s].pc \in Claiming
      BY <2>4, <3>1, <3>2 DEF JobOK, Claiming, Holding
    <3>4. v # u
      BY <3>0, <3>1, <3>3 DEF Claims
    <3>5. partial[v] \in File /\ partial'[v] \in File
      BY <1>1, <2>1 DEF Typed
    <3>6. Less(uploads[v], uploads'[v]) /\ Grown(partial[v], partial'[v]) /\ stored'[v] = stored[v]
      BY <2>1, <3>4
    <3>7. JobOK(s, jobs'[s], uploads'[v], partial'[v], stored[v])
      <4>1. jobs[s] \in Job /\ jobs'[s] \in Job /\ Kept1(jobs[s], jobs'[s])
        BY <2>1, <3>0
      <4>2. JobOK(s, jobs[s], uploads[v], partial[v], stored[v])
        BY <3>2
      <4>3. stored[v].there => stored[v].there
        OBVIOUS
      <4> HIDE DEF v
      <4> QED BY <3>5, <3>6, <4>1, <4>2, <4>3, JobStays
    <3> QED BY <3>6, <3>7
  <2> QED BY <2>2, <2>3, <2>4
<1>3. ASSUME NEW v \in Ids PROVE UploadOK(uploads'[v], partial'[v], stored'[v])
  <2>1. /\ uploads[v] \in Upload \union {None} /\ partial[v] \in File /\ partial'[v] \in File
        /\ UploadOK(uploads[v], partial[v], stored[v])
    BY <1>1 DEF Typed, IInv
  <2>2. CASE v = u
    BY <2>2
  <2>3. CASE v # u
    <3>1. UploadOK(uploads'[v], partial'[v], stored[v])
      BY <2>1, <2>3, UploadStays
    <3> QED BY <2>3, <3>1
  <2> QED BY <2>2, <2>3
<1>4. \A s \in Requests : \A v \in Ids : s # r /\ Claims(s, v)' => Claims(s, v) /\ v # u
  BY DEF Claims, Kept1
<1>5. \A v \in Ids : Claims(r, v)' => v = u
  BY DEF Claims
<1>6. Alone'
  BY <1>1, <1>4, <1>5 DEF Alone
<1>7. ASSUME NEW v \in Ids, Has(v)', stored'[v].there
      PROVE  uploads'[v].done \/ \E s \in Requests : Claims(s, v)' /\ jobs'[s].pc = "published"
  <2>1. CASE v = u
    BY <1>7, <2>1 DEF Has, Claims, Claiming, Holding
  <2>2. CASE v # u
    <3>1. Has(v) /\ stored[v].there /\ (uploads[v].done => uploads'[v].done)
      BY <1>7, <2>2 DEF Has, Less
    <3>2. uploads[v].done \/ \E s \in Requests : Claims(s, v) /\ jobs[s].pc = "published"
      BY <1>1, <3>1 DEF Finishes
    <3>3. ASSUME NEW s \in Requests, Claims(s, v), jobs[s].pc = "published"
          PROVE  s # r /\ jobs'[s] = jobs[s]
      BY <2>2, <3>3 DEF Claims
    <3> QED BY <3>1, <3>2, <3>3 DEF Claims
  <2> QED BY <2>1, <2>2
<1>8. Finishes'
  BY <1>7 DEF Finishes
<1> QED BY <1>2, <1>3, <1>6, <1>8 DEF IInv

(* The same, where nothing else changes at all.                               *)
LEMMA OwnStep ==
  ASSUME IInv, Typed', NEW r \in Requests, NEW u \in Ids, NEW job2,
         jobs' = [jobs EXCEPT ![r] = job2],
         \A s \in Requests : s # r => ~Claims(s, u),
         jobs[r].pc \in Claiming => jobs[r].id = u,
         \/ job2.pc \notin Claiming /\ job2.out = {}
         \/ job2.id = u /\ JobOK(r, job2, uploads'[u], partial'[u], stored'[u]),
         UploadOK(uploads'[u], partial'[u], stored'[u]),
         uploads'[u].there /\ stored'[u].there => uploads'[u].done \/ (job2.pc = "published" /\ job2.id = u),
         \A v \in Ids : v # u => stored'[v] = stored[v] /\ uploads'[v] = uploads[v] /\ partial'[v] = partial[v]
  PROVE  IInv'
<1>1. Typed /\ jobs[r] \in Job
  BY DEF IInv, Typed
<1>2. jobs'[r] = job2 /\ \A s \in Requests : s # r => jobs'[s] = jobs[s]
  BY <1>1 DEF Typed
<1>3. \A s \in Requests : s # r => Kept1(jobs[s], jobs'[s])
  BY <1>2 DEF Kept1
<1>4. LET v == jobs'[r].id IN JobOK(r, jobs'[r], uploads'[v], partial'[v], stored'[v])
  <2>1. CASE job2.pc \notin Claiming /\ job2.out = {}
    BY <1>2, <2>1 DEF JobOK, Claiming, Holding
  <2>2. CASE job2.id = u /\ JobOK(r, job2, uploads'[u], partial'[u], stored'[u])
    BY <1>2, <2>2
  <2> QED BY <2>1, <2>2
<1>5. ASSUME NEW v \in Ids, v # u
      PROVE  /\ stored'[v] = stored[v]
             /\ Less(uploads[v], uploads'[v]) /\ Grown(partial[v], partial'[v])
             /\ ~partial'[v].there => partial'[v] = NoFile
  <2>1. partial[v] \in File /\ UploadOK(uploads[v], partial[v], stored[v])
    BY DEF IInv, Typed
  <2> QED BY <1>5, <2>1, GrownStill DEF Less, UploadOK
<1>6. jobs'[r].pc \in Claiming => jobs'[r].id = u
  BY <1>2
<1>7. \A s \in Requests : s # r => Kept1(jobs[s], jobs'[s]) /\ (jobs[s].pc = "published" => jobs'[s] = jobs[s]) /\ ~Claims(s, u)
  BY <1>2, <1>3
<1>8. /\ jobs[r].pc \in Claiming => jobs[r].id = u
      /\ UploadOK(uploads'[u], partial'[u], stored'[u])
      /\ uploads'[u].there /\ stored'[u].there =>
           uploads'[u].done \/ (jobs'[r].pc = "published" /\ jobs'[r].id = u)
  BY <1>2
<1> QED BY <1>4, <1>5, <1>6, <1>7, <1>8, OneStep

(* What is known of a request that has an upload in hand.                      *)
LEMMA InHand ==
  ASSUME IInv, NEW r \in Requests, jobs[r].pc \in Claiming
  PROVE  LET job == jobs[r]  u == job.id IN
         /\ u \in Ids /\ job \in Job
         /\ \A s \in Requests : s # r => ~Claims(s, u)
         /\ JobOK(r, job, uploads[u], partial[u], stored[u])
         /\ UploadOK(uploads[u], partial[u], stored[u])
         /\ uploads[u] \in Upload \union {None} /\ partial[u] \in File /\ stored[u] \in File
         /\ uploads[u].there /\ stored[u].there => uploads[u].done \/ job.pc = "published"
<1> DEFINE u == jobs[r].id
<1>1. Typed /\ Alone /\ Finishes
  BY DEF IInv
<1>2. u \in Ids /\ jobs[r] \in Job
  BY <1>1 DEF Typed, Job
<1>3. Claims(r, u)
  BY DEF Claims
<1>4. \A s \in Requests : Claims(s, u) => s = r
  BY <1>1, <1>2, <1>3 DEF Alone
<1>5. uploads[u].there /\ stored[u].there => uploads[u].done \/ jobs[r].pc = "published"
  BY <1>1, <1>2, <1>4 DEF Finishes, Has
<1> QED BY <1>1, <1>2, <1>4, <1>5 DEF IInv, Typed

LEMMA JobIs ==
  ASSUME NEW job \in Job
  PROVE  /\ job.pc \in Phases /\ job.id \in Ids /\ job.base \in 0..Size /\ job.base \in Nat
         /\ job.body \in Data(Requests) /\ job.body \in Seq(Requests) /\ Len(job.body) \in 0..Size
         /\ Len(job.body) \in Nat /\ job.out \in SUBSET Write /\ job.age \in Ages
<1>1. /\ job.pc \in Phases /\ job.id \in Ids /\ job.base \in 0..Size
      /\ job.body \in Data(Requests) /\ job.out \in SUBSET Write /\ job.age \in Ages
  BY DEF Job
<1>2. job.body \in Seq(Requests) /\ Len(job.body) <= Size
  BY <1>1, DataIs
<1> QED BY <1>1, <1>2, LenProperties, Sizes

LEMMA IdleIs ==
  ASSUME IInv, NEW r \in Requests
  PROVE  Idle \in Job /\ Idle.pc \notin Claiming /\ Idle.out = {} /\ Idle.pc = "rest"
         /\ Idle.body = <<>> /\ Idle.base = 0
<1>1. jobs[r].id \in Ids
  BY DEF IInv, Typed, Job
<1>2. (CHOOSE u \in Ids : TRUE) \in Ids
  BY <1>1
<1>3. <<>> \in Data(Requests)
  BY NoFileIs DEF NoFile, File
<1> QED BY <1>2, <1>3, Sizes DEF Idle, Job, Phases, Claiming, Holding

-----------------------------------------------------------------------------
(* WHERE NOBODY TAKES UP AN UPLOAD                                            *)

(* An entry that is forgotten, a file that is removed.                         *)
LEMMA Forgotten ==
  ASSUME IInv, NEW u \in Ids
  PROVE  /\ Less(uploads[u], uploads[u]) /\ Less(uploads[u], None) /\ ~None.there
         /\ partial[u] \in File /\ Grown(partial[u], partial[u]) /\ Grown(partial[u], NoFile)
         /\ ~partial[u].there => partial[u] = NoFile
         /\ NoFile \in File /\ uploads[u] \in Upload \union {None}
<1>1. partial[u] \in File /\ uploads[u] \in Upload \union {None} /\ UploadOK(uploads[u], partial[u], stored[u])
  BY DEF IInv, Typed
<1> QED BY <1>1, GrownStill, NoFileIs DEF Less, None, UploadOK

LEMMA Without ==
  ASSUME IInv, NEW us
  PROVE  /\ UploadsWithout(us) \in [Ids -> Upload \union {None}] /\ FilesWithout(us) \in [Ids -> File]
         /\ \A u \in Ids : /\ Less(uploads[u], UploadsWithout(us)[u]) /\ Grown(partial[u], FilesWithout(us)[u])
                           /\ ~FilesWithout(us)[u].there => FilesWithout(us)[u] = NoFile
<1>1. \A u \in Ids : /\ UploadsWithout(us)[u] \in {uploads[u], None}
                     /\ FilesWithout(us)[u] \in {partial[u], NoFile}
  BY DEF UploadsWithout, FilesWithout, Kept
<1>2. ASSUME NEW u \in Ids
      PROVE  /\ UploadsWithout(us)[u] \in Upload \union {None} /\ FilesWithout(us)[u] \in File
             /\ Less(uploads[u], UploadsWithout(us)[u]) /\ Grown(partial[u], FilesWithout(us)[u])
             /\ ~FilesWithout(us)[u].there => FilesWithout(us)[u] = NoFile
  <2>1. UploadsWithout(us)[u] \in {uploads[u], None} /\ FilesWithout(us)[u] \in {partial[u], NoFile}
    BY <1>1
  <2> QED BY <2>1, Forgotten
<1>3. UploadsWithout(us) = [u \in Ids |-> UploadsWithout(us)[u]] /\ FilesWithout(us) = [u \in Ids |-> FilesWithout(us)[u]]
  BY DEF UploadsWithout, FilesWithout
<1> QED BY <1>2, <1>3

LEMMA CreateFailsKeeps == ASSUME IInv, CreateFails PROVE IInv'
<1>1. PICK room \in Room \union {{}} : uploads' = UploadsWithout(room) /\ partial' = FilesWithout(room)
  BY DEF CreateFails
<1>2. UNCHANGED <<stored, jobs, late>>
  BY DEF CreateFails
<1>3. /\ uploads' \in [Ids -> Upload \union {None}] /\ partial' \in [Ids -> File]
      /\ \A u \in Ids : /\ Less(uploads[u], uploads'[u]) /\ Grown(partial[u], partial'[u])
                        /\ ~partial'[u].there => partial'[u] = NoFile
  BY <1>1, Without
<1>4. Typed'
  BY <1>2, <1>3 DEF IInv, Typed
<1>5. \A r \in Requests : Kept1(jobs[r], jobs'[r])
  BY <1>2 DEF Kept1
<1>6. \A u \in Ids : \A r \in Requests : Claims(r, u) => Claims(r, u)'
  BY <1>2 DEF Claims
<1> QED BY <1>2, <1>3, <1>4, <1>5, <1>6, NobodyStep

(* A step that takes nothing up and changes only entries and partial files, of  *)
(* which it forgets and removes some.                                         *)
LEMMA DropStep ==
  ASSUME IInv, stored' = stored, late' \subseteq late,
         uploads' = [u \in Ids |-> uploads'[u]], partial' = [u \in Ids |-> partial'[u]],
         \A u \in Ids : uploads'[u] \in {uploads[u], None} /\ partial'[u] \in {partial[u], NoFile},
         jobs' \in [Requests -> Job],
         \A r \in Requests : \/ jobs'[r] = jobs[r]
                             \/ /\ jobs'[r].pc \notin Claiming /\ jobs'[r].out = {}
                                /\ jobs[r].pc # "published" \/ \A u \in Ids : ~uploads'[u].there
  PROVE  IInv'
<1>1. ASSUME NEW u \in Ids
      PROVE  /\ uploads'[u] \in Upload \union {None} /\ partial'[u] \in File
             /\ Less(uploads[u], uploads'[u]) /\ Grown(partial[u], partial'[u])
             /\ ~partial'[u].there => partial'[u] = NoFile
  <2>1. uploads'[u] \in {uploads[u], None} /\ partial'[u] \in {partial[u], NoFile}
    OBVIOUS
  <2> QED BY <2>1, Forgotten
<1>2. uploads' \in [Ids -> Upload \union {None}] /\ partial' \in [Ids -> File]
  BY <1>1
<1>3. Typed'
  BY <1>2 DEF IInv, Typed
<1>4. \A r \in Requests : Kept1(jobs[r], jobs'[r])
  BY DEF Kept1
<1>5. \A u \in Ids : \A r \in Requests :
        Claims(r, u) /\ jobs[r].pc = "published" /\ uploads'[u].there => Claims(r, u)' /\ jobs'[r].pc = "published"
  BY DEF Claims
<1> QED BY <1>1, <1>3, <1>4, <1>5, NobodyStep

LEMMA FunctionsAre ==
  ASSUME IInv
  PROVE  /\ uploads = [u \in Ids |-> uploads[u]] /\ partial = [u \in Ids |-> partial[u]]
         /\ stored = [u \in Ids |-> stored[u]] /\ jobs \in [Requests -> Job]
         /\ \A u \in Ids : uploads[u] \in Upload \union {None} /\ partial[u] \in File /\ stored[u] \in File
BY DEF IInv, Typed

LEMMA AbortBeginsKeeps ==
  ASSUME IInv, NEW r \in Requests, NEW u \in Ids, AbortBegins(r, u)
  PROVE  IInv'
<1> DEFINE job2 == [Idle EXCEPT !.pc = "aborted", !.id = u]
<1>1. /\ At(r, "rest") /\ uploads' = [uploads EXCEPT ![u] = None] /\ UNCHANGED <<partial, stored, late>>
      /\ jobs' = jobs \/ jobs' = [jobs EXCEPT ![r] = job2]
  BY DEF AbortBegins
<1>2. job2 \in Job /\ job2.pc = "aborted" /\ job2.out = {}
  BY IdleIs DEF Job, Phases
<1> HIDE DEF job2
<1>3. jobs[r].pc # "published" /\ "aborted" \notin Claiming
  BY <1>1 DEF At, Claiming, Holding
<1>4. /\ jobs' \in [Requests -> Job]
      /\ \A s \in Requests : jobs'[s] = jobs[s] \/ (s = r /\ jobs'[s] = job2)
  BY <1>1, <1>2, FunctionsAre
<1>5. /\ uploads' = [v \in Ids |-> uploads'[v]] /\ \A v \in Ids : uploads'[v] \in {uploads[v], None}
  BY <1>1, FunctionsAre
<1> QED BY <1>1, <1>2, <1>3, <1>4, <1>5, FunctionsAre, DropStep

LEMMA FileDroppedKeeps ==
  ASSUME IInv, NEW r \in Requests, FileDropped(r)
  PROVE  IInv'
<1>1. /\ jobs[r].pc \in {"aborted", "refused"} /\ jobs' = [jobs EXCEPT ![r] = Idle]
      /\ partial' = [partial EXCEPT ![jobs[r].id] = NoFile] /\ UNCHANGED <<uploads, stored, late>>
  BY DEF FileDropped, Ends, Removed
<1>2. jobs[r].pc # "published"
  BY <1>1
<1>3. /\ jobs' \in [Requests -> Job]
      /\ \A s \in Requests : jobs'[s] = jobs[s] \/ (s = r /\ jobs'[s] = Idle)
  BY <1>1, IdleIs, FunctionsAre
<1>4. /\ partial' = [v \in Ids |-> partial'[v]] /\ \A v \in Ids : partial'[v] \in {partial[v], NoFile}
  BY <1>1, FunctionsAre
<1> QED BY <1>1, <1>2, <1>3, <1>4, IdleIs, FunctionsAre, DropStep

LEMMA SweepKeeps ==
  ASSUME IInv, SweepBegins \/ SweepFiles
  PROVE  IInv'
<1>1. UNCHANGED <<stored, jobs, late>>
  BY DEF SweepBegins, SweepFiles
<1>2. /\ uploads' = [v \in Ids |-> uploads'[v]] /\ \A v \in Ids : uploads'[v] \in {uploads[v], None}
      /\ partial' = [v \in Ids |-> partial'[v]] /\ \A v \in Ids : partial'[v] \in {partial[v], NoFile}
  <2>1. CASE SweepBegins
    BY <2>1 DEF SweepBegins
  <2>2. CASE SweepFiles
    BY <2>2, FunctionsAre DEF SweepFiles
  <2> QED BY <2>1, <2>2
<1> QED BY <1>1, <1>2, FunctionsAre, DropStep

LEMMA StopKeeps == ASSUME IInv, Stop PROVE IInv'
<1>1. /\ uploads' = [u \in Ids |-> None] /\ jobs' = [r \in Requests |-> Idle] /\ late' = {}
      /\ UNCHANGED <<partial, stored>>
  BY DEF Stop
<1>2. ~None.there
  BY DEF None
<1>3. \A u \in Ids : uploads'[u] = None /\ ~uploads'[u].there
  BY <1>1, <1>2
<1>4. /\ jobs' \in [Requests -> Job] /\ \A r \in Requests : jobs'[r].pc \notin Claiming /\ jobs'[r].out = {}
  BY <1>1, IdleIs
<1>5. uploads' = [u \in Ids |-> uploads'[u]]
  BY <1>1
<1> QED BY <1>1, <1>3, <1>4, <1>5, FunctionsAre, DropStep

LEMMA CompleteBreaksOffKeeps ==
  ASSUME IInv, NEW r \in Requests, CompleteBreaksOff(r)
  PROVE  IInv'
<1>1. /\ jobs[r].pc = "judging" /\ jobs' = [jobs EXCEPT ![r] = Idle]
      /\ UNCHANGED <<uploads, partial, stored, late>>
  BY DEF CompleteBreaksOff, At, Ends
<1>2. /\ jobs' \in [Requests -> Job]
      /\ \A s \in Requests : jobs'[s] = jobs[s] \/ (s = r /\ jobs'[s] = Idle)
  BY <1>1, IdleIs, FunctionsAre
<1> QED BY <1>1, <1>2, IdleIs, FunctionsAre, DropStep

LEMMA TickKeeps == ASSUME IInv, Tick PROVE IInv'
<1>1. /\ uploads' = [u \in Ids |-> IF Has(u) THEN [uploads[u] EXCEPT !.age = Older(@)] ELSE None]
      /\ partial' = [u \in Ids |-> IF partial[u].there THEN [partial[u] EXCEPT !.age = Older(@)] ELSE NoFile]
      /\ jobs' = [r \in Requests |-> IF jobs[r].pc = "filed" THEN [jobs[r] EXCEPT !.age = Older(@)] ELSE jobs[r]]
      /\ UNCHANGED <<stored, late>>
  BY DEF Tick
<1>2. ASSUME NEW u \in Ids
      PROVE  /\ uploads'[u] \in Upload \union {None} /\ partial'[u] \in File
             /\ Less(uploads[u], uploads'[u]) /\ Grown(partial[u], partial'[u])
             /\ ~partial'[u].there => partial'[u] = NoFile
  <2>1. uploads'[u] \in Upload \union {None} /\ Less(uploads[u], uploads'[u])
    <3>1. CASE Has(u)
      <4>1. uploads[u] \in Upload /\ uploads[u].age \in Ages
        BY <3>1, FunctionsAre, UploadIs DEF Has
      <4>2. uploads'[u] = [uploads[u] EXCEPT !.age = Older(uploads[u].age)] /\ Older(uploads[u].age) \in Ages
        BY <1>1, <3>1, <4>1, Sizes
      <4> QED BY <3>1, <4>1, <4>2 DEF Upload, Less, Has
    <3>2. CASE ~Has(u)
      BY <1>1, <3>2 DEF Less, None
    <3> QED BY <3>1, <3>2
  <2>2. partial'[u] \in File /\ Grown(partial[u], partial'[u]) /\ (~partial'[u].there => partial'[u] = NoFile)
    <3>0. partial[u] \in File
      BY FunctionsAre
    <3>1. CASE partial[u].there
      <4>1. partial'[u] = [partial[u] EXCEPT !.age = Older(partial[u].age)] /\ Older(partial[u].age) \in Ages
        BY <1>1, <3>0, <3>1, Sizes DEF File
      <4>2. /\ partial'[u] \in File /\ partial'[u].there = partial[u].there
            /\ partial'[u].data = partial[u].data /\ partial'[u].strayed = partial[u].strayed
        BY <3>0, <4>1 DEF File
      <4>3. Len(partial[u].data) \in Nat
        BY <3>0, FileData, Sizes
      <4> QED BY <3>1, <4>2, <4>3 DEF Grown, Sound
    <3>2. CASE ~partial[u].there
      BY <1>1, <3>2, Forgotten
    <3> QED BY <3>1, <3>2
  <2> QED BY <2>1, <2>2
<1>3. ASSUME NEW r \in Requests
      PROVE  jobs'[r] \in Job /\ Kept1(jobs[r], jobs'[r]) /\ jobs'[r].pc = jobs[r].pc /\ jobs'[r].id = jobs[r].id
  <2>1. jobs[r] \in Job
    BY FunctionsAre
  <2>2. CASE jobs[r].pc = "filed"
    <3>1. jobs'[r] = [jobs[r] EXCEPT !.age = Older(jobs[r].age)] /\ Older(jobs[r].age) \in Ages
      BY <1>1, <2>1, <2>2, Sizes DEF Job
    <3> QED BY <2>1, <3>1 DEF Job, Kept1
  <2>3. CASE jobs[r].pc # "filed"
    BY <1>1, <2>1, <2>3 DEF Kept1
  <2> QED BY <2>2, <2>3
<1>4. Typed'
  <2>1. uploads' \in [Ids -> Upload \union {None}] /\ partial' \in [Ids -> File] /\ jobs' \in [Requests -> Job]
    BY <1>1, <1>2, <1>3
  <2> QED BY <1>1, <2>1 DEF IInv, Typed
<1>5. \A u \in Ids : \A r \in Requests : Claims(r, u) => Claims(r, u)'
  BY <1>3 DEF Claims
<1> QED BY <1>1, <1>2, <1>3, <1>4, <1>5, NobodyStep

(* A write of a request that is over: a finished file has its length already.  *)
LEMMA LateLandsKeeps == ASSUME IInv, LateLands PROVE IInv'
<1>1. PICK w \in late : /\ partial' = [partial EXCEPT ![w.id] = Strays(partial[w.id], w)]
                        /\ stored' = [stored EXCEPT ![w.id] = Strays(stored[w.id], w)]
                        /\ late' = late \ {w} /\ UNCHANGED <<uploads, jobs>>
  BY FunctionsAre DEF LateLands, IInv, Typed, Write
<1>2. w \in Write /\ w.id \in Ids /\ w.at < Size
  BY DEF IInv, Typed, Write
<1>3. ASSUME NEW u \in Ids
      PROVE  /\ partial'[u] \in File /\ Grown(partial[u], partial'[u]) /\ (~partial'[u].there => partial'[u] = NoFile)
             /\ stored'[u] \in File /\ stored'[u].there = stored[u].there
             /\ Grown(stored[u], stored'[u]) /\ (~stored'[u].there => stored'[u] = NoFile)
             /\ stored'[u].taken = stored[u].taken
  <2>1. /\ partial[u] \in File /\ stored[u] \in File
        /\ ~partial[u].there => partial[u] = NoFile
        /\ ~stored[u].there => stored[u] = NoFile
    BY FunctionsAre DEF IInv, UploadOK
  <2>2. CASE u = w.id
    <3>1. partial'[u] = Strays(partial[u], w) /\ stored'[u] = Strays(stored[u], w)
      BY <1>1, <2>2, FunctionsAre
    <3>2. LET e == Strays(partial[u], w) IN
            e \in File /\ e.there = partial[u].there /\ (~partial[u].there => e = NoFile) /\ Grown(partial[u], e)
      BY <1>2, <2>1, StraysIs
    <3>3. LET e == Strays(stored[u], w) IN
            /\ e \in File /\ e.there = stored[u].there /\ (~stored[u].there => e = NoFile)
            /\ e.taken = stored[u].taken /\ Grown(stored[u], e)
      BY <1>2, <2>1, StraysIs
    <3> QED BY <3>1, <3>2, <3>3
  <2>3. CASE u # w.id
    <3>1. partial'[u] = partial[u] /\ stored'[u] = stored[u]
      BY <1>1, <2>3
    <3> QED BY <2>1, <3>1, GrownStill
  <2> QED BY <2>2, <2>3
<1>4. Typed'
  <2>1. partial' \in [Ids -> File] /\ stored' \in [Ids -> File]
    BY <1>1, <1>3, FunctionsAre
  <2> QED BY <1>1, <2>1 DEF IInv, Typed
<1>5. ASSUME NEW r \in Requests
      PROVE  LET u == jobs'[r].id IN JobOK(r, jobs'[r], uploads'[u], partial'[u], stored'[u])
  <2> DEFINE u == jobs[r].id
  <2>1. jobs[r] \in Job /\ u \in Ids /\ jobs'[r] = jobs[r] /\ uploads'[u] = uploads[u]
    BY <1>1, FunctionsAre DEF Job
  <2>2. JobOK(r, jobs[r], uploads[u], partial[u], stored[u])
    BY DEF IInv
  <2>3. Less(uploads[u], uploads[u]) /\ Kept1(jobs[r], jobs[r]) /\ partial[u] \in File /\ partial'[u] \in File
        /\ Grown(partial[u], partial'[u]) /\ (stored'[u].there => stored[u].there)
    BY <1>3, <2>1, FunctionsAre DEF Less, Kept1
  <2>4. JobOK(r, jobs[r], uploads[u], partial'[u], stored'[u])
    <3> HIDE DEF u
    <3> QED BY <2>1, <2>2, <2>3, JobStays
  <2> QED BY <2>1, <2>4
<1>6. ASSUME NEW u \in Ids PROVE UploadOK(uploads'[u], partial'[u], stored'[u])
  <2>1. /\ uploads[u] \in Upload \union {None} /\ partial[u] \in File /\ stored[u] \in File
        /\ UploadOK(uploads[u], partial[u], stored[u]) /\ Less(uploads[u], uploads[u]) /\ uploads' = uploads
    BY <1>1, FunctionsAre DEF IInv, Less
  <2>2. UploadOK(uploads[u], partial'[u], stored[u])
    BY <1>3, <2>1, UploadStays
  <2>3. ASSUME Sound(stored'[u]) PROVE stored'[u].data = stored'[u].taken /\ Len(stored'[u].taken) = Size
    <3>1. /\ Sound(stored[u]) /\ Len(stored'[u].data) >= Len(stored[u].data)
          /\ \A i \in 1..Len(stored[u].data) : stored'[u].data[i] = stored[u].data[i]
      BY <1>3, <2>3 DEF Grown
    <3>2. stored[u].data = stored[u].taken /\ Len(stored[u].taken) = Size
      BY <2>1, <3>1 DEF UploadOK
    <3>3. /\ stored[u].data \in Seq(Requests \union {Zero}) /\ stored'[u].data \in Seq(Requests \union {Zero})
          /\ Len(stored'[u].data) <= Size /\ Len(stored'[u].data) \in Nat
      BY <1>3, <2>1, FileData, Sizes
    <3>4. Len(stored'[u].data) = Len(stored[u].data)
      BY <3>1, <3>2, <3>3, Sizes
    <3>5. stored'[u].data = stored[u].data
      BY <3>1, <3>3, <3>4, SeqEqual
    <3> QED BY <1>3, <3>2, <3>5
  <2> QED BY <1>3, <2>1, <2>2, <2>3 DEF UploadOK
<1>7. Alone' /\ Finishes'
  <2>1. jobs' = jobs /\ uploads' = uploads /\ \A u \in Ids : stored'[u].there => stored[u].there
    BY <1>1, <1>3
  <2> QED BY <2>1 DEF IInv, Alone, Finishes, Claims, Has
<1> QED BY <1>4, <1>5, <1>6, <1>7 DEF IInv

-----------------------------------------------------------------------------
(* CREATE                                                                     *)

LEMMA CreateBeginsKeeps ==
  ASSUME IInv, NEW r \in Requests, NEW u \in Ids, CreateBegins(r, u)
  PROVE  IInv'
<1> DEFINE job2 == [Idle EXCEPT !.pc = "filed", !.id = u]
<1>1. PICK room \in Room :
        /\ uploads' = UploadsWithout(room) /\ ~uploads'[u].there
        /\ ~FilesWithout(room)[u].there
        /\ partial' = [FilesWithout(room) EXCEPT ![u].there = TRUE]
  BY DEF CreateBegins
<1>2. /\ At(r, "rest") /\ Unused(u) /\ jobs' = [jobs EXCEPT ![r] = job2]
      /\ UNCHANGED <<stored, late>>
  BY DEF CreateBegins
<1>3. job2 \in Job /\ job2.pc = "filed" /\ job2.id = u /\ job2.out = {} /\ job2.body = <<>>
  BY IdleIs DEF Job, Phases
<1> HIDE DEF job2
<1>4. jobs'[r] = job2 /\ jobs' \in [Requests -> Job] /\ \A s \in Requests : s # r => jobs'[s] = jobs[s]
  BY <1>2, <1>3, FunctionsAre
<1>5. /\ uploads' \in [Ids -> Upload \union {None}] /\ FilesWithout(room) \in [Ids -> File]
      /\ \A v \in Ids : /\ Less(uploads[v], uploads'[v]) /\ Grown(partial[v], FilesWithout(room)[v])
                        /\ ~FilesWithout(room)[v].there => FilesWithout(room)[v] = NoFile
  BY <1>1, Without
<1> DEFINE made == [NoFile EXCEPT !.there = TRUE]
<1>6. made \in File /\ made.there
  BY NoFileIs DEF File
<1>7. partial'[u] = made /\ \A v \in Ids : v # u => partial'[v] = FilesWithout(room)[v]
  <2>1. FilesWithout(room)[u] = NoFile
    BY <1>1, <1>5
  <2> QED BY <1>1, <1>5, <2>1
<1>8. partial' \in [Ids -> File]
  <2> HIDE DEF made
  <2>1. \A v \in Ids : partial'[v] \in File
    BY <1>5, <1>6, <1>7
  <2>2. partial' = [v \in Ids |-> partial'[v]]
    BY <1>1, <1>5
  <2> QED BY <2>1, <2>2
<1> HIDE DEF made
<1>9. Typed'
  BY <1>2, <1>4, <1>5, <1>8 DEF IInv, Typed
<1>10. ~stored[u].there /\ \A s \in Requests : ~Claims(s, u)
  BY <1>2 DEF Unused, Claims, Claiming, Holding
<1>11. jobs[r].pc \notin Claiming
  BY <1>2 DEF At, Claiming, Holding
<1>12. JobOK(r, job2, uploads'[u], partial'[u], stored'[u])
  BY <1>1, <1>2, <1>3, <1>10 DEF JobOK, Holding
<1>13. UploadOK(uploads'[u], partial'[u], stored'[u])
  <2>1. UploadOK(uploads[u], partial[u], stored[u])
    BY DEF IInv
  <2> QED BY <1>1, <1>2, <1>6, <1>7, <1>10, <2>1 DEF UploadOK, Sound
<1>14. \A s \in Requests : s # r => Kept1(jobs[s], jobs'[s]) /\ (jobs[s].pc = "published" => jobs'[s] = jobs[s]) /\ ~Claims(s, u)
  BY <1>4, <1>10 DEF Kept1
<1>15. ASSUME NEW v \in Ids, v # u
       PROVE  /\ stored'[v] = stored[v]
              /\ Less(uploads[v], uploads'[v]) /\ Grown(partial[v], partial'[v])
              /\ ~partial'[v].there => partial'[v] = NoFile
  BY <1>2, <1>5, <1>7, <1>15
<1>16. LET v == jobs'[r].id IN JobOK(r, jobs'[r], uploads'[v], partial'[v], stored'[v])
  BY <1>3, <1>4, <1>12
<1>17. jobs'[r].pc \in Claiming => jobs'[r].id = u
  BY <1>3, <1>4
<1>18. ~uploads'[u].there
  BY <1>1
<1> QED BY <1>9, <1>11, <1>13, <1>14, <1>15, <1>16, <1>17, <1>18, OneStep

LEMMA CreateRegistersKeeps ==
  ASSUME IInv, NEW r \in Requests, CreateRegisters(r)
  PROVE  IInv'
<1> DEFINE u == jobs[r].id
           up2 == [there |-> TRUE, received |-> 0, busy |-> FALSE, age |-> jobs[r].age, done |-> FALSE, taken |-> <<>>]
<1>1. /\ jobs[r].pc = "filed" /\ uploads' = [uploads EXCEPT ![u] = up2]
      /\ jobs' = [jobs EXCEPT ![r] = Idle] /\ UNCHANGED <<partial, stored, late>>
  BY DEF CreateRegisters, At, Ends
<1>2. jobs[r].pc \in Claiming
  BY <1>1 DEF Claiming
<1>3. /\ u \in Ids /\ jobs[r] \in Job
      /\ \A s \in Requests : s # r => ~Claims(s, u)
      /\ JobOK(r, jobs[r], uploads[u], partial[u], stored[u])
      /\ UploadOK(uploads[u], partial[u], stored[u])
      /\ partial[u] \in File
  BY <1>2, InHand
<1>4. <<>> \in Data(Requests) /\ <<>> \in Seq(Requests)
  BY NoFileIs DEF NoFile, File
<1>5. up2 \in Upload /\ Len(up2.taken) = up2.received /\ up2.taken = <<>>
  BY <1>3, <1>4, JobIs, Sizes DEF Upload
<1>6. ~stored[u].there
  BY <1>1, <1>2, <1>3 DEF JobOK
<1>7. Begins(partial[u].data, <<>>)
  BY <1>3, BeginsEmpty
<1> HIDE DEF up2, u
<1>8. /\ uploads' \in [Ids -> Upload \union {None}] /\ uploads'[u] = up2
      /\ \A v \in Ids : v # u => uploads'[v] = uploads[v]
  BY <1>1, <1>3, <1>5, FunctionsAre
<1>9. Typed'
  <2>1. jobs' \in [Requests -> Job]
    BY <1>1, IdleIs, FunctionsAre
  <2> QED BY <1>1, <1>8, <2>1 DEF IInv, Typed
<1>10. UploadOK(uploads'[u], partial'[u], stored'[u])
  BY <1>1, <1>3, <1>5, <1>6, <1>7, <1>8 DEF UploadOK, Sound
<1>11. Idle.pc \notin Claiming /\ Idle.out = {}
  BY IdleIs
<1>12. jobs[r].id = u
  BY DEF u
<1> QED BY <1>1, <1>3, <1>6, <1>8, <1>9, <1>10, <1>11, <1>12, OwnStep

-----------------------------------------------------------------------------
(* PUT                                                                        *)

(* Nobody has an upload in hand that is not busy.                             *)
LEMMA NobodyHas ==
  ASSUME IInv, NEW u \in Ids, Has(u), ~uploads[u].busy
  PROVE  /\ \A s \in Requests : ~Claims(s, u)
         /\ ~uploads[u].done => ~stored[u].there
<1>1. ASSUME NEW s \in Requests, Claims(s, u) PROVE FALSE
  <2>1. JobOK(s, jobs[s], uploads[u], partial[u], stored[u])
    BY <1>1 DEF IInv, Claims
  <2> QED BY <1>1, <2>1 DEF JobOK, Has, Claims, Claiming
<1> QED BY <1>1 DEF IInv, Finishes

(* A busy upload, and one that is free again.                                  *)
LEMMA BusyIs ==
  ASSUME NEW up \in Upload, NEW b \in BOOLEAN
  PROVE  LET up2 == [up EXCEPT !.busy = b] IN
         /\ up2 \in Upload /\ up2.there /\ up2.busy = b /\ up2.done = up.done
         /\ up2.received = up.received /\ up2.taken = up.taken
BY DEF Upload

LEMMA PutBeginsKeeps ==
  ASSUME IInv, NEW r \in Requests, NEW u \in Ids, PutBegins(r, u)
  PROVE  IInv'
<1> DEFINE pc2 == IF partial[u].there THEN "writing" ELSE "undo"
           job2 == [Idle EXCEPT !.pc = pc2, !.id = u, !.base = uploads[u].received]
           up2 == [uploads[u] EXCEPT !.busy = TRUE]
<1>1. /\ At(r, "rest") /\ MayWrite(u) /\ uploads' = [uploads EXCEPT ![u] = up2]
      /\ jobs' = [jobs EXCEPT ![r] = job2] /\ UNCHANGED <<partial, stored, late>>
  BY DEF PutBegins
<1>2. Has(u) /\ ~uploads[u].done /\ ~uploads[u].busy /\ uploads[u].there
  BY <1>1 DEF MayWrite, Has
<1>3. (\A s \in Requests : ~Claims(s, u)) /\ ~stored[u].there
  BY <1>2, NobodyHas
<1>4. uploads[u] \in Upload /\ uploads[u].received \in 0..Size /\ partial[u] \in File
  BY <1>2, FunctionsAre, UploadIs
<1>5. up2 \in Upload /\ up2.there /\ up2.busy /\ up2.received = uploads[u].received /\ up2.taken = uploads[u].taken
  BY <1>4, BusyIs
<1>6. pc2 \in {"writing", "undo"}
  OBVIOUS
<1> HIDE DEF pc2
<1>7. /\ job2 \in Job /\ job2.pc = pc2 /\ job2.id = u /\ job2.base = uploads[u].received
      /\ job2.body = <<>> /\ job2.out = {}
  BY <1>4, <1>6, IdleIs DEF Job, Phases
<1> HIDE DEF job2, up2
<1>8. /\ uploads' \in [Ids -> Upload \union {None}] /\ uploads'[u] = up2
      /\ \A v \in Ids : v # u => uploads'[v] = uploads[v]
  BY <1>1, <1>5, FunctionsAre
<1>9. Typed'
  <2>1. jobs' \in [Requests -> Job]
    BY <1>1, <1>7, FunctionsAre
  <2> QED BY <1>1, <1>8, <2>1 DEF IInv, Typed
<1>10. UploadOK(uploads'[u], partial'[u], stored'[u])
  <2>1. UploadOK(uploads[u], partial[u], stored[u])
    BY DEF IInv
  <2> QED BY <1>1, <1>2, <1>5, <1>8, <2>1 DEF UploadOK
<1>11. JobOK(r, job2, uploads'[u], partial'[u], stored'[u])
  <2>1. Len(job2.body) = 0 /\ Landed(job2) = 0
    BY <1>7 DEF Landed
  <2>2. uploads[u].received \in Nat /\ uploads[u].received <= Size /\ Chunk \in Nat
    BY <1>4, Sizes
  <2> QED BY <1>1, <1>3, <1>5, <1>6, <1>7, <1>8, <2>1, <2>2, Sizes DEF JobOK, Holding, Claiming
<1>12. jobs[r].pc \notin Claiming
  BY <1>1 DEF At, Claiming, Holding
<1> QED BY <1>1, <1>3, <1>7, <1>8, <1>9, <1>10, <1>11, <1>12, OwnStep

LEMMA PutWritesKeeps ==
  ASSUME IInv, NEW r \in Requests, PutWrites(r)
  PROVE  IInv'
<1> DEFINE job == jobs[r]
           u == job.id
           w == [id |-> job.id, at |-> job.base + Len(job.body), byte |-> r]
           job2 == [job EXCEPT !.body = Append(job.body, r), !.out = {w}]
<1>1. /\ job.pc = "writing" /\ job.out = {} /\ Len(job.body) < Limit(r)
      /\ jobs' = [jobs EXCEPT ![r] = job2] /\ UNCHANGED <<uploads, partial, stored, late>>
  BY DEF PutWrites, At
<1>2. job.pc \in Claiming
  BY <1>1 DEF Claiming, Holding
<1>3. /\ u \in Ids /\ job \in Job
      /\ \A s \in Requests : s # r => ~Claims(s, u)
      /\ JobOK(r, job, uploads[u], partial[u], stored[u])
      /\ UploadOK(uploads[u], partial[u], stored[u])
      /\ ~stored[u].there
  BY <1>1, <1>2, InHand DEF JobOK
<1>4. /\ job.base \in Nat /\ job.body \in Seq(Requests) /\ Len(job.body) \in Nat
      /\ job.body \in Data(Requests)
  BY <1>3, JobIs
<1>5. job.base + Len(job.body) + 1 <= Size /\ Len(job.body) + 1 <= Chunk
  <2>1. Len(job.body) < Least(Chunk, Size - job.base)
    BY <1>1 DEF Limit
  <2> HIDE DEF job
  <2>2. Len(job.body) < Chunk /\ Len(job.body) < Size - job.base
    BY <1>4, <2>1, Sizes DEF Least
  <2> QED BY <1>4, <2>2, Sizes
<1>6. w \in Write
  <2> HIDE DEF job
  <2>1. job.base + Len(job.body) \in 0..Size
    BY <1>4, <1>5, Sizes
  <2>2. job.id \in Ids
    BY <1>3
  <2> QED BY <2>1, <2>2 DEF Write
<1> DEFINE body2 == Append(job.body, r)
<1>7. /\ body2 \in Seq(Requests) /\ Len(body2) = Len(job.body) + 1
      /\ \A i \in 1..Len(job.body) : body2[i] = job.body[i]
      /\ body2[Len(job.body) + 1] = r
  BY <1>4
<1> HIDE DEF body2
<1>8. body2 \in Data(Requests) /\ body2 # <<>>
  <2>1. Len(body2) <= Size
    BY <1>4, <1>5, <1>7, Sizes
  <2>2. Len(body2) # 0
    BY <1>4, <1>7
  <2> QED BY <1>7, <2>1, <2>2, DataIs
<1> HIDE DEF w
<1>9. /\ job2 \in Job /\ job2.pc = "writing" /\ job2.id = u /\ job2.base = job.base
      /\ job2.body = body2 /\ job2.out = {w}
  <2> HIDE DEF job, job2
  <2>1. job2 = [job EXCEPT !.body = body2, !.out = {w}]
    BY DEF job2, body2
  <2>2. job \in Job /\ job.pc = "writing" /\ u = job.id
    BY <1>1, <1>3 DEF job
  <2> QED BY <1>6, <1>8, <2>1, <2>2 DEF Job
<1>10. JobOK(r, job2, uploads[u], partial[u], stored[u])
  <2> HIDE DEF job2, job, u
  <2>0. u = job.id
    BY DEF u
  <2>1. job2.out = {[id |-> job2.id, at |-> job2.base + Len(job2.body) - 1, byte |-> r]}
    BY <1>4, <1>7, <1>9, <2>0 DEF w
  <2>2. Landed(job2) = Len(job.body) /\ Landed(job) = Len(job.body)
    BY <1>1, <1>4, <1>7, <1>9 DEF Landed
  <2>3. \A i \in 1..Len(body2) : body2[i] = r
    BY <1>1, <1>3, <1>4, <1>7 DEF JobOK
  <2>4. Sound(partial[u]) => \A i \in 1..Landed(job2) :
          job2.base + i <= Len(partial[u].data) /\ partial[u].data[job2.base + i] = r
    BY <1>1, <1>3, <1>9, <2>2 DEF JobOK
  <2>5. job2.base + Len(job2.body) <= Size /\ Len(job2.body) <= Chunk
    BY <1>4, <1>5, <1>7, <1>9
  <2>6. uploads[u].there => uploads[u].busy /\ job2.base = uploads[u].received
    BY <1>1, <1>3, <1>9 DEF JobOK, Holding
  <2> QED BY <1>3, <1>8, <1>9, <2>1, <2>3, <2>4, <2>5, <2>6 DEF JobOK
<1>11. Typed'
  <2> HIDE DEF job2
  <2>1. jobs' \in [Requests -> Job]
    BY <1>1, <1>9, FunctionsAre
  <2> QED BY <1>1, <2>1 DEF IInv, Typed
<1> HIDE DEF job2
<1> QED BY <1>1, <1>3, <1>9, <1>10, <1>11, OwnStep

LEMMA WriteLandsKeeps ==
  ASSUME IInv, NEW r \in Requests, WriteLands(r)
  PROVE  IInv'
<1> DEFINE job == jobs[r]
           u == job.id
           job2 == [job EXCEPT !.out = {}]
           file == partial[u]
           w == [id |-> job.id, at |-> job.base + Len(job.body) - 1, byte |-> r]
<1>1. /\ jobs' = [jobs EXCEPT ![r] = job2] /\ UNCHANGED <<uploads, late>>
      /\ \E x \in job.out : /\ partial' = [partial EXCEPT ![x.id] = Reached(partial[x.id], x)]
                            /\ stored' = [stored EXCEPT ![x.id] = Reached(stored[x.id], x)]
  BY FunctionsAre, JobIs DEF WriteLands, Lands, Write
<1>2. job.out # {}
  BY <1>1
<1>3. job.pc = "writing" /\ job.body # <<>> /\ job.out = {w} /\ job.pc \in Claiming
  BY <1>2 DEF IInv, JobOK, Claiming, Holding
<1>4. /\ u \in Ids /\ job \in Job
      /\ \A s \in Requests : s # r => ~Claims(s, u)
      /\ JobOK(r, job, uploads[u], file, stored[u])
      /\ UploadOK(uploads[u], file, stored[u])
      /\ uploads[u] \in Upload \union {None} /\ file \in File
      /\ ~stored[u].there
  BY <1>3, InHand DEF JobOK
<1>5. /\ job.base \in Nat /\ job.body \in Seq(Requests) /\ Len(job.body) \in Nat
      /\ w \in Write
  BY <1>3, <1>4, JobIs
<1>6. Len(job.body) >= 1 /\ job.base + Len(job.body) <= Size
      /\ (uploads[u].there => job.base = uploads[u].received)
      /\ (Sound(file) => \A i \in 1..(Len(job.body) - 1) :
             job.base + i <= Len(file.data) /\ file.data[job.base + i] = r)
  <2>1. Len(job.body) >= 1
    BY <1>3, <1>5, EmptySeq
  <2>2. job.base + Len(job.body) <= Size /\ (uploads[u].there => job.base = uploads[u].received)
    BY <1>3, <1>4 DEF JobOK
  <2>3. Landed(job) = Len(job.body) - 1
    BY <1>2 DEF Landed
  <2>4. Sound(file) => \A i \in 1..Landed(job) :
             job.base + i <= Len(file.data) /\ file.data[job.base + i] = r
    BY <1>3, <1>4 DEF JobOK
  <2> HIDE DEF job, file
  <2> QED BY <2>1, <2>2, <2>3, <2>4
<1>7. w.id = u /\ w.at = job.base + Len(job.body) - 1 /\ w.byte = r
  OBVIOUS
<1> DEFINE file2 == Reached(file, w)
<1>8. /\ partial' = [partial EXCEPT ![u] = file2] /\ stored' = [stored EXCEPT ![u] = Reached(stored[u], w)]
  BY <1>1, <1>3, <1>7
<1>9. Reached(stored[u], w) = stored[u]
  BY <1>4 DEF Reached
<1>10. /\ file2 \in File /\ file2.there = file.there /\ file2.strayed = file.strayed
       /\ file.there =>
            /\ Len(file2.data) = Longest(Len(file.data), w.at + 1)
            /\ \A i \in 1..Len(file2.data) :
                 file2.data[i] = IF i = w.at + 1 THEN w.byte ELSE IF i <= Len(file.data) THEN file.data[i] ELSE Zero
  <2>1. CASE file.there
    <3>1. file2 = Written(file, w) /\ w.at < Size
      <4>1. file2 = Written(file, w)
        BY <2>1 DEF Reached
      <4>2. w.at = job.base + Len(job.body) - 1
        BY <1>7
      <4> HIDE DEF job, file, w, file2
      <4>3. w.at < Size
        BY <1>5, <1>6, <4>2, Sizes
      <4> QED BY <4>1, <4>3
    <3>2. file \in File /\ w \in Write
      BY <1>4, <1>5
    <3> HIDE DEF file, w, file2
    <3> QED BY <3>1, <3>2, WrittenIs
  <2>2. CASE ~file.there
    BY <1>4, <2>2 DEF Reached
  <2> QED BY <2>1, <2>2
<1> HIDE DEF file2, w
<1>11. Len(file.data) \in Nat /\ Len(file2.data) \in Nat
  <2>1. file \in File /\ file2 \in File
    BY <1>4, <1>10
  <2> HIDE DEF file
  <2> QED BY <2>1, FileData, Sizes
<1>12. /\ job2 \in Job /\ job2.pc = "writing" /\ job2.id = u /\ job2.base = job.base
       /\ job2.body = job.body /\ job2.out = {}
  <2> HIDE DEF job, job2
  <2>1. job2 = [job EXCEPT !.out = {}]
    BY DEF job2
  <2> QED BY <1>3, <1>4, <2>1 DEF Job
<1> HIDE DEF job2, u, file
<1>13. Sound(file2) => Sound(file)
  BY <1>10 DEF Sound
<1>14. Sound(file2) => \A i \in 1..Len(job.body) : job.base + i <= Len(file2.data) /\ file2.data[job.base + i] = r
  <2> SUFFICES ASSUME Sound(file2), NEW i \in 1..Len(job.body)
               PROVE  job.base + i <= Len(file2.data) /\ file2.data[job.base + i] = r
    OBVIOUS
  <2> HIDE DEF job
  <2>0. Sound(file) /\ file.there
    BY <1>13 DEF Sound
  <2>1. job.base + i <= w.at + 1 /\ job.base + i >= 1 /\ job.base + i \in Nat /\ w.at \in Nat
    BY <1>5, <1>6, <1>7
  <2>2. job.base + i <= Len(file2.data)
    BY <1>10, <1>11, <2>0, <2>1 DEF Longest
  <2>3. CASE i = Len(job.body)
    BY <1>5, <1>7, <1>10, <2>0, <2>1, <2>2, <2>3
  <2>4. CASE i # Len(job.body)
    <3>1. i \in 1..(Len(job.body) - 1)
      BY <1>5, <2>4
    <3>2. job.base + i <= Len(file.data) /\ file.data[job.base + i] = r
      BY <1>6, <2>0, <3>1
    <3>3. job.base + i # w.at + 1
      BY <1>5, <1>7, <3>1
    <3> QED BY <1>10, <1>11, <2>0, <2>1, <2>2, <3>2, <3>3
  <2> QED BY <2>3, <2>4
<1>15. uploads[u].there /\ Sound(file2) => Begins(file2.data, uploads[u].taken)
  <2> SUFFICES ASSUME uploads[u].there, Sound(file2) PROVE Begins(file2.data, uploads[u].taken)
    OBVIOUS
  <2> DEFINE taken == uploads[u].taken
  <2>1. Sound(file) /\ file.there
    BY <1>13 DEF Sound
  <2>2. Begins(file.data, taken) /\ taken \in Seq(Requests) /\ Len(taken) = job.base
    BY <1>4, <1>6, <2>1, UploadIs DEF UploadOK
  <2>3. file.data \in Seq(Requests \union {Zero}) /\ file2.data \in Seq(Requests \union {Zero})
    BY <1>4, <1>10, FileData
  <2> HIDE DEF taken, job
  <2>4. Len(file.data) >= Len(taken) /\ \A i \in 1..Len(taken) : file.data[i] = taken[i]
    BY <2>2, <2>3, BeginsIs
  <2>5. Len(file2.data) >= Len(file.data)
    BY <1>5, <1>6, <1>7, <1>10, <1>11, <2>1 DEF Longest
  <2>6. ASSUME NEW i \in 1..Len(taken) PROVE file2.data[i] = taken[i]
    <3>1. i \in Nat /\ i # w.at + 1 /\ i <= Len(file.data) /\ i \in 1..Len(file2.data)
      BY <1>5, <1>6, <1>7, <1>11, <2>2, <2>4, <2>5
    <3> QED BY <1>10, <2>1, <2>4, <3>1
  <2>7. Len(file2.data) >= Len(taken)
    BY <1>5, <1>11, <2>2, <2>4, <2>5
  <2>8. Begins(file2.data, taken)
    BY <2>2, <2>3, <2>6, <2>7, BeginsIs
  <2> QED BY <2>8 DEF taken
<1>16. /\ partial' \in [Ids -> File] /\ partial'[u] = file2 /\ \A v \in Ids : v # u => partial'[v] = partial[v]
       /\ stored' = stored
  <2>1. stored' = stored
    BY <1>8, <1>9, FunctionsAre
  <2> QED BY <1>4, <1>8, <1>10, <2>1, FunctionsAre
<1>17. Typed'
  <2>1. jobs' \in [Requests -> Job]
    BY <1>1, <1>12, FunctionsAre
  <2> QED BY <1>1, <1>16, <2>1 DEF IInv, Typed
<1>18. UploadOK(uploads'[u], partial'[u], stored'[u])
  <2>1. ~file2.there => file2 = NoFile
    BY <1>4, <1>10 DEF UploadOK, Reached, file2
  <2> QED BY <1>1, <1>4, <1>15, <1>16, <2>1 DEF UploadOK
<1>19. JobOK(r, job2, uploads'[u], partial'[u], stored'[u])
  <2>1. Landed(job2) = Len(job.body)
    BY <1>12 DEF Landed
  <2> HIDE DEF job
  <2> QED BY <1>1, <1>3, <1>4, <1>6, <1>12, <1>14, <1>16, <2>1 DEF JobOK, Holding
<1>20. jobs[r].id = u /\ stored'[u] = stored[u]
  BY <1>16 DEF u
<1> QED BY <1>1, <1>4, <1>12, <1>16, <1>17, <1>18, <1>19, <1>20, OwnStep

LEMMA ChunkAdded ==
  ASSUME NEW a \in Seq(Requests), NEW b \in Seq(Requests)
  PROVE  LET more == a \o b IN
         /\ more \in Seq(Requests) /\ Len(more) = Len(a) + Len(b)
         /\ \A i \in 1..Len(more) : more[i] = IF i <= Len(a) THEN a[i] ELSE b[i - Len(a)]
<1>1. Len(a) \in Nat /\ Len(b) \in Nat
  BY LenProperties
<1> QED BY <1>1, ConcatProperties

LEMMA PutTakesKeeps ==
  ASSUME IInv, NEW r \in Requests, PutTakes(r)
  PROVE  IInv'
<1> DEFINE job == jobs[r]
           u == job.id
<1>1. /\ job.pc = "writing" /\ job.out = {} /\ job.body # <<>> /\ UNCHANGED <<partial, stored, late>>
      /\ job.pc \in Claiming
  BY DEF PutTakes, At, Claiming, Holding
<1>2. /\ u \in Ids /\ job \in Job
      /\ \A s \in Requests : s # r => ~Claims(s, u)
      /\ JobOK(r, job, uploads[u], partial[u], stored[u])
      /\ UploadOK(uploads[u], partial[u], stored[u])
      /\ uploads[u] \in Upload \union {None} /\ partial[u] \in File
      /\ ~stored[u].there
  BY <1>1, InHand DEF JobOK
<1>3. ASSUME NEW pc2 \in {"release", "undo"}
      PROVE  LET job2 == [job EXCEPT !.pc = pc2] IN
             /\ job2 \in Job /\ job2.pc = pc2 /\ job2.id = u /\ job2.base = job.base
             /\ job2.body = job.body /\ job2.out = {}
  <2> HIDE DEF job
  <2> QED BY <1>1, <1>2 DEF Job, Phases
<1>4. /\ job.base \in Nat /\ job.body \in Seq(Requests) /\ Len(job.body) \in Nat
      /\ job.base + Len(job.body) <= Size /\ Len(job.body) <= Chunk
  BY <1>1, <1>2, JobIs DEF JobOK
<1>5. CASE ~Has(u)
  <2> DEFINE job2 == [job EXCEPT !.pc = "undo"]
  <2>1. jobs' = [jobs EXCEPT ![r] = job2] /\ uploads' = uploads
    BY <1>5 DEF PutTakes, Goes
  <2>2. /\ job2 \in Job /\ job2.pc = "undo" /\ job2.id = u /\ job2.base = job.base
        /\ job2.body = job.body /\ job2.out = {}
    BY <1>3
  <2> HIDE DEF job2
  <2>3. Typed'
    <3>1. jobs' \in [Requests -> Job]
      BY <2>1, <2>2, FunctionsAre
    <3> QED BY <1>1, <2>1, <3>1 DEF IInv, Typed
  <2>4. JobOK(r, job2, uploads'[u], partial'[u], stored'[u])
    BY <1>1, <1>2, <1>4, <1>5, <2>1, <2>2 DEF JobOK, Has, Holding
  <2> QED BY <1>1, <1>2, <1>5, <2>1, <2>2, <2>3, <2>4, OwnStep DEF Has
<1>6. CASE Has(u)
  <2> DEFINE job2 == [job EXCEPT !.pc = "release"]
             taken == uploads[u].taken
             up2 == [uploads[u] EXCEPT !.received = @ + Len(job.body), !.taken = @ \o job.body]
  <2>1. jobs' = [jobs EXCEPT ![r] = job2] /\ uploads' = [uploads EXCEPT ![u] = up2]
    BY <1>2, <1>6, FunctionsAre DEF PutTakes, Goes
  <2>2. /\ job2 \in Job /\ job2.pc = "release" /\ job2.id = u /\ job2.base = job.base
        /\ job2.body = job.body /\ job2.out = {}
    BY <1>3
  <2>3. /\ uploads[u] \in Upload /\ uploads[u].received = job.base /\ uploads[u].busy
        /\ taken \in Seq(Requests) /\ Len(taken) = job.base
    BY <1>1, <1>2, <1>6, UploadIs DEF Has, JobOK, UploadOK, Holding
  <2> DEFINE more == taken \o job.body
  <2>4. /\ more \in Seq(Requests) /\ Len(more) = job.base + Len(job.body)
        /\ \A i \in 1..Len(more) : more[i] = IF i <= job.base THEN taken[i] ELSE job.body[i - job.base]
    <3> HIDE DEF job, taken
    <3>1. LET m == taken \o job.body IN
          /\ m \in Seq(Requests) /\ Len(m) = Len(taken) + Len(job.body)
          /\ \A i \in 1..Len(m) : m[i] = IF i <= Len(taken) THEN taken[i] ELSE job.body[i - Len(taken)]
      BY <1>4, <2>3, ChunkAdded
    <3> QED BY <2>3, <3>1
  <2>5. more \in Data(Requests)
    BY <1>4, <2>4, DataIs
  <2>6. /\ up2 \in Upload /\ up2.there /\ up2.received = job.base + Len(job.body) /\ up2.taken = more
        /\ up2.busy = uploads[u].busy /\ up2.done = uploads[u].done
    <3> DEFINE n == uploads[u].received + Len(job.body)
    <3>1. up2 = [uploads[u] EXCEPT !.received = n, !.taken = more]
      OBVIOUS
    <3>2. n = job.base + Len(job.body)
      BY <2>3
    <3> HIDE DEF up2, more, n, job, u
    <3>3. n \in 0..Size
      BY <1>4, <3>2, Sizes
    <3>4. uploads[u] \in Upload
      BY <2>3
    <3>5. /\ up2 \in Upload /\ up2.there /\ up2.received = n /\ up2.taken = more
          /\ up2.busy = uploads[u].busy /\ up2.done = uploads[u].done
      <4> DEFINE up == uploads[u]
      <4>1. up \in Upload /\ up2 = [up EXCEPT !.received = n, !.taken = more]
        BY <3>1, <3>4
      <4> HIDE DEF up
      <4>2. /\ up2 \in Upload /\ up2.there /\ up2.received = n /\ up2.taken = more
            /\ up2.busy = up.busy /\ up2.done = up.done
        BY <2>5, <3>3, <4>1 DEF Upload
      <4> QED BY <4>2 DEF up
    <3> QED BY <3>2, <3>5
  <2> HIDE DEF up2, job2, more, taken
  <2>7. Sound(partial[u]) => Begins(partial[u].data, more)
    <3> SUFFICES ASSUME Sound(partial[u]) PROVE Begins(partial[u].data, more)
      OBVIOUS
    <3> DEFINE d == partial[u].data
    <3>1. d \in Seq(Requests \union {Zero}) /\ Len(d) \in Nat
      BY <1>2, FileData, Sizes
    <3>2. Begins(d, taken)
      BY <1>2, <1>6 DEF UploadOK, Has, taken
    <3>3. Len(d) >= job.base /\ \A i \in 1..job.base : d[i] = taken[i]
      <4> HIDE DEF d, job
      <4>1. Len(d) >= Len(taken) /\ \A i \in 1..Len(taken) : d[i] = taken[i]
        BY <2>3, <3>1, <3>2, BeginsIs
      <4> QED BY <2>3, <4>1
    <3>4. \A i \in 1..Len(job.body) : job.base + i <= Len(d) /\ d[job.base + i] = r /\ job.body[i] = r
      BY <1>1, <1>2 DEF JobOK, Landed
    <3> HIDE DEF d, job
    <3>5. Len(job.body) >= 1
      BY <1>1, <1>4, EmptySeq
    <3>6. Len(d) >= Len(more)
      BY <1>4, <2>4, <3>1, <3>4, <3>5
    <3>7. ASSUME NEW i \in 1..Len(more) PROVE d[i] = more[i]
      <4>1. CASE i <= job.base
        BY <1>4, <2>4, <3>3, <4>1
      <4>2. CASE ~(i <= job.base)
        <5>1. (i - job.base) \in 1..Len(job.body) /\ job.base + (i - job.base) = i
          BY <1>4, <2>4, <4>2
        <5>2. d[job.base + (i - job.base)] = r /\ job.body[i - job.base] = r
          BY <3>4, <5>1
        <5> QED BY <2>4, <4>2, <5>1, <5>2
      <4> QED BY <4>1, <4>2
    <3>8. Begins(d, more)
      BY <2>4, <3>1, <3>6, <3>7, BeginsIs
    <3> QED BY <3>8 DEF d
  <2>8. /\ uploads' \in [Ids -> Upload \union {None}] /\ uploads'[u] = up2
        /\ \A v \in Ids : v # u => uploads'[v] = uploads[v]
    BY <1>2, <2>1, <2>6, FunctionsAre
  <2>9. Typed'
    <3>1. jobs' \in [Requests -> Job]
      BY <2>1, <2>2, FunctionsAre
    <3> QED BY <1>1, <2>8, <3>1 DEF IInv, Typed
  <2>10. UploadOK(uploads'[u], partial'[u], stored'[u])
    BY <1>1, <1>2, <2>4, <2>6, <2>7, <2>8 DEF UploadOK
  <2>11. JobOK(r, job2, uploads'[u], partial'[u], stored'[u])
    BY <1>1, <1>2, <1>4, <2>2, <2>3, <2>6, <2>8 DEF JobOK, Holding
  <2> QED BY <1>1, <1>2, <2>1, <2>2, <2>8, <2>9, <2>10, <2>11, OwnStep
<1> QED BY <1>5, <1>6

LEMMA PutBreaksOffKeeps ==
  ASSUME IInv, NEW r \in Requests, PutBreaksOff(r)
  PROVE  IInv'
<1> DEFINE job == jobs[r]
           u == job.id
           job2 == [job EXCEPT !.pc = "undo", !.out = {}]
<1>1. /\ job.pc = "writing" /\ job.pc \in Claiming
      /\ jobs' = [jobs EXCEPT ![r] = job2] /\ late' = late \union job.out /\ UNCHANGED <<uploads, partial, stored>>
  BY DEF PutBreaksOff, At, Claiming, Holding
<1>2. /\ u \in Ids /\ job \in Job
      /\ \A s \in Requests : s # r => ~Claims(s, u)
      /\ JobOK(r, job, uploads[u], partial[u], stored[u])
      /\ UploadOK(uploads[u], partial[u], stored[u])
      /\ ~stored[u].there
  BY <1>1, InHand DEF JobOK
<1>3. /\ job.base \in Nat /\ Len(job.body) \in Nat /\ job.out \subseteq Write
      /\ job.base + Len(job.body) <= Size
  BY <1>1, <1>2, JobIs DEF JobOK
<1>4. \A w \in job.out : w.at < Size
  <2>1. ASSUME NEW w \in job.out PROVE w.at = job.base + Len(job.body) - 1
    <3>1. job.out = {[id |-> job.id, at |-> job.base + Len(job.body) - 1, byte |-> r]}
      BY <1>2, <2>1 DEF JobOK
    <3> QED BY <2>1, <3>1
  <2> HIDE DEF job
  <2> QED BY <1>3, <2>1, Sizes
<1>5. /\ job2 \in Job /\ job2.pc = "undo" /\ job2.id = u /\ job2.base = job.base
      /\ job2.body = job.body /\ job2.out = {}
  <2> HIDE DEF job, job2
  <2>1. job2 = [job EXCEPT !.pc = "undo", !.out = {}] /\ u = job.id
    BY DEF job2
  <2> QED BY <1>2, <2>1 DEF Job, Phases
<1> HIDE DEF job2
<1>6. Typed'
  <2>1. jobs' \in [Requests -> Job]
    BY <1>1, <1>5, FunctionsAre
  <2> QED BY <1>1, <1>3, <1>4, <2>1 DEF IInv, Typed
<1>7. JobOK(r, job2, uploads'[u], partial'[u], stored'[u])
  BY <1>1, <1>2, <1>5 DEF JobOK, Holding
<1> QED BY <1>1, <1>2, <1>5, <1>6, <1>7, OwnStep

LEMMA GuardUndoesKeeps ==
  ASSUME IInv, NEW r \in Requests, GuardUndoes(r)
  PROVE  IInv'
<1> DEFINE job == jobs[r]
           u == job.id
           job2 == [job EXCEPT !.pc = "release"]
           file == partial[u]
           file2 == IF file.there THEN Truncated(file, job.base) ELSE file
<1>1. /\ job.pc = "undo" /\ job.pc \in Claiming
      /\ jobs' = [jobs EXCEPT ![r] = job2] /\ UNCHANGED <<uploads, stored, late>>
      /\ partial' = IF file.there THEN [partial EXCEPT ![u] = Truncated(file, job.base)] ELSE partial
  BY FunctionsAre, JobIs DEF GuardUndoes, At, Goes, Claiming, Holding
<1>2. /\ u \in Ids /\ job \in Job
      /\ \A s \in Requests : s # r => ~Claims(s, u)
      /\ JobOK(r, job, uploads[u], file, stored[u])
      /\ UploadOK(uploads[u], file, stored[u])
      /\ uploads[u] \in Upload \union {None} /\ file \in File
      /\ ~stored[u].there
  BY <1>1, InHand DEF JobOK
<1>3. job.base \in 0..Size
  BY <1>2, JobIs
<1>4. /\ file2 \in File /\ file2.there = file.there /\ file2.strayed = file.strayed
      /\ ~file2.there => file2 = NoFile
      /\ file.there => /\ Len(file2.data) = job.base
                       /\ \A i \in 1..job.base : file2.data[i] = IF i <= Len(file.data) THEN file.data[i] ELSE Zero
  <2>1. CASE file.there
    BY <1>2, <1>3, <2>1, TruncatedIs
  <2>2. CASE ~file.there
    BY <1>2, <2>2 DEF UploadOK
  <2> QED BY <2>1, <2>2
<1> HIDE DEF file2
<1>5. partial' \in [Ids -> File] /\ partial'[u] = file2 /\ \A v \in Ids : v # u => partial'[v] = partial[v]
  BY <1>1, <1>2, <1>4, FunctionsAre DEF file2
<1>6. /\ job2 \in Job /\ job2.pc = "release" /\ job2.id = u /\ job2.base = job.base
      /\ job2.body = job.body /\ job2.out = job.out
  <2> HIDE DEF job, job2
  <2>1. job2 = [job EXCEPT !.pc = "release"] /\ u = job.id
    BY DEF job2
  <2> QED BY <1>2, <2>1 DEF Job, Phases
<1> HIDE DEF job2
<1>7. job.out = {}
  BY <1>1, <1>2 DEF JobOK
<1>8. uploads[u].there /\ Sound(file2) => Begins(file2.data, uploads[u].taken)
  <2> SUFFICES ASSUME uploads[u].there, Sound(file2) PROVE Begins(file2.data, uploads[u].taken)
    OBVIOUS
  <2> DEFINE taken == uploads[u].taken
  <2>1. Sound(file) /\ file.there
    BY <1>4 DEF Sound
  <2>2. Begins(file.data, taken) /\ taken \in Seq(Requests) /\ Len(taken) = job.base
    BY <1>1, <1>2, <2>1, UploadIs DEF UploadOK, JobOK
  <2>3. file.data \in Seq(Requests \union {Zero}) /\ file2.data \in Seq(Requests \union {Zero})
    BY <1>2, <1>4, FileData
  <2> HIDE DEF taken, job, file
  <2>4. Len(file.data) >= Len(taken) /\ \A i \in 1..Len(taken) : file.data[i] = taken[i]
    BY <2>2, <2>3, BeginsIs
  <2>5. Len(file.data) \in Nat /\ job.base \in Nat
    BY <1>2, <1>3, FileData, Sizes
  <2>6. \A i \in 1..Len(taken) : file2.data[i] = taken[i]
    BY <1>4, <2>1, <2>2, <2>4, <2>5
  <2>7. Len(file2.data) >= Len(taken)
    BY <1>4, <2>1, <2>2, <2>5
  <2>8. Begins(file2.data, taken)
    BY <2>2, <2>3, <2>6, <2>7, BeginsIs
  <2> QED BY <2>8 DEF taken
<1>9. Typed'
  <2>1. jobs' \in [Requests -> Job]
    BY <1>1, <1>6, FunctionsAre
  <2> QED BY <1>1, <1>5, <2>1 DEF IInv, Typed
<1>10. UploadOK(uploads'[u], partial'[u], stored'[u])
  BY <1>1, <1>2, <1>4, <1>5, <1>8 DEF UploadOK
<1>11. JobOK(r, job2, uploads'[u], partial'[u], stored'[u])
  BY <1>1, <1>2, <1>6, <1>7 DEF JobOK, Holding
<1> QED BY <1>1, <1>2, <1>5, <1>6, <1>9, <1>10, <1>11, OwnStep

(* The upload is free again.                                                  *)
LEMMA FreedStep ==
  ASSUME IInv, NEW r \in Requests, jobs[r].pc \in Claiming, jobs' = [jobs EXCEPT ![r] = Idle],
         UNCHANGED <<partial, stored, late>>,
         NEW up2,
         uploads' = IF Has(jobs[r].id) THEN [uploads EXCEPT ![jobs[r].id] = up2] ELSE uploads,
         Has(jobs[r].id) => /\ up2 \in Upload /\ up2.there /\ up2.received = uploads[jobs[r].id].received
                            /\ up2.taken = uploads[jobs[r].id].taken
                            /\ stored[jobs[r].id].there => up2.done
  PROVE  IInv'
<1> DEFINE u == jobs[r].id
<1>1. /\ u \in Ids
      /\ \A s \in Requests : s # r => ~Claims(s, u)
      /\ UploadOK(uploads[u], partial[u], stored[u])
  BY InHand
<1>2. /\ uploads' \in [Ids -> Upload \union {None}] /\ \A v \in Ids : v # u => uploads'[v] = uploads[v]
      /\ uploads'[u] = IF Has(u) THEN up2 ELSE uploads[u]
  BY <1>1, FunctionsAre
<1>3. Typed'
  <2>1. jobs' \in [Requests -> Job]
    BY IdleIs, FunctionsAre
  <2> QED BY <1>2, <2>1 DEF IInv, Typed
<1>4. UploadOK(uploads'[u], partial'[u], stored'[u])
  BY <1>1, <1>2 DEF UploadOK, Has
<1>5. uploads'[u].there /\ stored'[u].there => uploads'[u].done
  BY <1>2 DEF Has
<1>6. \A v \in Ids : v # u => stored'[v] = stored[v] /\ uploads'[v] = uploads[v] /\ partial'[v] = partial[v]
  BY <1>2
<1>7. jobs[r].id = u
  OBVIOUS
<1>8. Idle.pc \notin Claiming /\ Idle.out = {}
  BY IdleIs
<1> HIDE DEF u
<1> QED BY <1>1, <1>3, <1>4, <1>5, <1>6, <1>7, <1>8, OwnStep

LEMMA GuardReleasesKeeps ==
  ASSUME IInv, NEW r \in Requests, GuardReleases(r)
  PROVE  IInv'
<1> DEFINE u == jobs[r].id
           up2 == [uploads[u] EXCEPT !.busy = FALSE, !.age = 0]
<1>1. /\ jobs[r].pc = "release" /\ jobs[r].pc \in Claiming /\ jobs' = [jobs EXCEPT ![r] = Idle]
      /\ UNCHANGED <<partial, stored, late>>
  BY DEF GuardReleases, At, Ends, Claiming, Holding
<1>2. u \in Ids /\ ~stored[u].there /\ uploads[u] \in Upload \union {None}
  BY <1>1, InHand DEF JobOK
<1>3. uploads' = IF Has(u) THEN [uploads EXCEPT ![u] = up2] ELSE uploads
  BY <1>2, FunctionsAre DEF GuardReleases
<1>4. Has(u) => /\ up2 \in Upload /\ up2.there /\ up2.received = uploads[u].received
                /\ up2.taken = uploads[u].taken
  <2>1. ASSUME NEW up \in Upload
        PROVE  LET e == [up EXCEPT !.busy = FALSE, !.age = 0] IN
               e \in Upload /\ e.there /\ e.received = up.received /\ e.taken = up.taken
    BY Sizes DEF Upload
  <2>2. Has(u) => uploads[u] \in Upload
    BY <1>2, UploadIs DEF Has
  <2> HIDE DEF u
  <2> QED BY <2>1, <2>2
<1> HIDE DEF up2
<1> QED BY <1>1, <1>2, <1>3, <1>4, FreedStep

-----------------------------------------------------------------------------
(* COMPLETE                                                                   *)

LEMMA CompleteBeginsKeeps ==
  ASSUME IInv, NEW r \in Requests, NEW u \in Ids, CompleteBegins(r, u)
  PROVE  IInv'
<1> DEFINE job2 == [Idle EXCEPT !.pc = "judging", !.id = u, !.body = uploads[u].taken]
           up2 == [uploads[u] EXCEPT !.busy = TRUE]
<1>1. /\ At(r, "rest") /\ MayComplete(u) /\ uploads' = [uploads EXCEPT ![u] = up2]
      /\ jobs' = [jobs EXCEPT ![r] = job2] /\ UNCHANGED <<partial, stored, late>>
  BY DEF CompleteBegins
<1>2. /\ Has(u) /\ ~uploads[u].done /\ ~uploads[u].busy /\ uploads[u].there
      /\ uploads[u].received = Size
  BY <1>1 DEF MayComplete, Has
<1>3. (\A s \in Requests : ~Claims(s, u)) /\ ~stored[u].there
  BY <1>2, NobodyHas
<1>4. /\ uploads[u] \in Upload /\ uploads[u].taken \in Data(Requests) /\ partial[u] \in File
      /\ UploadOK(uploads[u], partial[u], stored[u])
  BY <1>2, FunctionsAre, UploadIs DEF IInv
<1>5. up2 \in Upload /\ up2.there /\ up2.busy /\ up2.received = uploads[u].received /\ up2.taken = uploads[u].taken
  BY <1>4, BusyIs
<1>6. /\ job2 \in Job /\ job2.pc = "judging" /\ job2.id = u /\ job2.body = uploads[u].taken
      /\ job2.out = {}
  BY <1>4, IdleIs DEF Job, Phases
<1> HIDE DEF job2, up2
<1>7. /\ uploads' \in [Ids -> Upload \union {None}] /\ uploads'[u] = up2
      /\ \A v \in Ids : v # u => uploads'[v] = uploads[v]
  BY <1>1, <1>5, FunctionsAre
<1>8. Typed'
  <2>1. jobs' \in [Requests -> Job]
    BY <1>1, <1>6, FunctionsAre
  <2> QED BY <1>1, <1>7, <2>1 DEF IInv, Typed
<1>9. UploadOK(uploads'[u], partial'[u], stored'[u])
  BY <1>1, <1>2, <1>4, <1>5, <1>7 DEF UploadOK
<1>10. JobOK(r, job2, uploads'[u], partial'[u], stored'[u])
  <2>1. Len(job2.body) = Size /\ (Sound(partial[u]) => Begins(partial[u].data, job2.body))
    BY <1>2, <1>4, <1>6 DEF UploadOK
  <2> QED BY <1>1, <1>3, <1>5, <1>6, <1>7, <2>1 DEF JobOK
<1>11. jobs[r].pc \notin Claiming
  BY <1>1 DEF At, Claiming, Holding
<1> QED BY <1>1, <1>3, <1>6, <1>7, <1>8, <1>9, <1>10, <1>11, OwnStep

(* A request that is a phase further, and otherwise as it was.                 *)
LEMMA FurtherIs ==
  ASSUME NEW job \in Job, NEW pc2 \in Phases
  PROVE  LET job2 == [job EXCEPT !.pc = pc2] IN
         /\ job2 \in Job /\ job2.pc = pc2 /\ job2.id = job.id /\ job2.base = job.base
         /\ job2.body = job.body /\ job2.out = job.out
BY DEF Job

LEMMA CompleteJudgedKeeps ==
  ASSUME IInv, NEW r \in Requests, CompleteJudged(r)
  PROVE  IInv'
<1> DEFINE job == jobs[r]
           u == job.id
<1>1. /\ job.pc = "judging" /\ job.pc \in Claiming /\ UNCHANGED <<partial, stored, late>>
  BY DEF CompleteJudged, At, Claiming, Holding
<1>2. /\ u \in Ids /\ job \in Job
      /\ \A s \in Requests : s # r => ~Claims(s, u)
      /\ JobOK(r, job, uploads[u], partial[u], stored[u])
      /\ UploadOK(uploads[u], partial[u], stored[u])
      /\ ~stored[u].there /\ job.out = {}
  BY <1>1, InHand DEF JobOK
<1>3. CASE jobs' = [jobs EXCEPT ![r].pc = "judged"] /\ uploads' = uploads
  <2> DEFINE job2 == [job EXCEPT !.pc = "judged"]
  <2>1. jobs' = [jobs EXCEPT ![r] = job2]
    BY <1>3, FunctionsAre
  <2>2. /\ job2 \in Job /\ job2.pc = "judged" /\ job2.id = u /\ job2.base = job.base
        /\ job2.body = job.body /\ job2.out = job.out
    <3> HIDE DEF job
    <3> QED BY <1>2, FurtherIs DEF Phases
  <2> HIDE DEF job2
  <2>3. Typed'
    <3>1. jobs' \in [Requests -> Job]
      BY <2>1, <2>2, FunctionsAre
    <3> QED BY <1>1, <1>3, <3>1 DEF IInv, Typed
  <2>4. JobOK(r, job2, uploads'[u], partial'[u], stored'[u])
    BY <1>1, <1>2, <1>3, <2>2 DEF JobOK, Holding
  <2> QED BY <1>1, <1>2, <1>3, <2>1, <2>2, <2>3, <2>4, OwnStep
<1>4. CASE jobs' = [jobs EXCEPT ![r].pc = "refused"] /\ uploads' = [uploads EXCEPT ![u] = None]
  <2> DEFINE job2 == [job EXCEPT !.pc = "refused"]
  <2>1. jobs' = [jobs EXCEPT ![r] = job2]
    BY <1>4, FunctionsAre
  <2>2. job2 \in Job /\ job2.pc = "refused" /\ job2.out = {}
    <3> HIDE DEF job
    <3> QED BY <1>2, FurtherIs DEF Phases
  <2> HIDE DEF job2
  <2>3. job2.pc \notin Claiming /\ job.pc # "published"
    BY <1>1, <2>2 DEF Claiming, Holding
  <2>4. /\ jobs' \in [Requests -> Job]
        /\ \A s \in Requests : jobs'[s] = jobs[s] \/ (s = r /\ jobs'[s] = job2)
    BY <2>1, <2>2, FunctionsAre
  <2>5. /\ uploads' = [v \in Ids |-> uploads'[v]] /\ \A v \in Ids : uploads'[v] \in {uploads[v], None}
    BY <1>4, FunctionsAre
  <2> QED BY <1>1, <2>2, <2>3, <2>4, <2>5, FunctionsAre, DropStep
<1> QED BY <1>3, <1>4 DEF CompleteJudged, Goes

(* A file that begins with as much as it can hold is that, and no more.        *)
LEMMA WholeIs ==
  ASSUME NEW file \in File, NEW b \in Seq(Requests), Len(b) = Size, Begins(file.data, b)
  PROVE  file.data = b
<1> DEFINE d == file.data
<1>1. d \in Seq(Requests \union {Zero}) /\ Len(d) \in 0..Size
  BY FileData
<1>2. Len(d) >= Len(b) /\ \A i \in 1..Len(b) : d[i] = b[i]
  BY <1>1, BeginsIs
<1>3. b \in Seq(Requests \union {Zero})
  BY SeqMonotonic
<1> HIDE DEF d
<1>4. Len(d) = Len(b)
  BY <1>1, <1>2, Sizes
<1>5. d = b
  BY <1>1, <1>2, <1>3, <1>4, SeqEqual
<1> QED BY <1>5 DEF d

LEMMA CompletePublishesKeeps ==
  ASSUME IInv, NEW r \in Requests, CompletePublishes(r)
  PROVE  IInv'
<1> DEFINE job == jobs[r]
           u == job.id
           file == partial[u]
<1>1. job.pc = "judged" /\ job.pc \in Claiming /\ late' = late
  BY DEF CompletePublishes, At, Claiming, Holding
<1>2. /\ u \in Ids /\ job \in Job
      /\ \A s \in Requests : s # r => ~Claims(s, u)
      /\ JobOK(r, job, uploads[u], file, stored[u])
      /\ UploadOK(uploads[u], file, stored[u])
      /\ uploads[u] \in Upload \union {None} /\ file \in File
      /\ ~stored[u].there /\ job.out = {}
  BY <1>1, InHand DEF JobOK
<1>3. /\ job.body \in Data(Requests) /\ job.body \in Seq(Requests) /\ Len(job.body) = Size
      /\ Sound(file) => Begins(file.data, job.body)
  BY <1>1, <1>2, JobIs DEF JobOK
<1>4. CASE file.there
  <2> DEFINE job2 == [job EXCEPT !.pc = "published"]
             file2 == [file EXCEPT !.age = 0, !.taken = job.body]
  <2>1. /\ stored' = [stored EXCEPT ![u] = file2] /\ partial' = [partial EXCEPT ![u] = NoFile]
        /\ jobs' = [jobs EXCEPT ![r] = job2] /\ uploads' = uploads
    BY <1>4, FunctionsAre DEF CompletePublishes, Goes, Removed
  <2>2. /\ job2 \in Job /\ job2.pc = "published" /\ job2.id = u /\ job2.base = job.base
        /\ job2.body = job.body /\ job2.out = {}
    <3> HIDE DEF job
    <3> QED BY <1>2, FurtherIs DEF Phases
  <2>3. /\ file2 \in File /\ file2.there /\ file2.strayed = file.strayed
        /\ file2.data = file.data /\ file2.taken = job.body
    <3> DEFINE b == job.body
    <3>1. b \in Data(Requests)
      BY <1>3
    <3> HIDE DEF b, file
    <3>2. LET e == [file EXCEPT !.age = 0, !.taken = b] IN
          e \in File /\ e.there = file.there /\ e.strayed = file.strayed /\ e.data = file.data /\ e.taken = b
      BY <1>2, <3>1, Sizes DEF File
    <3> QED BY <1>4, <3>2 DEF b
  <2> HIDE DEF job2, file2
  <2>4. Sound(file2) => file2.data = file2.taken /\ Len(file2.taken) = Size
    BY <1>2, <1>3, <1>4, <2>3, WholeIs DEF Sound
  <2>5. /\ stored' \in [Ids -> File] /\ stored'[u] = file2
        /\ partial' \in [Ids -> File] /\ partial'[u] = NoFile
        /\ \A v \in Ids : v # u => stored'[v] = stored[v] /\ partial'[v] = partial[v]
    BY <1>2, <2>1, <2>3, NoFileIs, FunctionsAre
  <2>6. Typed'
    <3>1. jobs' \in [Requests -> Job]
      BY <2>1, <2>2, FunctionsAre
    <3> QED BY <1>1, <2>1, <2>5, <3>1 DEF IInv, Typed
  <2>7. UploadOK(uploads'[u], partial'[u], stored'[u])
    BY <1>2, <2>1, <2>3, <2>4, <2>5, NoFileIs DEF UploadOK, Sound
  <2>8. JobOK(r, job2, uploads'[u], partial'[u], stored'[u])
    BY <1>1, <1>2, <2>1, <2>2 DEF JobOK, Holding
  <2>9. \A v \in Ids : v # u => stored'[v] = stored[v] /\ uploads'[v] = uploads[v] /\ partial'[v] = partial[v]
    BY <2>1, <2>5
  <2>10. jobs' = [jobs EXCEPT ![r] = job2] /\ job2.pc = "published" /\ job2.id = u
    BY <2>1, <2>2
  <2>11. u \in Ids /\ (\A s \in Requests : s # r => ~Claims(s, u)) /\ jobs[r].id = u
    BY <1>2
  <2> HIDE DEF job, u
  <2> QED BY <2>6, <2>7, <2>8, <2>9, <2>10, <2>11, OwnStep
<1>5. CASE ~file.there
  <2> DEFINE up2 == [uploads[u] EXCEPT !.busy = FALSE]
  <2>1. /\ jobs' = [jobs EXCEPT ![r] = Idle] /\ UNCHANGED <<partial, stored, late>>
        /\ uploads' = IF Has(u) THEN [uploads EXCEPT ![u] = up2] ELSE uploads
    BY <1>1, <1>2, <1>5, FunctionsAre DEF CompletePublishes, Ends
  <2>2. Has(u) => /\ up2 \in Upload /\ up2.there /\ up2.received = uploads[u].received
                  /\ up2.taken = uploads[u].taken
    <3>1. Has(u) => uploads[u] \in Upload
      BY <1>2, UploadIs DEF Has
    <3> HIDE DEF u
    <3> QED BY <3>1, BusyIs
  <2> HIDE DEF up2
  <2> QED BY <1>1, <1>2, <2>1, <2>2, FreedStep
<1> QED BY <1>4, <1>5

LEMMA CompleteEndsKeeps ==
  ASSUME IInv, NEW r \in Requests, CompleteEnds(r)
  PROVE  IInv'
<1> DEFINE u == jobs[r].id
           up2 == [uploads[u] EXCEPT !.busy = FALSE, !.age = 0, !.done = TRUE]
<1>1. /\ jobs[r].pc = "published" /\ jobs[r].pc \in Claiming /\ jobs' = [jobs EXCEPT ![r] = Idle]
      /\ UNCHANGED <<partial, stored, late>>
  BY DEF CompleteEnds, At, Ends, Claiming, Holding
<1>2. u \in Ids /\ uploads[u] \in Upload \union {None}
  BY <1>1, InHand
<1>3. uploads' = IF Has(u) THEN [uploads EXCEPT ![u] = up2] ELSE uploads
  BY <1>2, FunctionsAre DEF CompleteEnds
<1>4. Has(u) => /\ up2 \in Upload /\ up2.there /\ up2.received = uploads[u].received
                /\ up2.taken = uploads[u].taken /\ up2.done
  <2>1. ASSUME NEW up \in Upload
        PROVE  LET e == [up EXCEPT !.busy = FALSE, !.age = 0, !.done = TRUE] IN
               e \in Upload /\ e.there /\ e.received = up.received /\ e.taken = up.taken /\ e.done
    BY Sizes DEF Upload
  <2>2. Has(u) => uploads[u] \in Upload
    BY <1>2, UploadIs DEF Has
  <2> HIDE DEF u
  <2> QED BY <2>1, <2>2
<1> HIDE DEF up2
<1> QED BY <1>1, <1>2, <1>3, <1>4, FreedStep

-----------------------------------------------------------------------------
(* THE INVARIANT                                                              *)

(* A body ends where the declared size does, in the phases IInv says nothing of *)
(* its length too.                                                            *)
Fits(job) == job.base + Len(job.body) <= Size
AllFit == \A r \in Requests : Fits(jobs[r])

LEMMA InitHolds == Init => IInv /\ AllFit
<1> SUFFICES ASSUME Init PROVE IInv /\ AllFit
  OBVIOUS
<1>1. /\ uploads = [u \in Ids |-> None] /\ partial = [u \in Ids |-> NoFile]
      /\ stored = [u \in Ids |-> NoFile] /\ jobs = [r \in Requests |-> Idle] /\ late = {}
  BY DEF Init
<1>2. /\ Idle \in Job /\ Idle.pc \notin Claiming /\ Idle.out = {}
      /\ Idle.body = <<>> /\ Idle.base = 0
  <2>1. (CHOOSE u \in Ids : TRUE) \in Ids
    BY UploadAssumption
  <2>2. <<>> \in Data(Requests)
    BY NoFileIs DEF NoFile, File
  <2> QED BY <2>1, <2>2, Sizes DEF Idle, Job, Phases, Claiming, Holding
<1>3. ~None.there
  BY DEF None
<1>4. Typed
  BY <1>1, <1>2, NoFileIs DEF Typed
<1>5. Alone /\ Finishes
  BY <1>1, <1>2, NoFileIs DEF Alone, Finishes, Claims
<1>6. ASSUME NEW u \in Ids PROVE UploadOK(uploads[u], partial[u], stored[u])
  BY <1>1, <1>3, NoFileIs DEF UploadOK, Sound
<1>7. ASSUME NEW r \in Requests
      PROVE  LET u == jobs[r].id IN JobOK(r, jobs[r], uploads[u], partial[u], stored[u])
  BY <1>1, <1>2 DEF JobOK, Claiming, Holding
<1>8. AllFit
  BY <1>1, <1>2, Sizes DEF AllFit, Fits
<1> QED BY <1>4, <1>5, <1>6, <1>7, <1>8 DEF IInv

LEMMA StepKeeps == IInv /\ [Next]_vars => IInv'
<1> SUFFICES ASSUME IInv, [Next]_vars PROVE IInv'
  OBVIOUS
<1>1. CASE UNCHANGED vars
  BY <1>1 DEF vars, IInv, Typed, Alone, Finishes, Claims, Has
<1>2. ASSUME NEW r \in Requests, Work(r) PROVE IInv'
  BY <1>2, CreateRegistersKeeps, WriteLandsKeeps, GuardUndoesKeeps, GuardReleasesKeeps,
     CompleteJudgedKeeps, CompletePublishesKeeps, CompleteEndsKeeps, FileDroppedKeeps DEF Work
<1>3. ASSUME NEW r \in Requests, NEW u \in Ids,
             CreateBegins(r, u) \/ PutBegins(r, u) \/ CompleteBegins(r, u) \/ AbortBegins(r, u)
      PROVE  IInv'
  BY <1>3, CreateBeginsKeeps, PutBeginsKeeps, CompleteBeginsKeeps, AbortBeginsKeeps
<1>4. ASSUME NEW r \in Requests, PutWrites(r) \/ PutTakes(r) \/ PutBreaksOff(r) \/ CompleteBreaksOff(r)
      PROVE  IInv'
  BY <1>4, PutWritesKeeps, PutTakesKeeps, PutBreaksOffKeeps, CompleteBreaksOffKeeps
<1>5. CASE CreateFails \/ LateLands \/ SweepBegins \/ SweepFiles \/ Tick \/ Stop
  BY <1>5, CreateFailsKeeps, LateLandsKeeps, SweepKeeps, TickKeeps, StopKeeps
<1> QED BY <1>1, <1>2, <1>3, <1>4, <1>5 DEF Next

(* Only a request that begins, or that writes, has another body than before.    *)
LEMMA FitsStill ==
  ASSUME IInv, AllFit, NEW r \in Requests, NEW job2, jobs' = [jobs EXCEPT ![r] = job2], Fits(job2)
  PROVE  AllFit'
BY FunctionsAre DEF AllFit

LEMMA SameBody ==
  ASSUME IInv, AllFit, \A r \in Requests : jobs'[r].base = jobs[r].base /\ jobs'[r].body = jobs[r].body
  PROVE  AllFit'
BY DEF AllFit, Fits

LEMMA WorkFits ==
  ASSUME IInv, AllFit, NEW r \in Requests, Work(r)
  PROVE  AllFit'
<1>1. Fits(Idle)
  BY IdleIs, Sizes DEF Fits
<1>2. CASE jobs' = [jobs EXCEPT ![r] = Idle]
  BY <1>1, <1>2, FitsStill
<1>3. ASSUME NEW pc2, Goes(r, pc2) PROVE AllFit'
  BY <1>3, FunctionsAre, SameBody DEF Goes, Job
<1>4. CASE WriteLands(r)
  BY <1>4, FunctionsAre, SameBody DEF WriteLands, Job
<1> QED BY <1>2, <1>3, <1>4 DEF Work, CreateRegisters, GuardUndoes, GuardReleases, CompleteJudged,
            CompletePublishes, CompleteEnds, FileDropped, Ends

LEMMA BeginsFits ==
  ASSUME IInv, AllFit, NEW r \in Requests, NEW u \in Ids,
         CreateBegins(r, u) \/ PutBegins(r, u) \/ CompleteBegins(r, u) \/ AbortBegins(r, u)
  PROVE  AllFit'
<1>0. Idle.body = <<>> /\ Idle.base = 0 /\ Idle \in Job
  BY IdleIs
<1>1. ASSUME NEW pc2 PROVE Fits([Idle EXCEPT !.pc = pc2, !.id = u])
  <2> DEFINE job2 == [Idle EXCEPT !.pc = pc2, !.id = u]
  <2>1. job2.body = <<>> /\ job2.base = 0
    BY <1>0 DEF Job
  <2> HIDE DEF job2
  <2>2. Fits(job2)
    BY <2>1, Sizes DEF Fits
  <2> QED BY <2>2 DEF job2
<1>2. CASE CreateBegins(r, u)
  BY <1>1, <1>2, FitsStill DEF CreateBegins
<1>3. CASE AbortBegins(r, u)
  <2>1. jobs' = jobs \/ jobs' = [jobs EXCEPT ![r] = [Idle EXCEPT !.pc = "aborted", !.id = u]]
    BY <1>3 DEF AbortBegins
  <2> QED BY <1>1, <2>1, FitsStill DEF AllFit
<1>4. CASE PutBegins(r, u)
  <2> DEFINE pc2 == IF partial[u].there THEN "writing" ELSE "undo"
             job2 == [Idle EXCEPT !.pc = pc2, !.id = u, !.base = uploads[u].received]
  <2>1. jobs' = [jobs EXCEPT ![r] = job2] /\ uploads[u].received \in 0..Size
    BY <1>4, FunctionsAre, UploadIs DEF PutBegins, MayWrite, Has
  <2>2. job2.body = <<>> /\ job2.base = uploads[u].received
    BY <1>0 DEF Job
  <2> HIDE DEF job2
  <2>3. Fits(job2)
    BY <2>1, <2>2, Sizes DEF Fits
  <2> QED BY <2>1, <2>3, FitsStill
<1>5. CASE CompleteBegins(r, u)
  <2> DEFINE job2 == [Idle EXCEPT !.pc = "judging", !.id = u, !.body = uploads[u].taken]
  <2>1. jobs' = [jobs EXCEPT ![r] = job2] /\ uploads[u].taken \in Data(Requests)
    BY <1>5, FunctionsAre, UploadIs DEF CompleteBegins, MayComplete, Has
  <2>2. job2.body = uploads[u].taken /\ job2.base = 0
    BY <1>0 DEF Job
  <2> HIDE DEF job2
  <2>3. Len(uploads[u].taken) <= Size /\ Len(uploads[u].taken) \in Nat
    BY <2>1, DataIs, LenProperties
  <2>4. Fits(job2)
    BY <2>2, <2>3, Sizes DEF Fits
  <2> QED BY <2>1, <2>4, FitsStill
<1> QED BY <1>2, <1>3, <1>4, <1>5

LEMMA WriteFits ==
  ASSUME IInv, AllFit, NEW r \in Requests,
         PutWrites(r) \/ PutTakes(r) \/ PutBreaksOff(r) \/ CompleteBreaksOff(r)
  PROVE  AllFit'
<1>1. CASE PutWrites(r)
  <2> DEFINE job == jobs[r]
             w == [id |-> job.id, at |-> job.base + Len(job.body), byte |-> r]
             job2 == [job EXCEPT !.body = Append(job.body, r), !.out = {w}]
  <2>1. jobs' = [jobs EXCEPT ![r] = job2] /\ Len(job.body) < Limit(r) /\ job \in Job
    BY <1>1, FunctionsAre DEF PutWrites
  <2>2. job2.base = job.base /\ job2.body = Append(job.body, r)
    <3> HIDE DEF w, job
    <3> QED BY <2>1 DEF Job
  <2> HIDE DEF job2
  <2>3. job.base \in Nat /\ job.body \in Seq(Requests) /\ Len(job.body) \in Nat
    BY <2>1, JobIs
  <2>4. job.base + Len(job.body) + 1 <= Size
    BY <2>1, <2>3, Sizes DEF Limit, Least
  <2>5. Len(job2.body) = Len(job.body) + 1
    <3>1. Len(Append(job.body, r)) = Len(job.body) + 1
      BY <2>3
    <3> QED BY <2>2, <3>1
  <2>6. Fits(job2)
    BY <2>2, <2>3, <2>4, <2>5, Sizes DEF Fits
  <2> QED BY <2>1, <2>6, FitsStill
<1>2. CASE PutTakes(r)
  <2>1. \E pc \in {"release", "undo"} : jobs' = [jobs EXCEPT ![r].pc = pc]
    BY <1>2 DEF PutTakes, Goes
  <2>2. jobs'[r].base = jobs[r].base /\ jobs'[r].body = jobs[r].body
    BY <2>1, FunctionsAre DEF Job
  <2>3. \A s \in Requests : s # r => jobs'[s] = jobs[s]
    BY <2>1, FunctionsAre
  <2> QED BY <2>2, <2>3, SameBody
<1>3. CASE PutBreaksOff(r)
  BY <1>3, FunctionsAre, SameBody DEF PutBreaksOff, Job
<1>4. CASE CompleteBreaksOff(r)
  <2>1. Fits(Idle)
    BY IdleIs, Sizes DEF Fits
  <2> QED BY <1>4, <2>1, FitsStill DEF CompleteBreaksOff, Ends
<1> QED BY <1>1, <1>2, <1>3, <1>4

LEMMA StepFits == IInv /\ AllFit /\ [Next]_vars => AllFit'
<1> SUFFICES ASSUME IInv, AllFit, [Next]_vars PROVE AllFit'
  OBVIOUS
<1>1. CASE UNCHANGED vars
  BY <1>1 DEF vars, AllFit
<1>2. CASE CreateFails \/ LateLands \/ SweepBegins \/ SweepFiles
  BY <1>2 DEF CreateFails, LateLands, SweepBegins, SweepFiles, AllFit
<1>3. CASE Tick
  BY <1>3, FunctionsAre, SameBody DEF Tick, Job
<1>4. CASE Stop
  <2>1. ASSUME NEW r \in Requests PROVE Fits(Idle)
    BY IdleIs, Sizes DEF Fits
  <2> QED BY <1>4, <2>1 DEF Stop, AllFit
<1> QED BY <1>1, <1>2, <1>3, <1>4, WorkFits, BeginsFits, WriteFits DEF Next

-----------------------------------------------------------------------------
(* THEOREMS                                                                   *)

(* What the invariant says holds whenever the gateway runs: one request at most *)
(* has an upload in hand, and where it stands between registry and file.       *)
THEOREM Strengthening == Spec => [](IInv /\ AllFit)
<1>1. Init => IInv /\ AllFit
  BY InitHolds
<1>2. (IInv /\ AllFit) /\ [Next]_vars => (IInv /\ AllFit)'
  BY StepKeeps, StepFits
<1> QED BY <1>1, <1>2, PTL DEF Spec

(* A chunk never writes past the declared size, an upload has received as many  *)
(* bytes as it took, and every record keeps its shape (put_chunk).             *)
THEOREM UploadTypes == Spec => []TypeOK
<1>1. IInv /\ AllFit => TypeOK
  <2> SUFFICES ASSUME IInv, AllFit PROVE TypeOK
    OBVIOUS
  <2>1. ASSUME NEW r \in Requests
        PROVE  /\ jobs[r].pc \in Phases /\ jobs[r].id \in Ids /\ jobs[r].age \in Ages
               /\ jobs[r].base + Len(jobs[r].body) <= Size
               /\ jobs[r].pc \in {"writing", "undo", "release"} => Len(jobs[r].body) <= Chunk
    <3>1. jobs[r] \in Job
      BY FunctionsAre
    <3>2. LET u == jobs[r].id IN JobOK(r, jobs[r], uploads[u], partial[u], stored[u])
      BY DEF IInv
    <3> QED BY <3>1, <3>2, JobIs DEF JobOK, AllFit, Fits
  <2>2. \A u \in Ids : uploads[u].there => Len(uploads[u].taken) = uploads[u].received
    BY DEF IInv, UploadOK
  <2> QED BY <2>1, <2>2 DEF IInv, Typed, TypeOK
<1> QED BY <1>1, Strengthening, PTL

(* However requests broke off and came again, an upload's file begins with the  *)
(* chunks it took, and the file published is they and no more, but for a late  *)
(* write (put_chunk, ChunkGuard, complete).                                    *)
THEOREM FinishedIsWhatWasTaken == Spec => []KeptAsTaken
<1>1. IInv /\ AllFit => KeptAsTaken
  BY DEF IInv, KeptAsTaken, UploadOK, Sound, Has
<1> QED BY <1>1, Strengthening, PTL
=============================================================================
